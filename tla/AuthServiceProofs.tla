------------------------- MODULE AuthServiceProofs --------------------------
(***************************************************************************)
(* Theorems about the auth service, for any accounts, books, commands and  *)
(* number of calls.                                                        *)
(***************************************************************************)
EXTENDS AuthService, TLAPS

-----------------------------------------------------------------------------
(* The shape of the values the handlers build.                             *)

LEMMA EndedType ==
  ASSUME NEW r \in CallRecord, NEW point \in {"answer", "done", "lost"},
         NEW status \in Statuses \cup {None}
  PROVE  /\ Ended(r, point, status) \in CallRecord
         /\ Ended(r, point, status).pc = point
         /\ Ended(r, point, status).reply = status
         /\ Ended(r, point, status).req = r.req
         /\ Ended(r, point, status).user = r.user
  BY DEF Ended, CallRecord, AwaitPoints

LEMMA EntityOfType ==
  ASSUME DatabaseTypeOK, NEW u \in DOMAIN users
  PROVE  /\ EntityOf(u) \in Entity /\ EntityOf(u).reading = reading[u]
         /\ EntityOf(u).password = None /\ EntityOf(u).email = users[u].email
  <1>1. users[u] \in UserRow /\ u \in UserIds /\ reading[u] \in SUBSET BookIds
    BY DEF DatabaseTypeOK
  <1> QED  BY <1>1 DEF EntityOf, Entity, UserRow

LEMMA MergedType ==
  ASSUME NEW row \in UserRow, NEW entity \in Entity, NEW base \in Entity, NEW dirty
  PROVE  /\ Merged(row, entity, base, dirty) \in UserRow
         /\ Merged(row, entity, base, dirty).email \in {row.email, entity.email}
         /\ "email" \notin dirty /\ entity.email = base.email =>
              Merged(row, entity, base, dirty).email = row.email
         /\ entity.password = None =>
              Merged(row, entity, base, dirty).password = row.password
  <1> DEFINE Put(column) == IF column \in dirty \/ entity[column] # base[column]
                            THEN entity[column] ELSE row[column]
  <1> DEFINE email == Put("email")
  <1> DEFINE password == IF entity.password = None THEN row.password ELSE Put("password")
  <1> DEFINE lat == Put("latitude")
  <1> DEFINE lon == Put("longitude")
  <1> DEFINE city == Put("city")
  <1>1. lat \in Latitudes /\ lon \in Longitudes /\ city \in Cities \cup {None}
    BY DEF UserRow, Entity
  <1>2. /\ email \in Emails /\ email \in {row.email, entity.email}
        /\ "email" \notin dirty /\ entity.email = base.email => email = row.email
    BY DEF UserRow, Entity
  <1>3. /\ password \in StoredPasswords
        /\ entity.password = None => password = row.password
    BY DEF UserRow, Entity
  <1>4. Merged(row, entity, base, dirty) =
          [row EXCEPT !.email = email, !.password = password,
                      !.latitude = lat, !.longitude = lon, !.city = city]
    BY DEF Merged, UserRow
  <1> HIDE DEF email, password, lat, lon, city
  <1> QED  BY <1>1, <1>2, <1>3, <1>4 DEF UserRow

LEMMA NewRowType ==
  ASSUME NEW c \in Calls, AuthTypeOK, Running(c, "register", "insert")
  PROVE  /\ NewRow(c) \in UserRow
         /\ NewRow(c).email = call[c].req.email
         /\ NewRow(c).password = Digest(call[c].req.password)
  <1>1. call[c] \in CallRecord /\ call[c].req \in AllCommands
    BY DEF AuthTypeOK, CallReady, Running
  <1>2. call[c].req \in RegisterCommands
    BY <1>1 DEF Running, AllCommands, RegisterCommands, LoginCommands,
                RelocateCommands, AddCommands, QueryCommands
  <1>3. Digest(call[c].req.password) \in StoredPasswords
    BY <1>2 DEF StoredPasswords, RegisterCommands
  <1> QED  BY <1>1, <1>2, <1>3 DEF NewRow, UserRow, CallRecord, RegisterCommands, Places

-----------------------------------------------------------------------------
(* How a step changes the record of one call.                              *)

LEMMA CallUpdateType ==
  ASSUME AuthTypeOK, DatabaseTypeOK', DOMAIN users \subseteq DOMAIN users',
         NEW c \in Calls, NEW r \in CallRecord,
         call' = [call EXCEPT ![c] = r],
         r.pc # "idle", r.req \in AllCommands,
         r.pc \in {"load", "write"} =>
           /\ r.req \in RelocateCommands \cup AddCommands
           /\ r.req.user \in DOMAIN users' /\ r.entity \in Entity,
         r.pc = "write" => r.base \in Entity
  PROVE  AuthTypeOK'
  <1>1. call' \in [Calls -> CallRecord]
    BY DEF AuthTypeOK
  <1>2. ASSUME NEW d \in Calls  PROVE CallReady(d)'
    <2>1. CASE d = c
      <3>1. call'[c] = r
        BY DEF AuthTypeOK
      <3> QED  BY <2>1, <3>1 DEF CallReady
    <2>2. CASE d # c
      <3>1. call'[d] = call[d] /\ CallReady(d)
        BY <2>2 DEF AuthTypeOK
      <3> QED  BY <3>1 DEF CallReady
    <2> QED  BY <2>1, <2>2
  <1> QED  BY <1>1, <1>2 DEF AuthTypeOK

LEMMA EndedStepType ==
  ASSUME AuthTypeOK, DatabaseTypeOK', DOMAIN users \subseteq DOMAIN users',
         NEW c \in Calls, call[c].pc # "idle",
         NEW point \in {"answer", "done", "lost"}, NEW status \in Statuses \cup {None},
         NEW r \in CallRecord,
         r = Ended(call[c], point, status)
           \/ \E u \in UserIds : r = [Ended(call[c], point, status) EXCEPT !.user = u],
         call' = [call EXCEPT ![c] = r]
  PROVE  AuthTypeOK'
  <1>1. call[c] \in CallRecord /\ call[c].req \in AllCommands
    BY DEF AuthTypeOK, CallReady
  <1>2. r.pc = point /\ r.req = call[c].req
    BY <1>1, EndedType DEF CallRecord
  <1> QED  BY <1>1, <1>2, CallUpdateType

LEMMA ReplyType ==
  ASSUME AuthTypeOK, DatabaseTypeOK', DOMAIN users \subseteq DOMAIN users',
         NEW c \in Calls, call[c].pc # "idle",
         NEW status \in Statuses, Reply(c, status)
  PROVE  AuthTypeOK'
  <1>1. call[c] \in CallRecord
    BY DEF AuthTypeOK
  <1> QED  BY <1>1, EndedType, EndedStepType DEF Reply

LEMMA ReplyForType ==
  ASSUME AuthTypeOK, DatabaseTypeOK', DOMAIN users \subseteq DOMAIN users',
         NEW c \in Calls, call[c].pc # "idle",
         NEW u \in UserIds, ReplyFor(c, u)
  PROVE  AuthTypeOK'
  <1>1. call[c] \in CallRecord /\ "ok" \in Statuses
    BY DEF AuthTypeOK, Statuses
  <1>2. [Ended(call[c], "answer", "ok") EXCEPT !.user = u] \in CallRecord
    BY <1>1, EndedType DEF CallRecord
  <1> QED  BY <1>1, <1>2, EndedStepType DEF ReplyFor

LEMMA TablesType ==
  ASSUME AuthTypeOK, UNCHANGED tables
  PROVE  DatabaseTypeOK' /\ DOMAIN users \subseteq DOMAIN users'
  BY DEF AuthTypeOK, DatabaseTypeOK, tables

-----------------------------------------------------------------------------
(* Type correctness, one lemma per command.                                *)

LEMMA RegisterType ==
  ASSUME AuthTypeOK, NEW c \in Calls,
         RegisterFind(c) \/ RegisterLocate(c) \/ RegisterInsert(c)
  PROVE  AuthTypeOK'
  <1>1. /\ call[c] \in CallRecord /\ call[c].pc # "idle"
        /\ call[c].req \in RegisterCommands /\ call[c].req \in AllCommands
    <2>1. call[c].pc # "idle" /\ call[c].req.cmd = "register"
      BY DEF RegisterFind, RegisterLocate, RegisterInsert, Running
    <2>2. call[c] \in CallRecord /\ call[c].req \in AllCommands
      BY <2>1 DEF AuthTypeOK, CallReady
    <2> QED  BY <2>1, <2>2 DEF AllCommands, RegisterCommands, LoginCommands,
                               RelocateCommands, AddCommands, QueryCommands
  <1>2. CASE RegisterFind(c)
    <2>1. DatabaseTypeOK' /\ DOMAIN users \subseteq DOMAIN users'
      BY <1>2, TablesType DEF RegisterFind
    <2>2. CASE Reply(c, "conflict")
      BY <1>1, <2>1, <2>2, ReplyType DEF Statuses
    <2>3. CASE Goto(c, "locate")
      <3>1. [call[c] EXCEPT !.pc = "locate"] \in CallRecord
        BY <1>1 DEF CallRecord, AwaitPoints
      <3> QED  BY <1>1, <2>1, <2>3, <3>1, CallUpdateType DEF Goto, CallRecord
    <2> QED  BY <1>2, <2>2, <2>3 DEF RegisterFind
  <1>3. CASE RegisterLocate(c)
    <2>1. DatabaseTypeOK' /\ DOMAIN users \subseteq DOMAIN users'
      BY <1>3, TablesType DEF RegisterLocate
    <2>2. ASSUME NEW city \in GeocoderAnswers[call[c].req.place],
                 call' = [call EXCEPT ![c].pc = "insert", ![c].city = city]
          PROVE  AuthTypeOK'
      <3>1. city \in Cities \cup {None}
        BY <1>1, AuthAssumption DEF RegisterCommands
      <3>2. [call[c] EXCEPT !.pc = "insert", !.city = city] \in CallRecord
        BY <1>1, <3>1 DEF CallRecord, AwaitPoints
      <3>3. call' = [call EXCEPT ![c] = [call[c] EXCEPT !.pc = "insert", !.city = city]]
        BY <2>2
      <3> QED  BY <1>1, <2>1, <3>2, <3>3, CallUpdateType DEF CallRecord
    <2> QED  BY <1>1, <1>3, <2>1, <2>2, ReplyType
                DEF RegisterLocate, GetLocation, Statuses
  <1>4. CASE RegisterInsert(c)
    <2>1. nextUser \in UserIds /\ nextUser' \in Nat \ {0}
      BY <1>4, DatabaseAssumption DEF RegisterInsert, AuthTypeOK, DatabaseTypeOK, UserIds
    <2>2. CASE users' = users /\ Reply(c, "error")
      <3>1. DatabaseTypeOK'
        BY <1>4, <2>1, <2>2 DEF RegisterInsert, AuthTypeOK, DatabaseTypeOK
      <3> QED  BY <1>1, <2>2, <3>1, ReplyType DEF Statuses
    <2>3. CASE users' = WithRow(users, nextUser, NewRow(c)) /\ ReplyFor(c, nextUser)
      <3>1. NewRow(c) \in UserRow
        BY <1>4, NewRowType DEF RegisterInsert
      <3>2. DatabaseTypeOK' /\ DOMAIN users \subseteq DOMAIN users'
        BY <1>4, <2>1, <2>3, <3>1 DEF RegisterInsert, AuthTypeOK, DatabaseTypeOK, WithRow
      <3> QED  BY <1>1, <2>1, <2>3, <3>2, ReplyForType
    <2> QED  BY <1>4, <2>2, <2>3 DEF RegisterInsert
  <1> QED  BY <1>2, <1>3, <1>4

LEMMA RelocateType ==
  ASSUME AuthTypeOK, NEW c \in Calls,
         RelocateLocate(c) \/ RelocatePreload(c) \/ RelocateWrite(c)
  PROVE  AuthTypeOK'
  <1>1. /\ call[c] \in CallRecord /\ call[c].pc # "idle"
        /\ call[c].req \in RelocateCommands /\ call[c].req \in AllCommands
    <2>1. call[c].pc # "idle" /\ call[c].req.cmd = "RelocateMe"
      BY DEF RelocateLocate, RelocatePreload, RelocateWrite, Running
    <2>2. call[c] \in CallRecord /\ call[c].req \in AllCommands
      BY <2>1 DEF AuthTypeOK, CallReady
    <2> QED  BY <2>1, <2>2 DEF AllCommands, RegisterCommands, LoginCommands,
                               RelocateCommands, AddCommands, QueryCommands
  <1>2. CASE RelocateLocate(c)
    <2>1. DatabaseTypeOK' /\ DOMAIN users \subseteq DOMAIN users'
      BY <1>2, TablesType DEF RelocateLocate
    <2>2. ASSUME NEW city \in GeocoderAnswers[call[c].req.place],
                 call' = [call EXCEPT ![c].pc = "preload", ![c].city = city]
          PROVE  AuthTypeOK'
      <3>1. city \in Cities \cup {None}
        BY <1>1, AuthAssumption DEF RelocateCommands
      <3>2. [call[c] EXCEPT !.pc = "preload", !.city = city] \in CallRecord
        BY <1>1, <3>1 DEF CallRecord, AwaitPoints
      <3>3. call' = [call EXCEPT ![c] = [call[c] EXCEPT !.pc = "preload", !.city = city]]
        BY <2>2
      <3> QED  BY <1>1, <2>1, <3>2, <3>3, CallUpdateType DEF CallRecord
    <2> QED  BY <1>1, <1>2, <2>1, <2>2, ReplyType
                DEF RelocateLocate, GetLocation, Statuses
  <1>3. CASE RelocatePreload(c)
    <2>1. DatabaseTypeOK' /\ DOMAIN users \subseteq DOMAIN users'
      BY <1>3, TablesType DEF RelocatePreload
    <2>2. CASE call[c].req.user \in DOMAIN users
      <3> DEFINE e == Relocated(EntityOf(call[c].req.user), call[c].req.place, call[c].city)
                 r == [call[c] EXCEPT !.pc = "load", !.city = None, !.entity = e]
      <3>1. EntityOf(call[c].req.user) \in Entity
        BY <2>2, EntityOfType DEF AuthTypeOK
      <3>2. e \in Entity
        BY <1>1, <3>1 DEF Relocated, Entity, RelocateCommands, Places, CallRecord
      <3>3. call' = [call EXCEPT ![c] = r]
        BY <1>3, <2>2 DEF RelocatePreload
      <3> HIDE DEF e
      <3>4. r \in CallRecord /\ r.pc = "load" /\ r.req = call[c].req /\ r.entity = e
        BY <1>1, <3>2 DEF CallRecord, AwaitPoints
      <3>5. DOMAIN users' = DOMAIN users
        BY <1>3 DEF RelocatePreload, tables
      <3> HIDE DEF r
      <3> QED  BY <1>1, <2>1, <2>2, <3>2, <3>3, <3>4, <3>5, CallUpdateType
    <2>3. CASE Reply(c, "error")
      BY <1>1, <2>1, <2>3, ReplyType DEF Statuses
    <2> QED  BY <1>3, <2>2, <2>3 DEF RelocatePreload
  <1>4. CASE RelocateWrite(c)
    <2>1. call[c].entity \in Entity /\ call[c].base \in Entity
      BY <1>4 DEF RelocateWrite, Running, AuthTypeOK, CallReady
    <2>2. CASE Reply(c, "error") /\ UNCHANGED users
      <3>1. UNCHANGED tables
        BY <1>4, <2>2 DEF RelocateWrite, tables
      <3> QED  BY <1>1, <2>2, <3>1, TablesType, ReplyType DEF Statuses
    <2>3. CASE /\ users' = [users EXCEPT ![call[c].req.user] =
                     Merged(@, call[c].entity, call[c].base, {"latitude", "longitude"})]
               /\ Reply(c, "ok")
      <3>1. DOMAIN users' = DOMAIN users /\ users' \in [DOMAIN users -> UserRow]
        BY <2>1, <2>3, MergedType DEF AuthTypeOK, DatabaseTypeOK
      <3>2. DatabaseTypeOK'
        BY <1>4, <3>1 DEF RelocateWrite, AuthTypeOK, DatabaseTypeOK
      <3> QED  BY <1>1, <2>3, <3>1, <3>2, ReplyType DEF Statuses
    <2> QED  BY <1>4, <2>2, <2>3 DEF RelocateWrite
  <1> QED  BY <1>2, <1>3, <1>4

LEMMA AddType ==
  ASSUME AuthTypeOK, NEW c \in Calls, AddFind(c) \/ AddWrite(c)
  PROVE  AuthTypeOK'
  <1>1. /\ call[c] \in CallRecord /\ call[c].pc # "idle"
        /\ call[c].req \in AddCommands /\ call[c].req \in AllCommands
    <2>1. call[c].pc # "idle" /\ call[c].req.cmd = "add-to-my-readlist"
      BY DEF AddFind, AddWrite, Running
    <2>2. call[c] \in CallRecord /\ call[c].req \in AllCommands
      BY <2>1 DEF AuthTypeOK, CallReady
    <2> QED  BY <2>1, <2>2 DEF AllCommands, RegisterCommands, LoginCommands,
                               RelocateCommands, AddCommands, QueryCommands
  <1>2. CASE AddFind(c)
    <2> DEFINE u == call[c].req.user
               e == Pushed(EntityOf(u), call[c].req.book)
               r == [call[c] EXCEPT !.pc = "load", !.entity = e]
    <2>1. DatabaseTypeOK' /\ DOMAIN users \subseteq DOMAIN users'
      BY <1>2, TablesType DEF AddFind
    <2>2. CASE u \in DOMAIN users /\ call' = [call EXCEPT ![c].pc = "load", ![c].entity = e]
      <3>1. EntityOf(u) \in Entity
        BY <2>2, EntityOfType DEF AuthTypeOK
      <3>2. e \in Entity
        BY <1>1, <3>1 DEF Entity, AddCommands, Pushed
      <3>3. call' = [call EXCEPT ![c] = r]
        BY <2>2
      <3> HIDE DEF e
      <3>4. r \in CallRecord /\ r.pc = "load" /\ r.req = call[c].req /\ r.entity = e
        BY <1>1, <3>2 DEF CallRecord, AwaitPoints
      <3>5. DOMAIN users' = DOMAIN users
        BY <1>2 DEF AddFind, tables
      <3> HIDE DEF r
      <3> QED  BY <1>1, <2>1, <2>2, <3>2, <3>3, <3>4, <3>5, CallUpdateType
    <2>3. CASE Reply(c, "error")
      BY <1>1, <2>1, <2>3, ReplyType DEF Statuses
    <2>4. CASE Reply(c, "bad-request")
      BY <1>1, <2>1, <2>4, ReplyType DEF Statuses
    <2> QED  BY <1>2, <2>2, <2>3, <2>4 DEF AddFind
  <1>3. CASE AddWrite(c)
    <2>1. call[c].entity \in Entity /\ call[c].base \in Entity
      BY <1>3 DEF AddWrite, Running, AuthTypeOK, CallReady
    <2>2. CASE Reply(c, "error") /\ UNCHANGED <<users, reading>>
      <3>1. UNCHANGED tables
        BY <1>3, <2>2 DEF AddWrite, tables
      <3> QED  BY <1>1, <2>2, <3>1, TablesType, ReplyType DEF Statuses
    <2>3. CASE /\ users' = [users EXCEPT ![call[c].req.user] =
                              Merged(@, call[c].entity, call[c].base, {})]
               /\ reading' = Relinked(call[c].req.user, call[c].entity, call[c].base)
               /\ Reply(c, "ok")
      <3>1. DOMAIN users' = DOMAIN users /\ users' \in [DOMAIN users -> UserRow]
        BY <2>1, <2>3, MergedType DEF AuthTypeOK, DatabaseTypeOK
      <3>2. reading' \in [UserIds -> SUBSET BookIds]
        BY <2>1, <2>3 DEF AuthTypeOK, DatabaseTypeOK, Relinked, LinksAdded, LinksRemoved, Entity
      <3>3. DatabaseTypeOK'
        BY <1>3, <3>1, <3>2 DEF AddWrite, AuthTypeOK, DatabaseTypeOK
      <3> QED  BY <1>1, <2>3, <3>1, <3>3, ReplyType DEF Statuses
    <2> QED  BY <1>3, <2>2, <2>3 DEF AddWrite
  <1> QED  BY <1>2, <1>3

LEMMA SaveLoadType ==
  ASSUME AuthTypeOK, NEW c \in Calls, SaveLoad(c)
  PROVE  AuthTypeOK'
  <1> DEFINE b == EntityOf(call[c].req.user)
             r == [call[c] EXCEPT !.pc = "write", !.base = b]
  <1>1. /\ call[c] \in CallRecord /\ call[c].req \in AllCommands
        /\ call[c].req \in RelocateCommands \cup AddCommands
        /\ call[c].req.user \in DOMAIN users /\ call[c].entity \in Entity
    BY DEF SaveLoad, AuthTypeOK, CallReady
  <1>2. b \in Entity
    BY <1>1, EntityOfType DEF AuthTypeOK
  <1>3. call' = [call EXCEPT ![c] = r]
    BY DEF SaveLoad
  <1> HIDE DEF b
  <1>4. r \in CallRecord /\ r.pc = "write" /\ r.req = call[c].req
          /\ r.entity = call[c].entity /\ r.base = b
    BY <1>1, <1>2 DEF CallRecord, AwaitPoints
  <1>5. DatabaseTypeOK' /\ DOMAIN users' = DOMAIN users
    BY TablesType DEF SaveLoad, tables
  <1> HIDE DEF r
  <1> QED  BY <1>1, <1>2, <1>3, <1>4, <1>5, CallUpdateType

LEMMA QueryType ==
  ASSUME AuthTypeOK, NEW c \in Calls,
         Login(c) \/ GetUser(c) \/ GetMyReadList(c) \/ MyInfo(c) \/ GetUsers(c)
           \/ QueryFails(c) \/ Answer(c)
  PROVE  AuthTypeOK'
  <1>1. call[c] \in CallRecord /\ call[c].pc # "idle" /\ call[c].req \in AllCommands
    <2>1. call[c].pc # "idle"
      BY DEF Login, GetUser, GetMyReadList, MyInfo, GetUsers, QueryFails, Answer, Running
    <2> QED  BY <2>1 DEF AuthTypeOK, CallReady
  <1>2. DatabaseTypeOK' /\ DOMAIN users \subseteq DOMAIN users' /\ users' = users
    BY TablesType DEF tables, Login, GetUser, GetMyReadList, MyInfo, GetUsers, QueryFails, Answer
  <1>3. \A status \in Statuses : Reply(c, status) => AuthTypeOK'
    BY <1>1, <1>2, ReplyType
  <1>4. \A u \in DOMAIN users : ReplyFor(c, u) => AuthTypeOK'
    BY <1>1, <1>2, ReplyForType DEF AuthTypeOK, DatabaseTypeOK
  <1>5. \A u \in DOMAIN users : Found(c, u) => AuthTypeOK'
    <2> SUFFICES ASSUME NEW u \in DOMAIN users, Found(c, u)  PROVE AuthTypeOK'
      OBVIOUS
    <2> DEFINE e == EntityOf(u)
               r == [call[c] EXCEPT !.pc = "answer", !.reply = "ok", !.user = u, !.entity = e]
    <2>1. e \in Entity /\ u \in UserIds
      BY EntityOfType DEF AuthTypeOK, DatabaseTypeOK
    <2>2. call' = [call EXCEPT ![c] = r]
      BY DEF Found
    <2> HIDE DEF e
    <2>3. r \in CallRecord /\ r.pc = "answer" /\ r.req = call[c].req
      BY <1>1, <2>1 DEF CallRecord, AwaitPoints, Statuses
    <2> HIDE DEF r
    <2> QED  BY <1>1, <1>2, <2>2, <2>3, CallUpdateType
  <1>6. CASE Login(c) \/ GetUser(c) \/ GetMyReadList(c) \/ MyInfo(c) \/ GetUsers(c)
               \/ QueryFails(c)
    BY <1>3, <1>4, <1>5, <1>6
       DEF Login, GetUser, GetMyReadList, MyInfo, GetUsers, QueryFails, Statuses
  <1>7. CASE Answer(c)
    <2>1. Ended(call[c], "done", call[c].reply) \in CallRecord
      BY <1>1, EndedType DEF CallRecord
    <2> QED  BY <1>1, <1>2, <1>7, <2>1, EndedStepType DEF Answer, CallRecord
  <1> QED  BY <1>6, <1>7

LEMMA DeliverType ==
  ASSUME AuthTypeOK, NEW c \in Calls, NEW r \in AllCommands, Deliver(c, r)
  PROVE  AuthTypeOK'
  <1> DEFINE p == IF r.cmd = "RelocateMe" THEN "locate" ELSE "find"
             n == [call[c] EXCEPT !.req = r, !.pc = p]
  <1>1. call[c] \in CallRecord
    BY DEF AuthTypeOK
  <1>2. call' = [call EXCEPT ![c] = n]
    BY DEF Deliver
  <1>3. n \in CallRecord /\ n.req = r /\ n.pc \in {"locate", "find"}
    BY <1>1 DEF CallRecord, AwaitPoints
  <1> HIDE DEF n
  <1> QED  BY <1>1, <1>2, <1>3, TablesType, CallUpdateType DEF Deliver

LEMMA CrashType ==
  ASSUME AuthTypeOK, NEW c \in Calls, Crash(c)
  PROVE  AuthTypeOK'
  <1>1. call[c] \in CallRecord /\ call[c].pc # "idle"
    BY DEF Crash, InFlight, AwaitPoints, AuthTypeOK
  <1>2. Ended(call[c], "lost", call[c].reply) \in CallRecord
    BY <1>1, EndedType DEF CallRecord
  <1> QED  BY <1>1, <1>2, TablesType, EndedStepType DEF Crash, CallRecord

LEMMA BookDeletedType ==
  ASSUME AuthTypeOK, NEW b \in BookIds, BookDeleted(b)
  PROVE  AuthTypeOK'
  <1>1. DatabaseTypeOK'
    BY DEF BookDeleted, BooksDropped, WithoutRows, AuthTypeOK, DatabaseTypeOK
  <1> QED  BY <1>1 DEF BookDeleted, AuthTypeOK, CallReady

LEMMA InitType == AuthInit => AuthTypeOK
  <1> SUFFICES ASSUME AuthInit  PROVE AuthTypeOK
    OBVIOUS
  <1>1. DatabaseTypeOK
    BY DatabaseAssumption DEF AuthInit, DatabaseInit, DatabaseTypeOK
  <1>2. Idle \in CallRecord /\ Idle.pc = "idle"
    BY DEF Idle, CallRecord
  <1> QED  BY <1>1, <1>2 DEF AuthInit, AuthTypeOK, CallReady

LEMMA StepType ==
  ASSUME AuthTypeOK, [AuthNext]_authVars
  PROVE  AuthTypeOK'
  <1>1. ASSUME NEW c \in Calls, Step(c)  PROVE AuthTypeOK'
    BY <1>1, RegisterType, RelocateType, AddType, SaveLoadType, QueryType DEF Step
  <1>2. CASE UNCHANGED authVars
    BY <1>2 DEF authVars, AuthTypeOK, DatabaseTypeOK, CallReady
  <1> QED  BY <1>1, <1>2, CrashType, DeliverType, BookDeletedType, AuthAssumption DEF AuthNext

(* The tables and the handlers' variables keep their types, and a handler  *)
(* that saves has the account it saves.                                    *)
THEOREM TypeCorrect == AuthSpec => []AuthTypeOK
  BY InitType, StepType, PTL DEF AuthSpec

-----------------------------------------------------------------------------
(* What a step leaves alone.  The lemmas of this part need no more of a    *)
(* step than that it moves at most one call, whoever sent its command.     *)

CallMove(c) == Step(c) \/ Crash(c) \/ \E r \in AllCommands : Deliver(c, r)
CallsMove == (\E c \in Calls : CallMove(c)) \/ UNCHANGED call

LEMMA AuthNextMoves == [AuthNext]_authVars => CallsMove
  BY AuthAssumption DEF CallsMove, CallMove, AuthNext, BookDeleted, authVars

LEMMA OthersUntouched ==
  ASSUME AuthTypeOK, NEW c \in Calls, NEW d \in Calls \ {c},
         CallMove(c)
  PROVE  call'[d] = call[d]
  <1>1. call \in [Calls -> CallRecord]
    BY DEF AuthTypeOK
  <1>2. CASE RegisterFind(c) \/ RegisterLocate(c) \/ RegisterInsert(c) \/ Login(c)
    BY <1>1, <1>2 DEF RegisterFind, RegisterLocate, RegisterInsert, Login,
                      GetLocation, Reply, ReplyFor, Goto
  <1>3. CASE RelocateLocate(c) \/ RelocatePreload(c) \/ RelocateWrite(c)
    BY <1>1, <1>3 DEF RelocateLocate, RelocatePreload, RelocateWrite, GetLocation, Reply
  <1>4. CASE AddFind(c) \/ AddWrite(c) \/ SaveLoad(c)
    BY <1>1, <1>4 DEF AddFind, AddWrite, SaveLoad, Reply
  <1>5. CASE GetUser(c) \/ GetMyReadList(c) \/ MyInfo(c) \/ GetUsers(c) \/ QueryFails(c)
               \/ Answer(c)
    BY <1>1, <1>5 DEF GetUser, GetMyReadList, MyInfo, GetUsers, QueryFails, Answer,
                      Found, Reply
  <1>6. CASE Crash(c) \/ \E r \in AllCommands : Deliver(c, r)
    BY <1>1, <1>6 DEF Crash, Deliver
  <1> QED  BY <1>2, <1>3, <1>4, <1>5, <1>6 DEF CallMove, Step

(* An outcome is decided once: a handler still running has none ...        *)
Undecided == \A c \in Calls : call[c].pc \in AwaitPoints \ {"answer"} => call[c].reply = None

(* ... and one that has it changes neither its command nor its outcome.    *)
Decided(c) == call[c].reply # None

LEMMA OutcomeStands ==
  ASSUME AuthTypeOK, Undecided, CallsMove, NEW c \in Calls, Decided(c)
  PROVE  /\ call'[c].req = call[c].req
         /\ call'[c].reply = call[c].reply
         /\ call'[c].user = call[c].user
  <1>1. call[c] \in CallRecord /\ call[c].pc \in {"answer", "done", "lost"}
    BY DEF Decided, Undecided, AuthTypeOK, CallReady, Idle, CallRecord
  <1>2. CASE Answer(c) \/ Crash(c)
    <2>1. \/ call'[c] = Ended(call[c], "done", call[c].reply)
          \/ call'[c] = Ended(call[c], "lost", call[c].reply)
      BY <1>2 DEF Answer, Crash, AuthTypeOK
    <2> QED  BY <1>1, <2>1, EndedType DEF CallRecord
  <1>3. CASE ~ Answer(c) /\ Step(c)
    BY <1>1, <1>3
       DEF Step, RegisterFind, RegisterLocate, RegisterInsert, Login, RelocateLocate,
           RelocatePreload, RelocateWrite, AddFind, AddWrite, SaveLoad, GetUser,
           GetMyReadList, MyInfo, GetUsers, QueryFails, Running
  <1>4. CASE \E r \in AllCommands : Deliver(c, r)
    BY <1>1, <1>4 DEF Deliver
  <1>5. CASE \E d \in Calls \ {c} : CallMove(d)
    BY <1>5, OthersUntouched
  <1>6. CASE UNCHANGED call
    BY <1>6
  <1> QED  BY <1>2, <1>3, <1>4, <1>5, <1>6 DEF CallsMove, CallMove

(* The step that decides an outcome, by command.                           *)
LEMMA DecidingStep ==
  ASSUME AuthTypeOK, NEW c \in Calls, Step(c), call[c].reply = None, call'[c].reply = "ok"
  PROVE  /\ call'[c].req = call[c].req
         /\ call[c].req.cmd = "register" => RegisterInsert(c)
         /\ call[c].req.cmd = "login" => Login(c)
         /\ call[c].req.cmd = "add-to-my-readlist" => AddWrite(c)
         /\ call[c].req.cmd = "RelocateMe" => RelocateWrite(c)
  <1>1. call[c] \in CallRecord /\ None # "ok"
    BY AuthAssumption DEF AuthTypeOK, Statuses
  <1>2. \A status \in Statuses : Reply(c, status) => call'[c].reply = status /\ call'[c].req = call[c].req
    BY <1>1, EndedType DEF Reply, AuthTypeOK
  <1>3. \A u : ReplyFor(c, u) => call'[c].req = call[c].req
    BY <1>1 DEF ReplyFor, AuthTypeOK, Ended, CallRecord
  <1>4. CASE RegisterFind(c) \/ RegisterLocate(c) \/ RelocateLocate(c) \/ RelocatePreload(c)
               \/ AddFind(c) \/ SaveLoad(c) \/ QueryFails(c)
    <2>1. call'[c].reply # "ok"
      BY <1>1, <1>2, <1>4
         DEF RegisterFind, RegisterLocate, RelocateLocate, RelocatePreload, AddFind,
             SaveLoad, QueryFails, GetLocation, Goto, CallRecord, Statuses, AuthTypeOK
    <2> QED  BY <2>1
  <1>5. CASE RegisterInsert(c)
    BY <1>1, <1>2, <1>3, <1>5 DEF RegisterInsert, Running, Statuses
  <1>6. CASE Login(c)
    BY <1>1, <1>2, <1>3, <1>6 DEF Login, Running, Statuses
  <1>7. CASE AddWrite(c)
    BY <1>1, <1>2, <1>7 DEF AddWrite, Running, Statuses
  <1>8. CASE RelocateWrite(c)
    BY <1>1, <1>2, <1>8 DEF RelocateWrite, Running, Statuses
  <1>9. CASE GetUser(c) \/ GetMyReadList(c) \/ MyInfo(c) \/ GetUsers(c)
    BY <1>1, <1>2, <1>9 DEF GetUser, GetMyReadList, MyInfo, GetUsers, Found, Running,
                            Statuses, CallRecord, AuthTypeOK
  <1>10. CASE Answer(c)
    <2>1. call'[c] = Ended(call[c], "done", call[c].reply)
      BY <1>10 DEF Answer, AuthTypeOK
    <2> QED  BY <1>1, <2>1, EndedType DEF CallRecord
  <1> QED  BY <1>4, <1>5, <1>6, <1>7, <1>8, <1>9, <1>10 DEF Step

LEMMA UndecidedStep ==
  ASSUME AuthTypeOK, Undecided, CallsMove
  PROVE  Undecided'
  <1> SUFFICES ASSUME NEW c \in Calls, call'[c].pc \in AwaitPoints \ {"answer"}
               PROVE  call'[c].reply = None
    BY DEF Undecided
  <1>1. call[c] \in CallRecord /\ (call[c].pc = "idle" => call[c].reply = None)
    BY DEF AuthTypeOK, CallReady, Idle
  <1>2. \A r, point, status : call' = [call EXCEPT ![c] = Ended(r, point, status)]
                                /\ r \in CallRecord => call'[c].pc = point
    BY DEF Ended, CallRecord, AuthTypeOK
  <1>3. \A status : ~ Reply(c, status)
    BY <1>1, <1>2 DEF Reply
  <1>4. \A u : ~ ReplyFor(c, u)
    BY <1>1 DEF ReplyFor, Ended, CallRecord, AuthTypeOK
  <1>5. CASE Answer(c) \/ Crash(c)
    BY <1>1, <1>2, <1>5 DEF Answer, Crash, AwaitPoints
  <1>6. CASE RegisterFind(c) \/ RegisterLocate(c) \/ RelocateLocate(c) \/ RelocatePreload(c)
               \/ AddFind(c) \/ SaveLoad(c)
    BY <1>1, <1>3, <1>6
       DEF RegisterFind, RegisterLocate, RelocateLocate, RelocatePreload, AddFind, SaveLoad,
           GetLocation, Running, Goto, CallRecord, AuthTypeOK, Undecided, AwaitPoints
  <1>7. CASE RegisterInsert(c) \/ RelocateWrite(c) \/ AddWrite(c) \/ Login(c) \/ QueryFails(c)
    BY <1>3, <1>4, <1>7 DEF RegisterInsert, RelocateWrite, AddWrite, Login, QueryFails
  <1>8. CASE GetUser(c) \/ GetMyReadList(c) \/ MyInfo(c) \/ GetUsers(c)
    BY <1>1, <1>3, <1>8 DEF GetUser, GetMyReadList, MyInfo, GetUsers, Found, CallRecord,
                            AuthTypeOK
  <1>9. CASE \E r \in AllCommands : Deliver(c, r)
    BY <1>1, <1>9 DEF Deliver, CallRecord, AuthTypeOK
  <1>10. CASE \E d \in Calls \ {c} : CallMove(d)
    BY <1>10, OthersUntouched DEF Undecided
  <1>11. CASE UNCHANGED call
    BY <1>11 DEF Undecided
  <1> QED  BY <1>5, <1>6, <1>7, <1>8, <1>9, <1>10, <1>11
              DEF CallsMove, CallMove, Step

(* The command of a call, once delivered, stays.                           *)
LEMMA RequestStands ==
  ASSUME AuthTypeOK, CallsMove, NEW c \in Calls, call[c].pc # "idle"
  PROVE  call'[c].pc # "idle" /\ call'[c].req = call[c].req
  <1>1. call[c] \in CallRecord /\ call \in [Calls -> CallRecord]
    BY DEF AuthTypeOK
  <1>2. \A point \in {"answer", "done", "lost"}, status \in Statuses \cup {None} :
          call' = [call EXCEPT ![c] = Ended(call[c], point, status)] =>
            call'[c].pc = point /\ call'[c].req = call[c].req
    BY <1>1, EndedType
  <1>3. \A status \in Statuses : Reply(c, status) => call'[c].pc = "answer" /\ call'[c].req = call[c].req
    BY <1>2 DEF Reply
  <1>4. \A u : ReplyFor(c, u) => call'[c].pc = "answer" /\ call'[c].req = call[c].req
    BY <1>1 DEF ReplyFor, Ended, CallRecord
  <1>5. \A u : Found(c, u) => call'[c].pc = "answer" /\ call'[c].req = call[c].req
    BY <1>1 DEF Found, CallRecord
  <1>6. CASE RegisterFind(c) \/ RegisterLocate(c) \/ RelocateLocate(c) \/ RelocatePreload(c)
               \/ AddFind(c) \/ SaveLoad(c)
    BY <1>1, <1>3, <1>6
       DEF RegisterFind, RegisterLocate, RelocateLocate, RelocatePreload, AddFind, SaveLoad,
           GetLocation, Goto, CallRecord, Statuses
  <1>7. CASE RegisterInsert(c) \/ Login(c) \/ RelocateWrite(c) \/ AddWrite(c) \/ GetUser(c)
               \/ GetMyReadList(c) \/ MyInfo(c) \/ GetUsers(c) \/ QueryFails(c)
    BY <1>3, <1>4, <1>5, <1>7 DEF RegisterInsert, Login, RelocateWrite, AddWrite, GetUser,
                            GetMyReadList, MyInfo, GetUsers, QueryFails, Statuses
  <1>8. CASE Answer(c) \/ Crash(c)
    <2>1. call[c].reply \in Statuses \cup {None}
      BY <1>1 DEF CallRecord
    <2> QED  BY <1>1, <1>2, <1>8, <2>1 DEF Answer, Crash
  <1>9. CASE \E d \in Calls \ {c} : CallMove(d)
    BY <1>9, OthersUntouched
  <1>10. CASE UNCHANGED call
    BY <1>10
  <1> QED  BY <1>6, <1>7, <1>8, <1>9, <1>10 DEF CallsMove, CallMove, Step, Deliver

LEMMA NewOutcome ==
  ASSUME AuthTypeOK, CallsMove, NEW c \in Calls, ~ Decided(c), Decided(c)'
  PROVE  Step(c)
  <1>1. call \in [Calls -> CallRecord]
    BY DEF AuthTypeOK
  <1>2. ~ Crash(c)
    <2>1. Crash(c) => call'[c] = Ended(call[c], "lost", call[c].reply)
      BY <1>1 DEF Crash
    <2> QED  BY <1>1, <2>1, EndedType DEF Decided, CallRecord
  <1>3. ~ \E r \in AllCommands : Deliver(c, r)
    <2>1. ASSUME NEW r \in AllCommands, Deliver(c, r)  PROVE call'[c].reply = call[c].reply
      BY <1>1, <2>1 DEF Deliver, CallRecord
    <2> QED  BY <2>1 DEF Decided
  <1>4. ~ \E d \in Calls \ {c} : CallMove(d)
    BY OthersUntouched DEF Decided
  <1>5. call' # call
    BY DEF Decided
  <1> QED  BY <1>2, <1>3, <1>4, <1>5 DEF CallsMove, CallMove

(* A success, once answered, stands.                                       *)
LEMMA ConfirmedStands ==
  ASSUME AuthTypeOK, Undecided, CallsMove,
         NEW c \in Calls, NEW cmd, Confirmed(c, cmd)
  PROVE  /\ Confirmed(c, cmd)'
         /\ call'[c].req = call[c].req /\ call'[c].user = call[c].user
  BY OutcomeStands, AuthAssumption DEF Confirmed, Decided, Statuses

(* A new success is the work of the step that writes for its command.      *)
LEMMA ConfirmedAnew ==
  ASSUME AuthTypeOK, Undecided, CallsMove,
         NEW c \in Calls, NEW cmd, Confirmed(c, cmd)', ~ Confirmed(c, cmd)
  PROVE  /\ call'[c].req = call[c].req
         /\ cmd = "register" => RegisterInsert(c)
         /\ cmd = "login" => Login(c)
         /\ cmd = "add-to-my-readlist" => AddWrite(c)
         /\ cmd = "RelocateMe" => RelocateWrite(c)
  <1>1. ~ Decided(c) /\ Decided(c)'
    BY OutcomeStands, AuthAssumption DEF Confirmed, Decided, Statuses
  <1> QED  BY <1>1, NewOutcome, DecidingStep DEF Decided, Confirmed

(* What the handler of a save holds: it goes on from what it held, or it   *)
(* has just read its account.                                              *)
LEMMA HolderStep ==
  ASSUME AuthTypeOK, CallsMove, NEW c \in Calls, call'[c].pc \in {"load", "write"}
  PROVE  /\ call'[c].req = call[c].req
         /\ \/ /\ call[c].pc \in {"load", "write"} /\ call'[c].entity = call[c].entity
               /\ \/ call'[c] = call[c]
                  \/ call'[c].base = EntityOf(call[c].req.user)
            \/ /\ AddFind(c) /\ call[c].req.user \in DOMAIN users /\ call'[c].pc = "load"
               /\ call'[c].entity = Pushed(EntityOf(call[c].req.user), call[c].req.book)
            \/ /\ RelocatePreload(c) /\ call[c].req.user \in DOMAIN users
               /\ call'[c].pc = "load"
               /\ call'[c].entity = Relocated(EntityOf(call[c].req.user),
                                              call[c].req.place, call[c].city)
  <1>1. call[c] \in CallRecord /\ call \in [Calls -> CallRecord]
    BY DEF AuthTypeOK
  <1>2. \A status : ~ Reply(c, status)
    BY <1>1 DEF Reply, Ended, CallRecord
  <1>3. /\ \A u : ~ ReplyFor(c, u)
        /\ \A u : ~ Found(c, u)
    <2>1. \A u : ReplyFor(c, u) => call'[c].pc = "answer"
      BY <1>1 DEF ReplyFor, Ended, CallRecord
    <2>2. \A u : Found(c, u) => call'[c].pc = "answer"
      BY <1>1 DEF Found, CallRecord
    <2> QED  BY <2>1, <2>2
  <1>4. CASE AddFind(c)
    <2>1. call[c].req.user \in DOMAIN users
      BY <1>2, <1>4 DEF AddFind
    <2> DEFINE e == Pushed(EntityOf(call[c].req.user), call[c].req.book)
    <2>2. call' = [call EXCEPT ![c].pc = "load", ![c].entity = e]
      BY <1>2, <1>4 DEF AddFind
    <2> HIDE DEF e
    <2>3. call'[c].req = call[c].req /\ call'[c].entity = e /\ call'[c].pc = "load"
      BY <1>1, <2>2 DEF CallRecord
    <2> QED  BY <1>4, <2>1, <2>3 DEF e
  <1>5. CASE SaveLoad(c)
    <2> DEFINE b == EntityOf(call[c].req.user)
    <2>1. call' = [call EXCEPT ![c].pc = "write", ![c].base = b]
      BY <1>5 DEF SaveLoad
    <2> HIDE DEF b
    <2>2. /\ call'[c].req = call[c].req /\ call'[c].entity = call[c].entity
          /\ call'[c].base = b
      BY <1>1, <2>1 DEF CallRecord
    <2> QED  BY <1>5, <2>2 DEF SaveLoad, b
  <1>6. CASE RelocatePreload(c)
    <2>1. call[c].req.user \in DOMAIN users
      BY <1>2, <1>6 DEF RelocatePreload
    <2> DEFINE e == Relocated(EntityOf(call[c].req.user), call[c].req.place, call[c].city)
    <2>2. call' = [call EXCEPT ![c].pc = "load", ![c].city = None, ![c].entity = e]
      BY <1>2, <1>6 DEF RelocatePreload
    <2> HIDE DEF e
    <2>3. call'[c].req = call[c].req /\ call'[c].entity = e /\ call'[c].pc = "load"
      BY <1>1, <2>2 DEF CallRecord
    <2> QED  BY <1>6, <2>1, <2>3 DEF e
  <1>7. CASE RegisterFind(c) \/ RegisterLocate(c) \/ RelocateLocate(c)
    BY <1>1, <1>2, <1>7
       DEF RegisterFind, RegisterLocate, RelocateLocate, GetLocation, Goto, CallRecord
  <1>8. CASE RegisterInsert(c) \/ Login(c) \/ RelocateWrite(c) \/ AddWrite(c) \/ GetUser(c)
               \/ GetMyReadList(c) \/ MyInfo(c) \/ GetUsers(c) \/ QueryFails(c)
    BY <1>2, <1>3, <1>8 DEF RegisterInsert, Login, RelocateWrite, AddWrite, GetUser,
                            GetMyReadList, MyInfo, GetUsers, QueryFails
  <1>9. CASE Answer(c) \/ Crash(c)
    <2>1. \/ call'[c] = Ended(call[c], "done", call[c].reply)
          \/ call'[c] = Ended(call[c], "lost", call[c].reply)
      BY <1>1, <1>9 DEF Answer, Crash
    <2> QED  BY <1>1, <2>1, EndedType DEF CallRecord
  <1>10. CASE \E r \in AllCommands : Deliver(c, r)
    BY <1>1, <1>10 DEF Deliver, CallRecord
  <1>11. CASE \E d \in Calls \ {c} : CallMove(d)
    BY <1>11, OthersUntouched
  <1>12. CASE UNCHANGED call
    BY <1>12
  <1> QED  BY <1>4, <1>5, <1>6, <1>7, <1>8, <1>9, <1>10, <1>11, <1>12
              DEF CallsMove, CallMove, Step

(* A user object in a handler of the auth service has no password, and the *)
(* email of its account.                                                   *)
HeldCredentials ==
  \A c \in Calls : call[c].pc \in {"load", "write"} =>
    /\ call[c].entity.password = None
    /\ call[c].entity.email = users[call[c].req.user].email
    /\ call[c].pc = "write" => call[c].base.email = users[call[c].req.user].email

LEMMA HeldCredentialsStep ==
  ASSUME AuthTypeOK, CallsMove, HeldCredentials,
         \A u \in DOMAIN users : users'[u].email = users[u].email
  PROVE  HeldCredentials'
  <1> SUFFICES ASSUME NEW c \in Calls, call'[c].pc \in {"load", "write"}
               PROVE  /\ call'[c].entity.password = None
                      /\ call'[c].entity.email = users'[call'[c].req.user].email
                      /\ call'[c].pc = "write" =>
                           call'[c].base.email = users'[call'[c].req.user].email
    BY DEF HeldCredentials
  <1>1. call'[c].req = call[c].req
    BY HolderStep
  <1> DEFINE u == call[c].req.user
  <1>2. CASE call[c].pc \in {"load", "write"} /\ call'[c].entity = call[c].entity
    <2>1. u \in DOMAIN users
      BY <1>2 DEF AuthTypeOK, CallReady
    <2>2. EntityOf(u).email = users[u].email
      BY <2>1, EntityOfType DEF AuthTypeOK
    <2>3. call'[c] = call[c] \/ call'[c].base = EntityOf(u)
      <3>1. call'[c].pc = "load" \/ call'[c].pc = "write"
        OBVIOUS
      <3>2. ~ (AddFind(c) \/ RelocatePreload(c))
        BY <1>2 DEF AddFind, RelocatePreload, Running
      <3> QED  BY <3>2, HolderStep
    <2> QED  BY <1>1, <1>2, <2>1, <2>2, <2>3 DEF HeldCredentials
  <1>3. CASE /\ u \in DOMAIN users /\ call'[c].pc = "load"
             /\ call'[c].entity = Pushed(EntityOf(u), call[c].req.book)
    <2>1. EntityOf(u).password = None /\ EntityOf(u).email = users[u].email
            /\ EntityOf(u) \in Entity
      BY <1>3, EntityOfType DEF AuthTypeOK
    <2> QED  BY <1>1, <1>3, <2>1 DEF Pushed, Entity
  <1>4. CASE /\ u \in DOMAIN users /\ call'[c].pc = "load"
             /\ call'[c].entity = Relocated(EntityOf(u), call[c].req.place, call[c].city)
    <2>1. EntityOf(u).password = None /\ EntityOf(u).email = users[u].email
            /\ EntityOf(u) \in Entity
      BY <1>4, EntityOfType DEF AuthTypeOK
    <2> QED  BY <1>1, <1>4, <2>1 DEF Relocated, Entity
  <1> QED  BY <1>2, <1>3, <1>4, HolderStep

(* The accounts stay, with their credentials, and no id is taken.          *)
CredentialsStay ==
  /\ DOMAIN users' = DOMAIN users /\ nextUser' = nextUser
  /\ \A u \in DOMAIN users : users'[u].email = users[u].email
                              /\ users'[u].password = users[u].password

(* A save of what was held leaves the credentials: they change with an     *)
(* insert only.                                                            *)
LEMMA CredentialsKept ==
  ASSUME AuthTypeOK, HeldCredentials, NEW c \in Calls, CallMove(c), ~ RegisterInsert(c)
  PROVE  CredentialsStay
  <1>1. CASE RelocateWrite(c) \/ AddWrite(c)
    <2> DEFINE u == call[c].req.user
    <2>1. call[c].entity \in Entity /\ call[c].base \in Entity /\ u \in DOMAIN users
      BY <1>1 DEF RelocateWrite, AddWrite, Running, AuthTypeOK, CallReady
    <2>2. call[c].entity.password = None /\ call[c].entity.email = call[c].base.email
      BY <1>1 DEF RelocateWrite, AddWrite, Running, HeldCredentials
    <2>3. users[u] \in UserRow
      BY <2>1 DEF AuthTypeOK, DatabaseTypeOK
    <2>4. \A dirty \in {{}, {"latitude", "longitude"}} :
            LET row == Merged(users[u], call[c].entity, call[c].base, dirty)
            IN  row.email = users[u].email /\ row.password = users[u].password
      BY <2>1, <2>2, <2>3, MergedType
    <2>5. /\ nextUser' = nextUser
          /\ \/ users' = users
             \/ \E dirty \in {{}, {"latitude", "longitude"}} :
                  users' = [users EXCEPT ![u] =
                              Merged(users[u], call[c].entity, call[c].base, dirty)]
      BY <1>1 DEF RelocateWrite, AddWrite
    <2> QED  BY <2>1, <2>4, <2>5 DEF AuthTypeOK, DatabaseTypeOK, CredentialsStay
  <1>2. (users' = users /\ nextUser' = nextUser) \/ RelocateWrite(c) \/ AddWrite(c)
    BY DEF CallMove, Step, tables, RegisterFind, RegisterLocate, Login,
           RelocateLocate, RelocatePreload, AddFind, SaveLoad, GetUser, GetMyReadList,
           MyInfo, GetUsers, QueryFails, Answer, Crash, Deliver
  <1> QED  BY <1>1, <1>2 DEF CredentialsStay

(* All that the accounts need to know of a step, whoever takes it.         *)
AccountsMove == CallsMove /\ ((\E c \in Calls : RegisterInsert(c)) \/ CredentialsStay)

LEMMA AuthNextAccounts ==
  ASSUME AuthTypeOK, HeldCredentials, [AuthNext]_authVars
  PROVE  AccountsMove
  <1>1. (\E c \in Calls : CallMove(c)) \/ (users' = users /\ nextUser' = nextUser)
    BY AuthAssumption DEF AuthNext, CallMove, BookDeleted, authVars
  <1> QED  BY <1>1, CredentialsKept, AuthNextMoves DEF AccountsMove, CredentialsStay

LEMMA InsertStep ==
  ASSUME AuthTypeOK, NEW c \in Calls, RegisterInsert(c)
  PROVE  /\ nextUser' = nextUser + 1 /\ nextUser \in UserIds
         /\ \/ users' = users /\ call'[c].reply = "error"
            \/ /\ DOMAIN users' = DOMAIN users \cup {nextUser}
               /\ \A u \in DOMAIN users : users[u].email # call[c].req.email
               /\ \A u \in DOMAIN users \ {nextUser} : users'[u] = users[u]
               /\ users'[nextUser].email = call[c].req.email
               /\ users'[nextUser].password = Digest(call[c].req.password)
               /\ call'[c].reply = "ok" /\ call'[c].user = nextUser
               /\ call'[c].req = call[c].req
  <1>1. call[c] \in CallRecord /\ call \in [Calls -> CallRecord]
    BY DEF AuthTypeOK
  <1>2. nextUser' = nextUser + 1 /\ nextUser \in UserIds
    BY DatabaseAssumption DEF RegisterInsert, AuthTypeOK, DatabaseTypeOK, UserIds
  <1>3. CASE users' = users /\ Reply(c, "error")
    BY <1>1, <1>2, <1>3, EndedType DEF Reply, Statuses
  <1>4. CASE /\ ~ InsertRejected(NewRow(c))
             /\ users' = WithRow(users, nextUser, NewRow(c)) /\ ReplyFor(c, nextUser)
    <2>1. /\ NewRow(c).email = call[c].req.email
          /\ NewRow(c).password = Digest(call[c].req.password)
      BY NewRowType DEF RegisterInsert
    <2>2. /\ call'[c].reply = "ok" /\ call'[c].user = nextUser
          /\ call'[c].req = call[c].req
      BY <1>1, <1>2, <1>4 DEF ReplyFor, Ended, CallRecord
    <2> QED  BY <1>2, <1>4, <2>1, <2>2 DEF WithRow, InsertRejected, EmailTaken
  <1> QED  BY <1>2, <1>3, <1>4 DEF RegisterInsert

(* A step of a call, whoever sent its command, leaves the books alone.     *)
LEMMA CallMoveType ==
  ASSUME AuthTypeOK, NEW c \in Calls, CallMove(c)
  PROVE  /\ AuthTypeOK' /\ DOMAIN users \subseteq DOMAIN users'
         /\ books' = books /\ nextBook' = nextBook
  <1>1. CASE \E r \in AllCommands : Deliver(c, r)
    BY <1>1, DeliverType DEF Deliver, tables
  <1>2. CASE Step(c) \/ Crash(c)
    <2>1. AuthNext
      BY <1>2 DEF AuthNext
    <2>2. AuthTypeOK'
      BY <2>1, StepType
    <2>3. books' = books /\ nextBook' = nextBook
      BY <1>2 DEF Step, tables, RegisterFind, RegisterLocate, RegisterInsert,
           Login, RelocateLocate, RelocatePreload, RelocateWrite, AddFind, AddWrite, SaveLoad,
           GetUser, GetMyReadList, MyInfo, GetUsers, QueryFails, Answer, Crash
    <2>4. CASE ~ RegisterInsert(c)
      <3>1. DOMAIN users' = DOMAIN users
        BY <1>2, <2>4
           DEF Step, tables, RegisterFind, RegisterLocate, Login, RelocateLocate,
               RelocatePreload, RelocateWrite, AddFind, AddWrite, SaveLoad, GetUser,
               GetMyReadList, MyInfo, GetUsers, QueryFails, Answer, Crash,
               AuthTypeOK, DatabaseTypeOK
      <3> QED  BY <2>2, <2>3, <3>1
    <2>5. CASE RegisterInsert(c)
      BY <2>2, <2>3, <2>5, InsertStep
    <2> QED  BY <2>4, <2>5
  <1> QED  BY <1>1, <1>2 DEF CallMove

-----------------------------------------------------------------------------
(* Accounts.                                                               *)

(* What makes the two properties of accounts inductive: ids are not        *)
(* reissued, outcomes stand, and the founders stay.                        *)
AccountInv ==
  /\ AuthTypeOK
  /\ Undecided
  /\ \A u \in DOMAIN users : u < nextUser
  /\ DOMAIN Founders \subseteq DOMAIN users
  /\ \A u \in DOMAIN Founders : /\ users[u].email = Founders[u].email
                               /\ users[u].password = Founders[u].password
  /\ HeldCredentials
  /\ EmailsUnique
  /\ AccountsAreRegistrations
  /\ TokenNeedsRegistration

LEMMA AccountInit == AuthInit => AccountInv
  <1> SUFFICES ASSUME AuthInit  PROVE AccountInv
    OBVIOUS
  <1>1. AuthTypeOK
    BY InitType
  <1>2. \A c \in Calls : \A cmd : ~ Confirmed(c, cmd)
    BY DEF AuthInit, Idle, Confirmed
  <1>3. Undecided /\ HeldCredentials
    BY DEF AuthInit, Undecided, HeldCredentials, Idle
  <1> QED  BY <1>1, <1>2, <1>3, DatabaseAssumption
              DEF AuthInit, DatabaseInit, AccountInv, EmailsUnique,
                  AccountsAreRegistrations, TokenNeedsRegistration

(* A step that inserts no account keeps every account's credentials and    *)
(* confirms no registration.                                               *)
LEMMA NoInsertAccounts ==
  ASSUME AccountInv, CallsMove, CredentialsStay, \A c \in Calls : ~ RegisterInsert(c)
  PROVE  AccountsAreRegistrations'
  <1>1. /\ DOMAIN users' = DOMAIN users
        /\ \A u \in DOMAIN users : users'[u].email = users[u].email
                                    /\ users'[u].password = users[u].password
    BY DEF CredentialsStay
  <1>2. \A c \in Calls : Confirmed(c, "register")' <=> Confirmed(c, "register")
    BY ConfirmedStands, ConfirmedAnew DEF AccountInv
  <1>3. \A c \in Calls : Confirmed(c, "register") =>
          call'[c].req = call[c].req /\ call'[c].user = call[c].user
    BY ConfirmedStands DEF AccountInv
  <1>4. ASSUME NEW c \in Calls, Confirmed(c, "register"), NEW u \in DOMAIN users
        PROVE  AccountOf(u, c)' <=> AccountOf(u, c)
    BY <1>1, <1>3, <1>4 DEF AccountOf
  <1> QED  BY <1>1, <1>2, <1>3, <1>4 DEF AccountInv, AccountsAreRegistrations

(* An insert that succeeds adds one account and confirms one registration, *)
(* and the two belong together.                                            *)
LEMMA InsertAccounts ==
  ASSUME AccountInv, NEW c \in Calls, RegisterInsert(c)
  PROVE  AccountsAreRegistrations' /\ EmailsUnique'
  <1>1. AuthTypeOK /\ Undecided /\ nextUser \notin DOMAIN users
    BY DEF AccountInv, AuthTypeOK, DatabaseTypeOK
  <1>2. \A d \in Calls \ {c} : call'[d] = call[d]
    BY <1>1, OthersUntouched DEF CallMove, Step
  <1>3. ~ Confirmed(c, "register") /\ call[c].req # None /\ call[c].req.cmd = "register"
    BY <1>1, AuthAssumption
       DEF RegisterInsert, Running, Undecided, Confirmed, AwaitPoints, Statuses, AuthTypeOK, CallReady
  <1>4. \A d \in Calls \ {c} : Confirmed(d, "register")' <=> Confirmed(d, "register")
    BY <1>2 DEF Confirmed
  <1>5. CASE users' = users /\ call'[c].reply = "error"
    <2>1. ~ Confirmed(c, "register")'
      BY <1>5 DEF Confirmed
    <2>2. \A d \in Calls \ {c} : \A u \in DOMAIN users : AccountOf(u, d)' <=> AccountOf(u, d)
      BY <1>2, <1>5 DEF AccountOf
    <2> QED  BY <1>2, <1>3, <1>4, <1>5, <2>1, <2>2
                DEF AccountInv, AccountsAreRegistrations, EmailsUnique
  <1>6. CASE /\ DOMAIN users' = DOMAIN users \cup {nextUser}
             /\ \A u \in DOMAIN users : users[u].email # call[c].req.email
             /\ \A u \in DOMAIN users \ {nextUser} : users'[u] = users[u]
             /\ users'[nextUser].email = call[c].req.email
             /\ users'[nextUser].password = Digest(call[c].req.password)
             /\ call'[c].reply = "ok" /\ call'[c].user = nextUser
             /\ call'[c].req = call[c].req
    <2> PICK n : n = nextUser
      OBVIOUS
    <2>1. Confirmed(c, "register")' /\ AccountOf(n, c)' /\ n \notin DOMAIN Founders
      BY <1>1, <1>3, <1>6 DEF Confirmed, AccountOf, AccountInv
    <2>2. \A d \in Calls \ {c} : \A u \in DOMAIN users : AccountOf(u, d)' <=> AccountOf(u, d)
      BY <1>1, <1>2, <1>6 DEF AccountOf
    <2>3. \A d \in Calls \ {c} : Confirmed(d, "register")' =>
            (/\ call[d].user \in DOMAIN users \ DOMAIN Founders
             /\ AccountOf(call[d].user, d))'
      <3> SUFFICES ASSUME NEW d \in Calls \ {c}, Confirmed(d, "register")'
                   PROVE  (/\ call[d].user \in DOMAIN users \ DOMAIN Founders
                           /\ AccountOf(call[d].user, d))'
        OBVIOUS
      <3> PICK u : u = call[d].user
        OBVIOUS
      <3>1. u \in DOMAIN users \ DOMAIN Founders /\ AccountOf(u, d) /\ call'[d].user = u
        BY <1>2, <1>4 DEF AccountInv, AccountsAreRegistrations
      <3> QED  BY <1>6, <2>2, <3>1
    <2>4. ASSUME NEW u \in DOMAIN users' \ DOMAIN Founders
          PROVE  \E e \in Calls :
                   /\ Confirmed(e, "register")' /\ AccountOf(u, e)'
                   /\ \A d \in Calls : Confirmed(d, "register")' /\ call'[d].user = u => d = e
      <3>1. CASE u = n
        <4>1. \A d \in Calls \ {c} : ~ (Confirmed(d, "register")' /\ call'[d].user = n)
          BY <1>1, <1>2, <1>4 DEF AccountInv, AccountsAreRegistrations
        <4> QED  BY <2>1, <3>1, <4>1
      <3>2. CASE u # n
        <4>1. u \in DOMAIN users
          BY <1>6, <3>2
        <4>2. PICK e \in Calls :
                /\ Confirmed(e, "register") /\ AccountOf(u, e)
                /\ \A d \in Calls : Confirmed(d, "register") /\ call[d].user = u => d = e
          BY <4>1 DEF AccountInv, AccountsAreRegistrations
        <4>3. Confirmed(e, "register")' /\ AccountOf(u, e)'
          BY <1>3, <1>4, <2>2, <4>1, <4>2
        <4>4. \A d \in Calls : Confirmed(d, "register")' /\ call'[d].user = u => d = e
          BY <1>2, <1>4, <1>6, <3>2, <4>2
        <4> QED  BY <4>3, <4>4
      <3> QED  BY <3>1, <3>2
    <2>5. AccountsAreRegistrations'
      BY <1>6, <2>1, <2>3, <2>4 DEF AccountsAreRegistrations
    <2>6. EmailsUnique'
      BY <1>1, <1>6 DEF AccountInv, EmailsUnique
    <2> QED  BY <2>5, <2>6
  <1> QED  BY <1>1, <1>5, <1>6, InsertStep

LEMMA LoginStep ==
  ASSUME AccountInv, CallsMove
  PROVE  TokenNeedsRegistration'
  <1> DEFINE Presents(c, email, digest) ==
               call[c].req.email = email /\ Digest(call[c].req.password) = digest
             Backed(c) ==
               \/ \E u \in DOMAIN Founders :
                    call[c].user = u /\ Presents(c, Founders[u].email, Founders[u].password)
               \/ \E d \in Calls :
                    /\ Confirmed(d, "register") /\ call[d].user = call[c].user
                    /\ Presents(c, call[d].req.email, Digest(call[d].req.password))
  <1> SUFFICES ASSUME NEW c \in Calls, Confirmed(c, "login")'  PROVE Backed(c)'
    BY DEF TokenNeedsRegistration
  <1>1. \A d \in Calls : Confirmed(d, "register") =>
          /\ Confirmed(d, "register")'
          /\ call'[d].req = call[d].req /\ call'[d].user = call[d].user
    BY ConfirmedStands DEF AccountInv
  <1>2. CASE Confirmed(c, "login")
    <2>1. Backed(c)
      BY <1>2 DEF AccountInv, TokenNeedsRegistration
    <2>2. call'[c].req = call[c].req /\ call'[c].user = call[c].user
      BY <1>2, ConfirmedStands DEF AccountInv
    <2> QED  BY <1>1, <2>1, <2>2
  <1>3. CASE ~ Confirmed(c, "login")
    <2>1. Login(c) /\ call'[c].req = call[c].req
      BY <1>3, ConfirmedAnew DEF AccountInv
    <2>2. call[c] \in CallRecord /\ call \in [Calls -> CallRecord]
      BY DEF AccountInv, AuthTypeOK
    <2>3. ~ Reply(c, "unauthorized")
      BY <2>2, EndedType DEF Reply, Confirmed, Statuses
    <2>4. PICK u \in DOMAIN users : Validates(u, call[c].req) /\ ReplyFor(c, u)
      BY <2>1, <2>3 DEF Login
    <2>5. call'[c].user = u
      BY <2>2, <2>4 DEF ReplyFor, Ended, CallRecord
    <2>6. CASE u \in DOMAIN Founders
      BY <2>1, <2>4, <2>5, <2>6 DEF Validates, AccountInv
    <2>7. CASE u \notin DOMAIN Founders
      <3>1. PICK d \in Calls : Confirmed(d, "register") /\ AccountOf(u, d)
        BY <2>7 DEF AccountInv, AccountsAreRegistrations
      <3> QED  BY <1>1, <2>1, <2>4, <2>5, <3>1 DEF Validates, AccountOf
    <2> QED  BY <2>6, <2>7
  <1> QED  BY <1>2, <1>3

LEMMA AccountStep ==
  ASSUME AccountInv, AuthTypeOK', AccountsMove
  PROVE  AccountInv'
  <1>1. AuthTypeOK' /\ Undecided' /\ HeldCredentials'
    <2>1. \A u \in DOMAIN users : users'[u].email = users[u].email
      <3>1. nextUser \notin DOMAIN users
        BY DEF AccountInv, AuthTypeOK, DatabaseTypeOK
      <3> QED  BY <3>1, InsertStep DEF AccountInv, AccountsMove, CredentialsStay
    <2> QED  BY <2>1, UndecidedStep, HeldCredentialsStep DEF AccountInv, AccountsMove
  <1>2. ASSUME \A c \in Calls : ~ RegisterInsert(c)  PROVE AccountInv'
    <2>1. /\ DOMAIN users' = DOMAIN users /\ nextUser' = nextUser
          /\ \A u \in DOMAIN users : users'[u].email = users[u].email
                                      /\ users'[u].password = users[u].password
      BY <1>2 DEF AccountsMove, CredentialsStay
    <2>2. EmailsUnique'
      BY <2>1 DEF AccountInv, EmailsUnique
    <2> QED  BY <1>1, <1>2, <2>1, <2>2, NoInsertAccounts, LoginStep DEF AccountInv, AccountsMove, CredentialsStay
  <1>3. ASSUME NEW c \in Calls, RegisterInsert(c)  PROVE AccountInv'
    <2>1. /\ \A u \in DOMAIN users' : u < nextUser'
          /\ DOMAIN Founders \subseteq DOMAIN users'
          /\ \A u \in DOMAIN Founders : users'[u] = users[u]
      BY <1>3, InsertStep DEF AccountInv, AuthTypeOK, DatabaseTypeOK, UserIds
    <2> QED  BY <1>1, <1>3, <2>1, InsertAccounts, LoginStep DEF AccountInv, AccountsMove
  <1> QED  BY <1>2, <1>3

LEMMA AccountInvariant == AuthSpec => []AccountInv
  <1>1. AccountInv /\ [AuthNext]_authVars => AccountInv'
    BY AccountStep, StepType, AuthNextAccounts DEF AccountInv
  <1> QED  BY AccountInit, <1>1, PTL DEF AuthSpec

(* No two accounts ever share an email, however registrations race.        *)
THEOREM UniqueEmails == AuthSpec => []EmailsUnique
  BY AccountInvariant, PTL DEF AccountInv

(* Accounts and successful registrations correspond one to one, and an     *)
(* account keeps for good the credentials it was registered with.          *)
THEOREM RegistrationAllOrNothing == AuthSpec => []AccountsAreRegistrations
  BY AccountInvariant, PTL DEF AccountInv

(* Nobody gets a token without the credentials of a registered account.    *)
THEOREM NoTokenWithoutRegistration == AuthSpec => []TokenNeedsRegistration
  BY AccountInvariant, PTL DEF AccountInv

-----------------------------------------------------------------------------
(* Reading lists.                                                          *)

(* Has u the book from the start, or by a confirmed add?                   *)
ReadBy(u, b) ==
  \/ b \in FoundersReading[u]
  \/ \E c \in Calls : /\ Confirmed(c, "add-to-my-readlist")
                     /\ call[c].req.user = u /\ call[c].req.book = b

(* The stale user object of an add in progress holds, besides the book to  *)
(* add, only books its member has or had.                                  *)
StaleReadsConfirmed ==
  \A c \in Calls : call[c].pc \in {"load", "write"} /\ call[c].req \in AddCommands =>
    \A b \in call[c].entity.reading \ {call[c].req.book} : ReadBy(call[c].req.user, b)

ReadingInv ==
  /\ AuthTypeOK
  /\ Undecided
  /\ NoDanglingReading
  /\ EveryReadWasConfirmed
  /\ StaleReadsConfirmed

LEMMA ReadByStands ==
  ASSUME AuthTypeOK, Undecided, CallsMove, NEW u, NEW b, ReadBy(u, b)
  PROVE  ReadBy(u, b)'
  BY ConfirmedStands DEF ReadBy

(* What the write of an add does to the junction table; ...                *)
LEMMA AddWriteReading ==
  ASSUME AuthTypeOK, NEW c \in Calls, AddWrite(c), reading' # reading
  PROVE  /\ AddWrite(c) /\ DOMAIN books' = DOMAIN books
         /\ call'[c].reply = "ok" /\ call'[c].req = call[c].req
         /\ call[c].req \in AddCommands
         /\ \A u \in UserIds \ {call[c].req.user} : reading'[u] = reading[u]
         /\ reading'[call[c].req.user] \subseteq
              reading[call[c].req.user] \cup (call[c].entity.reading \cap DOMAIN books)
  <1> DEFINE u == call[c].req.user
             e == call[c].entity
             base == call[c].base
  <1>1. /\ ~ LinksRejected(u, LinksAdded(e, base)) /\ reading' = Relinked(u, e, base)
        /\ Reply(c, "ok") /\ books' = books
    BY DEF AddWrite
  <1>2. call[c] \in CallRecord /\ call[c].req.cmd = "add-to-my-readlist"
          /\ call[c].req \in RelocateCommands \cup AddCommands
    BY DEF AddWrite, Running, AuthTypeOK, CallReady
  <1>3. call[c].req \in AddCommands /\ u \in UserIds
    BY <1>2 DEF RelocateCommands, AddCommands
  <1>4. call'[c].reply = "ok" /\ call'[c].req = call[c].req
    BY <1>1, <1>2, EndedType DEF Reply, AuthTypeOK, Statuses
  <1>5. LinksAdded(e, base) \subseteq e.reading \cap DOMAIN books
    BY <1>1 DEF LinksRejected, LinksAdded
  <1>6. reading \in [UserIds -> SUBSET BookIds]
    BY DEF AuthTypeOK, DatabaseTypeOK
  <1>7. /\ \A v \in UserIds \ {u} : reading'[v] = reading[v]
        /\ reading'[u] = (reading[u] \cup LinksAdded(e, base)) \ LinksRemoved(e, base)
    BY <1>1, <1>3, <1>6 DEF Relinked
  <1> QED  BY <1>1, <1>3, <1>4, <1>5, <1>7

(* ... nothing else adds to it.                                            *)
LEMMA ReadingStep ==
  ASSUME AuthTypeOK, [AuthNext]_authVars
  PROVE  \/ /\ DOMAIN books' = DOMAIN books
            /\ \A u \in UserIds : reading'[u] = reading[u]
         \/ \E d \in BookIds : /\ DOMAIN books' = DOMAIN books \ {d}
                              /\ \A u \in UserIds : reading'[u] = reading[u] \ {d}
         \/ \E c \in Calls :
              /\ AddWrite(c) /\ DOMAIN books' = DOMAIN books
              /\ call'[c].reply = "ok" /\ call'[c].req = call[c].req
              /\ call[c].req \in AddCommands
              /\ \A u \in UserIds \ {call[c].req.user} : reading'[u] = reading[u]
              /\ reading'[call[c].req.user] \subseteq
                   reading[call[c].req.user] \cup (call[c].entity.reading \cap DOMAIN books)
  <1>1. ASSUME NEW b \in BookIds, BookDeleted(b)
        PROVE  /\ DOMAIN books' = DOMAIN books \ {b}
               /\ \A u \in UserIds : reading'[u] = reading[u] \ {b}
    BY <1>1 DEF BookDeleted, BooksDropped, WithoutRows
  <1>2. \/ reading' = reading /\ books' = books
        \/ \E b \in BookIds : BookDeleted(b)
        \/ \E c \in Calls : AddWrite(c) /\ books' = books
    BY DEF AuthNext, Step, authVars, tables, RegisterFind, RegisterLocate, RegisterInsert,
           Login, RelocateLocate, RelocatePreload, RelocateWrite, AddFind, AddWrite, SaveLoad,
           GetUser, GetMyReadList, MyInfo, GetUsers, QueryFails, Answer, Crash, Deliver
  <1> QED  BY <1>1, <1>2, AddWriteReading

(* What the handler of an add comes to hold in a step.                     *)
LEMMA StaleStep ==
  ASSUME AuthTypeOK, CallsMove, NEW c \in Calls,
         call'[c].pc \in {"load", "write"}, call'[c].req \in AddCommands
  PROVE  /\ call'[c].req = call[c].req
         /\ \/ call[c].pc \in {"load", "write"} /\ call'[c].entity = call[c].entity
            \/ /\ call[c].req.user \in UserIds
               /\ call'[c].entity.reading =
                    reading[call[c].req.user] \cup {call[c].req.book}
  <1>1. CASE AddFind(c) /\ call[c].req.user \in DOMAIN users
               /\ call'[c].entity = Pushed(EntityOf(call[c].req.user), call[c].req.book)
    <2>1. /\ EntityOf(call[c].req.user) \in Entity
          /\ EntityOf(call[c].req.user).reading = reading[call[c].req.user]
          /\ call[c].req.user \in UserIds
      BY <1>1, EntityOfType DEF AuthTypeOK, DatabaseTypeOK
    <2> QED  BY <1>1, <2>1, HolderStep DEF Pushed, Entity
  <1>2. ~ RelocatePreload(c)
    BY HolderStep DEF RelocatePreload, Running, AddCommands
  <1> QED  BY <1>1, <1>2, HolderStep

LEMMA StaleReadsStep ==
  ASSUME AuthTypeOK, Undecided, EveryReadWasConfirmed, StaleReadsConfirmed, CallsMove
  PROVE  StaleReadsConfirmed'
  <1> SUFFICES ASSUME NEW c \in Calls,
                      call'[c].pc \in {"load", "write"}, call'[c].req \in AddCommands,
                      NEW b \in call'[c].entity.reading \ {call'[c].req.book}
               PROVE  \E u : u = call'[c].req.user /\ ReadBy(u, b)'
    BY DEF StaleReadsConfirmed
  <1>1. call'[c].req = call[c].req
    BY StaleStep
  <1>2. ReadBy(call[c].req.user, b)
    <2>1. CASE call[c].pc \in {"load", "write"} /\ call'[c].entity = call[c].entity
      BY <1>1, <2>1 DEF StaleReadsConfirmed
    <2>2. CASE /\ call[c].req.user \in UserIds
               /\ call'[c].entity.reading = reading[call[c].req.user] \cup {call[c].req.book}
      BY <1>1, <2>2 DEF EveryReadWasConfirmed, ReadBy
    <2> QED  BY <2>1, <2>2, StaleStep
  <1> QED  BY <1>1, <1>2, ReadByStands

LEMMA ReadingInit == AuthInit => ReadingInv
  <1> SUFFICES ASSUME AuthInit  PROVE ReadingInv
    OBVIOUS
  <1>1. AuthTypeOK
    BY InitType
  <1>2. Undecided /\ StaleReadsConfirmed
    BY DEF AuthInit, Undecided, StaleReadsConfirmed, Idle
  <1>3. NoDanglingReading /\ EveryReadWasConfirmed
    BY DatabaseAssumption
       DEF AuthInit, DatabaseInit, NoDanglingReading, EveryReadWasConfirmed
  <1> QED  BY <1>1, <1>2, <1>3 DEF ReadingInv

LEMMA ReadingInductive ==
  ASSUME ReadingInv, [AuthNext]_authVars
  PROVE  ReadingInv'
  <1>1. AuthTypeOK' /\ Undecided'
    BY StepType, UndecidedStep, AuthNextMoves DEF ReadingInv
  <1>2. NoDanglingReading'
    BY ReadingStep DEF ReadingInv, NoDanglingReading
  <1>3. StaleReadsConfirmed'
    BY StaleReadsStep, AuthNextMoves DEF ReadingInv
  <1>4. EveryReadWasConfirmed'
    <2> SUFFICES ASSUME NEW u \in UserIds, NEW b \in reading'[u] \ FoundersReading[u]
                 PROVE  ReadBy(u, b)'
      BY DEF EveryReadWasConfirmed, ReadBy
    <2>1. CASE b \in reading[u]
      BY <2>1, ReadByStands, AuthNextMoves DEF ReadingInv, EveryReadWasConfirmed, ReadBy
    <2>2. CASE b \notin reading[u]
      <3>1. PICK c \in Calls :
              /\ AddWrite(c) /\ call'[c].reply = "ok" /\ call'[c].req = call[c].req
              /\ call[c].req \in AddCommands
              /\ u = call[c].req.user /\ b \in call[c].entity.reading
        BY <2>2, ReadingStep DEF ReadingInv
      <3>2. CASE b = call[c].req.book
        BY <3>1, <3>2, AuthAssumption DEF ReadBy, Confirmed, AddCommands, AllCommands
      <3>3. CASE b # call[c].req.book
        <4>1. ReadBy(u, b)
          BY <3>1, <3>3 DEF ReadingInv, StaleReadsConfirmed, AddWrite, Running
        <4> QED  BY <4>1, ReadByStands, AuthNextMoves DEF ReadingInv
      <3> QED  BY <3>2, <3>3
    <2> QED  BY <2>1, <2>2
  <1> QED  BY <1>1, <1>2, <1>3, <1>4 DEF ReadingInv

LEMMA ReadingInvariant == AuthSpec => []ReadingInv
  BY ReadingInit, ReadingInductive, PTL DEF AuthSpec

(* No reading list refers to a deleted book.                               *)
THEOREM ReadingRefersToBooks == AuthSpec => []NoDanglingReading
  BY ReadingInvariant, PTL DEF ReadingInv

(* No book comes onto a reading list but by an add of it that succeeded.   *)
THEOREM ReadsAreConfirmed == AuthSpec => []EveryReadWasConfirmed
  BY ReadingInvariant, PTL DEF ReadingInv
=============================================================================
