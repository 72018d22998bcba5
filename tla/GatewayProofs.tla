--------------------------- MODULE GatewayProofs ----------------------------
(***************************************************************************)
(* Theorems about GatewaySpec, for any requests, members, routes, tokens   *)
(* and deaths: types, TokenOwnerActs, OnlyRejectionsReturn, and that the   *)
(* gateway implements ClubDoor.                                            *)
(*                                                                         *)
(* A step moves one request, or letters, or the clock.  Letters move in    *)
(* six ways (Evolves), whoever moves them, so the invariant is shown for   *)
(* the requests' steps one by one, and for letters once.                   *)
(***************************************************************************)
EXTENDS Gateway, TLAPS

Uses == {"verify", "decode", "first", "second"}
Attempts == {"first", "second"}
AllRoutes == AuthRoutes \cup BooksRoutes

-----------------------------------------------------------------------------
(* The invariant.                                                          *)

(* Every letter: an unsent one is blank, and the successes so far leave    *)
(* room for those to come.                                                 *)
LetterInv(m) ==
  /\ mail[m].at = "unsent" => mail[m] = Unwritten
  /\ mail[m].at # "unsent" => mail[m].body \in Bodies
  /\ mail[m].done <= deaths + 1
  /\ mail[m].at \in {"queued", "running", "stalled"} => mail[m].done <= deaths
  /\ mail[m].outcome = "ok" \/ mail[m].answer = "ok" => mail[m].done > 0

(* A verify-jwt whose token JwtGuard rejects, now and for ever.            *)
Rejected(m) == Cmd(m) = "verify-jwt" /\ ~ Valid(mail[m].body.data)

(* The letters of the auth service succeed once at most; those that were   *)
(* never acknowledged and are not fresh are the rejected ones.             *)
AuthLetterInv(m) ==
  mail[m].at # "unsent" /\ Service(m) = "auth" =>
    /\ mail[m].at = "queued" => ~ mail[m].acked
    /\ ~ mail[m].acked => mail[m].done = 0 /\ mail[m].at \in {"queued", "handled", "answered"}
    /\ ~ mail[m].acked /\ (mail[m].at # "queued" \/ mail[m].answer # None) =>
         Rejected(m) /\ mail[m].answer # "ok" /\ mail[m].outcome # "ok"
    /\ mail[m].acked /\ mail[m].answer # None => mail[m].at = "answered"
    /\ mail[m].at \in {"running", "stalled"} => mail[m].done = 0
    /\ mail[m].at = "handled" /\ mail[m].outcome # "ok" => mail[m].done = 0
    /\ mail[m].answer = "error" => mail[m].done = 0
    /\ mail[m].done <= 1

Unsent(q, use) == mail[<<q, use>>].at = "unsent"

(* Which letters a request has sent where it is.                           *)
PhaseInv(q) ==
  /\ request[q].pc = "idle" => request[q] = Unmade
  /\ request[q].pc # "idle" => request[q].route # None
  /\ request[q].pc \in {"idle", "guard"} => Unsent(q, "verify")
  /\ request[q].pc \in {"idle", "guard", "verify"} => Unsent(q, "decode")
  /\ request[q].pc \in {"idle", "guard", "verify", "decode"} =>
       Unsent(q, "first") /\ Unsent(q, "second")
  /\ request[q].pc = "handle" => Unsent(q, request[q].attempt)
  /\ request[q].pc \in {"handle", "wait"} /\ request[q].attempt = "first" =>
       Unsent(q, "second")

(* What its letters say.                                                   *)
BodyInv(q) ==
  /\ ~ Unsent(q, "verify") => mail[<<q, "verify">>].body = Verification(request[q].token)
  /\ ~ Unsent(q, "decode") => mail[<<q, "decode">>].body = Decoding(request[q].token)
  /\ \A use \in Attempts : ~ Unsent(q, use) =>
       /\ mail[<<q, use>>].body = Command(q)
       /\ request[q].valid
       /\ request[q].route.guarded => request[q].user # None

(* Was the request's token signed, and live when the request came?         *)
Live(q) == request[q].token \in tokens /\ request[q].came < request[q].token.exp

(* Whose it is: past the guard, its token is live, and the user its owner. *)
SessionInv(q) ==
  /\ request[q].token \in tokens \cup {Garbled, None}
  /\ request[q].came <= now
  /\ request[q].pc \in {"verify", "decode"} => request[q].token # None
  /\ mail[<<q, "verify">>].outcome = "ok" \/ mail[<<q, "verify">>].answer = "ok" => Live(q)
  /\ request[q].pc = "decode" => Live(q)
  /\ request[q].user # None => Live(q) /\ request[q].user = request[q].token.user

(* What it has heard: a second letter follows a failed first, and an       *)
(* answer to the client follows the answers to its letters.                *)
Failed(q, use) == Unsent(q, use) \/ mail[<<q, use>>].answer = "error"

VerdictInv(q) ==
  /\ request[q].pc \in {"handle", "wait"} /\ request[q].attempt = "second" => Failed(q, "first")
  /\ ~ Unsent(q, "second") => Failed(q, "first")
  /\ request[q].pc = "answered" =>
       /\ \A use \in Attempts : Unsent(q, use) \/ mail[<<q, use>>].answer # None
       /\ request[q].status = "ok" => \E use \in Attempts : mail[<<q, use>>].answer = "ok"
       /\ request[q].status = "error" => Failed(q, "first") /\ Failed(q, "second")
       /\ request[q].status \notin Outcomes => Unsent(q, "first") /\ Unsent(q, "second")

RequestInv(q) == PhaseInv(q) /\ BodyInv(q) /\ SessionInv(q) /\ VerdictInv(q)

GatewayInv ==
  /\ GatewayTypeOK
  /\ \A m \in Messages : LetterInv(m) /\ AuthLetterInv(m)
  /\ \A q \in Requests : RequestInv(q)

-----------------------------------------------------------------------------
(* Routes and letters.                                                     *)

(* No route sends the guard's or the interceptor's command.                *)
LEMMA RouteFields ==
  ASSUME NEW r \in AllRoutes
  PROVE  /\ r.service \in Services /\ r.cmd \in Commands /\ r.guarded \in BOOLEAN
         /\ r.cmd \notin {"verify-jwt", "decode-jwt"}
         /\ r.refusal \in {"bad-request", "unauthorized", None}
  <1>1. r.cmd \in Commands
    BY DEF AllRoutes, Commands
  <1> QED  BY <1>1 DEF AllRoutes, AuthRoutes, BooksRoutes, Open, Guarded, Services

LEMMA MessageParts ==
  ASSUME NEW q \in Requests, NEW use \in Uses
  PROVE  /\ <<q, use>> \in Messages
         /\ \A p, u : <<q, use>> = <<p, u>> => q = p /\ use = u
  BY DEF Messages, Uses

LEMMA MessageOf ==
  ASSUME NEW m \in Messages
  PROVE  \E q \in Requests, use \in Uses : m = <<q, use>>
  BY DEF Messages, Uses

(* What a letter just sent is like.                                        *)
LEMMA SentLetter ==
  ASSUME GatewayTypeOK, NEW q \in Requests, NEW use \in Uses, NEW b \in Bodies,
         Sent(<<q, use>>, b)
  PROVE  /\ mail' \in [Messages -> Letter(Bodies)]
         /\ \A m \in Messages : m # <<q, use>> => mail'[m] = mail[m]
         /\ \A u \in Uses : u # use => mail'[<<q, u>>] = mail[<<q, u>>]
         /\ mail'[<<q, use>>].body = b /\ mail'[<<q, use>>].at = "queued"
         /\ mail'[<<q, use>>].acked = FALSE /\ mail'[<<q, use>>].done = 0
         /\ mail'[<<q, use>>].outcome = None /\ mail'[<<q, use>>].answer = None
  <1>1. <<q, use>> \in Messages
    BY MessageParts
  <1> DEFINE l == Fresh(b, "queued")
  <1>2. /\ l \in Letter(Bodies)
        /\ l.body = b /\ l.at = "queued" /\ l.acked = FALSE
        /\ l.outcome = None /\ l.answer = None /\ l.done = 0
    BY GatewayAssumption DEF GatewayAssumption, Fresh, Letter
  <1>4. mail' = [mail EXCEPT ![<<q, use>>] = l]
    BY DEF Sent
  <1> HIDE DEF l
  <1>5. mail' \in [Messages -> Letter(Bodies)] /\ mail'[<<q, use>>] = l
        /\ \A m \in Messages : m # <<q, use>> => mail'[m] = mail[m]
    BY <1>1, <1>2, <1>4 DEF GatewayTypeOK
  <1>6. ASSUME NEW u \in Uses, u # use  PROVE mail'[<<q, u>>] = mail[<<q, u>>]
    BY <1>5, <1>6, MessageParts
  <1> QED  BY <1>2, <1>5, <1>6

-----------------------------------------------------------------------------
(* How letters move.                                                       *)

(* A letter but for the bound on its successes.                            *)
LooseLetter ==
  [body: Bodies \cup {None},
   at: {"unsent", "queued", "running", "stalled", "handled", "answered", "lost"},
   acked: BOOLEAN, outcome: Outcomes \cup {None}, answer: Outcomes \cup {None}, done: Nat]

Becomes(m, at, acked, outcome, answer, done) ==
  /\ mail'[m].body = mail[m].body
  /\ mail'[m].at = at /\ mail'[m].acked = acked /\ mail'[m].outcome = outcome
  /\ mail'[m].answer = answer /\ mail'[m].done = done

Begins(m) ==
  /\ mail[m].at = "queued" /\ ~ Rejected(m)
  /\ Becomes(m, "running", Service(m) = "auth", mail[m].outcome, mail[m].answer, mail[m].done)

IsRejected(m) ==
  /\ mail[m].at = "queued" /\ Rejected(m)
  /\ Becomes(m, "handled", mail[m].acked, "error", mail[m].answer, mail[m].done)

Ends(m) ==
  /\ mail[m].at = "running"
  /\ \/ /\ ~ Rejected(m)
        /\ Becomes(m, "handled", mail[m].acked, "ok", mail[m].answer, mail[m].done + 1)
     \/ Becomes(m, "handled", mail[m].acked, "error", mail[m].answer, mail[m].done)

Answers(m) ==
  /\ mail[m].at = "handled"
  /\ Becomes(m, "answered", mail[m].acked, None,
             IF mail[m].answer = None THEN mail[m].outcome ELSE mail[m].answer, mail[m].done)

Stalls(m) ==
  /\ mail[m].at = "running"
  /\ Becomes(m, "stalled", mail[m].acked, mail[m].outcome, mail[m].answer, mail[m].done)

Bereaved(m) ==
  /\ deaths' = deaths + 1
  /\ AtReplica(m)
  /\ Becomes(m, IF mail[m].acked THEN "lost" ELSE "queued", mail[m].acked, None,
             mail[m].answer, mail[m].done)

Evolves(m) ==
  Begins(m) \/ IsRejected(m) \/ Ends(m) \/ Answers(m) \/ Stalls(m) \/ Bereaved(m)

LettersMove ==
  /\ mail' \in [Messages -> LooseLetter]
  /\ \A m \in Messages : mail'[m] = mail[m] \/ Evolves(m)
  /\ deaths' \in {deaths, deaths + 1} /\ deaths' \in 0 .. MaxDeaths
  /\ tokens \subseteq tokens' /\ tokens' \subseteq Tokens
  /\ request' = request /\ now' = now
  /\ \A m \in Messages : \A n \in Messages :   \* one success at a time
       mail'[m].done # mail[m].done /\ mail'[n].done # mail[n].done => m = n

(* One letter, and nothing else but perhaps the tokens.                    *)
LEMMA OneMoves ==
  ASSUME GatewayTypeOK, NEW m \in Messages, mail' \in [Messages -> LooseLetter],
         \A n \in Messages : n # m => mail'[n] = mail[n],
         Evolves(m), UNCHANGED <<deaths, request, now>>,
         tokens \subseteq tokens', tokens' \subseteq Tokens
  PROVE  LettersMove
  BY GatewayAssumption DEF LettersMove, GatewayTypeOK, GatewayAssumption

LEMMA Loose ==
  ASSUME GatewayTypeOK
  PROVE  \A m \in Messages : mail[m] \in LooseLetter
  BY GatewayAssumption DEF GatewayTypeOK, GatewayAssumption, Letter, LooseLetter

LEMMA Updated ==
  ASSUME GatewayTypeOK, NEW m \in Messages, NEW l \in LooseLetter, mail' = [mail EXCEPT ![m] = l]
  PROVE  /\ mail' \in [Messages -> LooseLetter] /\ mail'[m] = l
         /\ \A n \in Messages : n # m => mail'[n] = mail[n]
  <1>1. mail \in [Messages -> LooseLetter]
    BY Loose DEF GatewayTypeOK
  <1> QED  BY <1>1

LEMMA HandledMoves ==
  ASSUME GatewayTypeOK, NEW m \in Messages, NEW outcome \in Outcomes, Handled(m, outcome)
  PROVE  /\ mail' \in [Messages -> LooseLetter]
         /\ \A n \in Messages : n # m => mail'[n] = mail[n]
         /\ mail[m].at = "running" /\ deaths' = deaths
         /\ Becomes(m, "handled", mail[m].acked, outcome, mail[m].answer,
                    IF outcome = "ok" THEN mail[m].done + 1 ELSE mail[m].done)
  <1> DEFINE n == IF outcome = "ok" THEN mail[m].done + 1 ELSE mail[m].done
  <1> DEFINE l == [mail[m] EXCEPT !.at = "handled", !.outcome = outcome, !.done = n]
  <1>1. mail[m] \in LooseLetter
    BY Loose
  <1>2. n \in Nat
    BY <1>1 DEF LooseLetter
  <1>3. mail' = [mail EXCEPT ![m] = l]
    BY DEF Handled, GatewayTypeOK
  <1> HIDE DEF n
  <1>4. /\ l \in LooseLetter /\ l.body = mail[m].body /\ l.at = "handled"
        /\ l.acked = mail[m].acked /\ l.outcome = outcome
        /\ l.answer = mail[m].answer /\ l.done = n
    BY <1>1, <1>2 DEF LooseLetter
  <1> HIDE DEF l
  <1> QED  BY <1>3, <1>4, Updated DEF Handled, Becomes, n

LEMMA TakeMoves ==
  ASSUME GatewayTypeOK, NEW m \in Messages, Take(m)
  PROVE  LettersMove
  <1>1. CASE Rejected(m)
    <2>1. Reject(m)
      BY <1>1 DEF Take, Rejected
    <2> DEFINE l == [mail[m] EXCEPT !.at = "handled", !.outcome = "error"]
    <2>2. mail' = [mail EXCEPT ![m] = l]
      BY <2>1 DEF Reject, GatewayTypeOK
    <2>3. /\ l \in LooseLetter /\ l.body = mail[m].body /\ l.at = "handled"
          /\ l.acked = mail[m].acked /\ l.outcome = "error"
          /\ l.answer = mail[m].answer /\ l.done = mail[m].done
      BY Loose DEF LooseLetter, Outcomes
    <2> HIDE DEF l
    <2>4. IsRejected(m)
      BY <1>1, <2>1, <2>2, <2>3, Updated DEF IsRejected, Becomes, Reject
    <2> QED  BY <2>1, <2>2, <2>3, <2>4, Updated, OneMoves DEF Take, Reject, Evolves, GatewayTypeOK
  <1>2. CASE ~ Rejected(m)
    <2>1. Begin(m)
      BY <1>2 DEF Take, Rejected
    <2> DEFINE l == [mail[m] EXCEPT !.at = "running", !.acked = Service(m) = "auth"]
    <2>2. mail' = [mail EXCEPT ![m] = l]
      BY <2>1 DEF Begin, GatewayTypeOK
    <2>3. /\ l \in LooseLetter /\ l.body = mail[m].body /\ l.at = "running"
          /\ l.acked = (Service(m) = "auth") /\ l.outcome = mail[m].outcome
          /\ l.answer = mail[m].answer /\ l.done = mail[m].done
      BY Loose DEF LooseLetter
    <2> HIDE DEF l
    <2>4. Begins(m)
      BY <1>2, <2>1, <2>2, <2>3, Updated DEF Begins, Becomes, Begin
    <2> QED  BY <2>1, <2>2, <2>3, <2>4, Updated, OneMoves DEF Take, Begin, Evolves, GatewayTypeOK
  <1> QED  BY <1>1, <1>2

LEMMA HandlersMove ==
  ASSUME GatewayTypeOK, NEW m \in Messages,
         HandleVerify(m) \/ HandleDecode(m) \/ HandleLogin(m) \/ HandleOther(m)
  PROVE  LettersMove
  <1>1. PICK outcome \in Outcomes :
          /\ Handled(m, outcome)
          /\ outcome = "ok" => ~ Rejected(m)
          /\ tokens \subseteq tokens' /\ tokens' \subseteq Tokens
          /\ UNCHANGED <<request, now>>
    <2>1. CASE HandleVerify(m)
      BY <2>1 DEF HandleVerify, Rejected, GatewayTypeOK, Outcomes
    <2>2. CASE HandleDecode(m)
      BY <2>2 DEF HandleDecode, Rejected, GatewayTypeOK, Outcomes
    <2>3. CASE HandleLogin(m)
      <3>1. now \in Nat /\ Lifetime \in Nat /\ tokens \subseteq Tokens
        BY GatewayAssumption DEF GatewayTypeOK, GatewayAssumption
      <3>2. \A u \in Members : [user |-> u, exp |-> now + Lifetime] \in Tokens
        BY <3>1 DEF Tokens
      <3> QED  BY <2>3, <3>1, <3>2 DEF HandleLogin, Rejected, Outcomes
    <2>4. CASE HandleOther(m)
      BY <2>4 DEF HandleOther, Rejected, GatewayTypeOK
    <2> QED  BY <2>1, <2>2, <2>3, <2>4
  <1>2. Ends(m)
    BY <1>1, HandledMoves DEF Ends, Outcomes
  <1> QED  BY <1>1, <1>2, HandledMoves, OneMoves DEF Evolves

LEMMA RespondMoves ==
  ASSUME GatewayTypeOK, NEW m \in Messages, Respond(m), UNCHANGED <<request, tokens, now>>
  PROVE  LettersMove
  <1> DEFINE a == IF mail[m].answer = None THEN mail[m].outcome ELSE mail[m].answer
  <1> DEFINE l == [mail[m] EXCEPT !.at = "answered", !.outcome = None, !.answer = a]
  <1>1. a \in Outcomes \cup {None}
    BY Loose DEF LooseLetter
  <1>2. mail' = [mail EXCEPT ![m] = l]
    BY DEF Respond, GatewayTypeOK
  <1> HIDE DEF a
  <1>3. /\ l \in LooseLetter /\ l.body = mail[m].body /\ l.at = "answered"
        /\ l.acked = mail[m].acked /\ l.outcome = None
        /\ l.answer = a /\ l.done = mail[m].done
    BY <1>1, Loose DEF LooseLetter
  <1> HIDE DEF l
  <1>4. Answers(m)
    BY <1>2, <1>3, Updated DEF Answers, Becomes, Respond, a
  <1> QED  BY <1>2, <1>3, <1>4, Updated, OneMoves DEF Respond, Evolves, GatewayTypeOK

LEMMA StallMoves ==
  ASSUME GatewayTypeOK, NEW m \in Messages, Stall(m), UNCHANGED <<request, tokens, now>>
  PROVE  LettersMove
  <1> DEFINE l == [mail[m] EXCEPT !.at = "stalled"]
  <1>1. mail' = [mail EXCEPT ![m] = l]
    BY DEF Stall, GatewayTypeOK
  <1>2. /\ l \in LooseLetter /\ l.body = mail[m].body /\ l.at = "stalled"
        /\ l.acked = mail[m].acked /\ l.outcome = mail[m].outcome
        /\ l.answer = mail[m].answer /\ l.done = mail[m].done
    BY Loose DEF LooseLetter
  <1> HIDE DEF l
  <1>3. Stalls(m)
    BY <1>1, <1>2, Updated DEF Stalls, Becomes, Stall
  <1> QED  BY <1>1, <1>2, <1>3, Updated, OneMoves DEF Stall, Evolves, GatewayTypeOK

LEMMA DieMoves ==
  ASSUME GatewayTypeOK, NEW S \in SUBSET {m \in Messages : AtReplica(m)}, Die(S),
         UNCHANGED <<request, tokens, now>>
  PROVE  LettersMove
  <1>1. ASSUME NEW m \in Messages
        PROVE  mail'[m] \in LooseLetter /\ (mail'[m] = mail[m] \/ Bereaved(m))
    <2>1. mail[m] \in Letter(Bodies)
      BY DEF GatewayTypeOK
    <2>2. CASE m \notin S
      BY <2>1, <2>2, GatewayAssumption DEF Die, Letter, LooseLetter, GatewayAssumption
    <2>3. CASE m \in S
      <3>1. mail'[m] = Bereft(mail[m]) /\ AtReplica(m) /\ deaths' = deaths + 1
        BY <2>3 DEF Die
      <3>2. mail[m] \in LooseLetter
        BY Loose
      <3>3. CASE mail[m].acked
        <4> DEFINE l == [mail[m] EXCEPT !.at = "lost", !.outcome = None]
        <4>1. mail'[m] = l
          BY <3>1, <3>3 DEF Bereft
        <4>2. /\ l \in LooseLetter /\ l.body = mail[m].body /\ l.at = "lost"
              /\ l.acked = mail[m].acked /\ l.outcome = None
              /\ l.answer = mail[m].answer /\ l.done = mail[m].done
          BY <3>2 DEF LooseLetter
        <4> HIDE DEF l
        <4> QED  BY <3>1, <3>3, <4>1, <4>2 DEF Bereaved, Becomes
      <3>4. CASE ~ mail[m].acked
        <4> DEFINE l == [mail[m] EXCEPT !.at = "queued", !.outcome = None]
        <4>1. mail'[m] = l
          BY <3>1, <3>4 DEF Bereft
        <4>2. /\ l \in LooseLetter /\ l.body = mail[m].body /\ l.at = "queued"
              /\ l.acked = mail[m].acked /\ l.outcome = None
              /\ l.answer = mail[m].answer /\ l.done = mail[m].done
          BY <3>2 DEF LooseLetter
        <4> HIDE DEF l
        <4> QED  BY <3>1, <3>4, <4>1, <4>2 DEF Bereaved, Becomes
      <3> QED  BY <3>3, <3>4
    <2> QED  BY <2>2, <2>3
  <1>2. mail' \in [Messages -> LooseLetter]
    BY <1>1 DEF Die
  <1>3. deaths' = deaths + 1 /\ deaths' \in 0 .. MaxDeaths
    BY GatewayAssumption DEF Die, GatewayTypeOK, GatewayAssumption
  <1>4. \A m \in Messages : mail'[m].done = mail[m].done
    BY <1>1 DEF Bereaved, Becomes
  <1> QED  BY <1>1, <1>2, <1>3, <1>4 DEF LettersMove, Evolves, GatewayTypeOK

-----------------------------------------------------------------------------
(* Letters that move keep the invariant.                                   *)

(* The token of a verify-jwt is one that was signed, or never will be, so  *)
(* what is rejected once is rejected for ever.                             *)
LEMMA RejectedStays ==
  ASSUME GatewayInv, NEW m \in Messages, mail[m].at # "unsent", Rejected(m),
         mail'[m].body = mail[m].body, tokens' \subseteq Tokens, now' \in Nat, now <= now'
  PROVE  Rejected(m)'
  <1>1. PICK q \in Requests, use \in Uses : m = <<q, use>>
    BY MessageOf
  <1>2. request[q] \in RequestRecord /\ now \in Nat /\ tokens \subseteq Tokens
    BY DEF GatewayInv, GatewayTypeOK
  <1>3. BodyInv(q) /\ SessionInv(q) /\ PhaseInv(q)
    BY DEF GatewayInv, RequestInv
  <1>4. use = "verify"
    <2>1. use # "decode"
      BY <1>1, <1>3 DEF BodyInv, Unsent, Rejected, Cmd, Decoding
    <2>2. ASSUME use \in Attempts  PROVE FALSE
      <3>1. mail[m].body = Command(q) /\ request[q].pc # "idle"
        BY <1>1, <1>3, <2>2 DEF BodyInv, PhaseInv, Unsent, Attempts
      <3>2. request[q].route \in AllRoutes
        BY <1>2, <1>3, <3>1 DEF PhaseInv, RequestRecord, AllRoutes
      <3> QED  BY <3>1, <3>2, RouteFields DEF Rejected, Cmd, Command
    <2> QED  BY <2>1, <2>2 DEF Uses, Attempts
  <1> DEFINE t == mail[m].body.data
  <1>5. t \in tokens \cup {Garbled, None}
    BY <1>1, <1>3, <1>4 DEF BodyInv, Unsent, Verification, SessionInv
  <1>6. t \in tokens' => t \in tokens /\ t.exp \in Nat
    BY <1>2, <1>5, GatewayAssumption DEF GatewayAssumption, Tokens
  <1> QED  BY <1>2, <1>6 DEF Rejected, Cmd, Valid

LEMMA LettersKeepLetterInv ==
  ASSUME GatewayInv, LettersMove, NEW m \in Messages
  PROVE  LetterInv(m)'
  <1>1. LetterInv(m) /\ mail[m] \in LooseLetter /\ deaths \in Nat /\ deaths' \in {deaths, deaths + 1}
    BY Loose, GatewayAssumption DEF GatewayInv, GatewayTypeOK, LettersMove, GatewayAssumption
  <1>2. CASE mail'[m] = mail[m]
    BY <1>1, <1>2 DEF LetterInv, LooseLetter
  <1>3. CASE Begins(m)
    BY <1>1, <1>3 DEF LetterInv, LooseLetter, Begins, Becomes
  <1>4. CASE IsRejected(m)
    BY <1>1, <1>4 DEF LetterInv, LooseLetter, IsRejected, Becomes
  <1>5. CASE Ends(m)
    BY <1>1, <1>5 DEF LetterInv, LooseLetter, Ends, Becomes
  <1>6. CASE Answers(m)
    BY <1>1, <1>6, GatewayAssumption
    DEF LetterInv, LooseLetter, Answers, Becomes, GatewayAssumption, Outcomes
  <1>7. CASE Stalls(m)
    BY <1>1, <1>7 DEF LetterInv, LooseLetter, Stalls, Becomes
  <1>8. CASE Bereaved(m)
    BY <1>1, <1>8, GatewayAssumption
    DEF LetterInv, LooseLetter, Bereaved, Becomes, AtReplica, GatewayAssumption, Outcomes
  <1> QED  BY <1>2, <1>3, <1>4, <1>5, <1>6, <1>7, <1>8 DEF LettersMove, Evolves

LEMMA LettersKeepAuthLetterInv ==
  ASSUME GatewayInv, LettersMove, NEW m \in Messages
  PROVE  AuthLetterInv(m)'
  <1>1. AuthLetterInv(m) /\ mail[m] \in LooseLetter /\ now \in Nat /\ now' = now
        /\ tokens' \subseteq Tokens /\ LetterInv(m)
    BY Loose DEF GatewayInv, GatewayTypeOK, LettersMove
  <1>2. SUFFICES ASSUME mail'[m].at # "unsent", Service(m)' = "auth"
                 PROVE  AuthLetterInv(m)'
    BY DEF AuthLetterInv
  <1>3. mail[m].at # "unsent" /\ mail'[m].body = mail[m].body /\ Service(m) = "auth"
    BY <1>2 DEF LettersMove, Evolves, Begins, IsRejected, Ends, Answers, Stalls, Bereaved,
                AtReplica, Becomes, Service
  <1>4. Rejected(m) => Rejected(m)'
    BY <1>1, <1>3, RejectedStays
  <1> DEFINE R == Rejected(m)
  <1> DEFINE R2 == Rejected(m)'
  <1>5. /\ mail[m].at = "queued" => ~ mail[m].acked
        /\ ~ mail[m].acked => mail[m].done = 0 /\ mail[m].at \in {"queued", "handled", "answered"}
        /\ ~ mail[m].acked /\ (mail[m].at # "queued" \/ mail[m].answer # None) =>
             R /\ mail[m].answer # "ok" /\ mail[m].outcome # "ok"
        /\ mail[m].acked /\ mail[m].answer # None => mail[m].at = "answered"
        /\ mail[m].at \in {"running", "stalled"} => mail[m].done = 0
        /\ mail[m].at = "handled" /\ mail[m].outcome # "ok" => mail[m].done = 0
        /\ mail[m].answer = "error" => mail[m].done = 0
        /\ mail[m].done <= 1
    BY <1>1, <1>3 DEF AuthLetterInv
  <1>6. SUFFICES
        /\ mail'[m].at = "queued" => ~ mail'[m].acked
        /\ ~ mail'[m].acked => mail'[m].done = 0 /\ mail'[m].at \in {"queued", "handled", "answered"}
        /\ ~ mail'[m].acked /\ (mail'[m].at # "queued" \/ mail'[m].answer # None) =>
             R2 /\ mail'[m].answer # "ok" /\ mail'[m].outcome # "ok"
        /\ mail'[m].acked /\ mail'[m].answer # None => mail'[m].at = "answered"
        /\ mail'[m].at \in {"running", "stalled"} => mail'[m].done = 0
        /\ mail'[m].at = "handled" /\ mail'[m].outcome # "ok" => mail'[m].done = 0
        /\ mail'[m].answer = "error" => mail'[m].done = 0
        /\ mail'[m].done <= 1
    BY DEF AuthLetterInv
  <1>7. None \notin Outcomes /\ mail[m].done \in Nat /\ mail[m].acked \in BOOLEAN
        /\ mail[m].outcome \in Outcomes \cup {None} /\ mail[m].answer \in Outcomes \cup {None}
    BY <1>1, GatewayAssumption DEF GatewayAssumption, LooseLetter
  <1>8. R => R2
    BY <1>4
  <1>9. CASE mail'[m] = mail[m]
    BY <1>5, <1>8, <1>9
  <1>10. CASE Begins(m)
    <2>1. mail[m].at = "queued" /\ ~ R
          /\ Becomes(m, "running", TRUE, mail[m].outcome, mail[m].answer, mail[m].done)
      BY <1>3, <1>10 DEF Begins
    <2> HIDE DEF R, R2
    <2> QED  BY <2>1, <1>5, <1>7 DEF Becomes
  <1>11. CASE IsRejected(m)
    <2>1. mail[m].at = "queued" /\ R
          /\ Becomes(m, "handled", mail[m].acked, "error", mail[m].answer, mail[m].done)
      BY <1>11 DEF IsRejected
    <2> HIDE DEF R, R2
    <2> QED  BY <2>1, <1>5, <1>7, <1>8 DEF Becomes, Outcomes
  <1>12. CASE Ends(m)
    <2>1. mail[m].at = "running"
          /\ (\/ Becomes(m, "handled", mail[m].acked, "ok", mail[m].answer, mail[m].done + 1)
              \/ Becomes(m, "handled", mail[m].acked, "error", mail[m].answer, mail[m].done))
      BY <1>12 DEF Ends
    <2> HIDE DEF R, R2
    <2> QED  BY <2>1, <1>5, <1>7 DEF Becomes, Outcomes
  <1>13. CASE Answers(m)
    <2> HIDE DEF R, R2
    <2> QED  BY <1>13, <1>5, <1>7, <1>8 DEF Answers, Becomes, Outcomes
  <1>14. CASE Stalls(m)
    <2> HIDE DEF R, R2
    <2> QED  BY <1>14, <1>5, <1>7, <1>8 DEF Stalls, Becomes
  <1>15. CASE Bereaved(m)
    <2> HIDE DEF R, R2
    <2> QED  BY <1>15, <1>5, <1>7, <1>8 DEF Bereaved, Becomes, AtReplica, Outcomes
  <1> QED  BY <1>9, <1>10, <1>11, <1>12, <1>13, <1>14, <1>15 DEF LettersMove, Evolves

LEMMA LettersKeepType ==
  ASSUME GatewayInv, LettersMove
  PROVE  GatewayTypeOK'
  <1>1. ASSUME NEW m \in Messages  PROVE mail'[m] \in Letter(Bodies)
    <2>1. mail'[m] \in LooseLetter /\ LetterInv(m)'
      BY LettersKeepLetterInv DEF LettersMove
    <2>2. mail'[m].done \in 0 .. MaxDeaths + 1
      BY <2>1, GatewayAssumption DEF LetterInv, LooseLetter, LettersMove, GatewayAssumption
    <2> QED  BY <2>1, <2>2 DEF LooseLetter, Letter
  <1> QED  BY <1>1 DEF GatewayInv, GatewayTypeOK, LettersMove

LEMMA LettersKeepRequestInv ==
  ASSUME GatewayInv, LettersMove, NEW q \in Requests
  PROVE  RequestInv(q)'
  <1>1. RequestInv(q) /\ request'[q] = request[q] /\ now' = now /\ tokens \subseteq tokens'
        /\ request[q] \in RequestRecord /\ now \in Nat /\ tokens \subseteq Tokens
    BY DEF GatewayInv, GatewayTypeOK, LettersMove
  <1>2. ASSUME NEW use \in Uses
        PROVE  /\ Unsent(q, use)' = Unsent(q, use)
               /\ mail'[<<q, use>>].body = mail[<<q, use>>].body
               /\ mail[<<q, use>>].answer # None =>
                    mail'[<<q, use>>].answer = mail[<<q, use>>].answer
               /\ mail'[<<q, use>>].outcome = "ok" \/ mail'[<<q, use>>].answer = "ok" =>
                    \/ mail[<<q, use>>].outcome = "ok" \/ mail[<<q, use>>].answer = "ok"
                    \/ ~ Rejected(<<q, use>>) /\ ~ Unsent(q, use)
    <2>1. <<q, use>> \in Messages /\ mail[<<q, use>>] \in LooseLetter /\ None \notin Outcomes
      BY MessageParts, Loose, GatewayAssumption DEF GatewayInv, GatewayAssumption
    <2> DEFINE m == <<q, use>>
    <2>2. mail'[m] = mail[m] \/ Evolves(m)
      BY <2>1 DEF LettersMove
    <2> HIDE DEF m
    <2>3. /\ (mail'[m].at = "unsent") = (mail[m].at = "unsent")
          /\ mail'[m].body = mail[m].body
          /\ mail[m].answer # None => mail'[m].answer = mail[m].answer
          /\ mail'[m].outcome = "ok" \/ mail'[m].answer = "ok" =>
               \/ mail[m].outcome = "ok" \/ mail[m].answer = "ok"
               \/ ~ Rejected(m) /\ mail[m].at # "unsent"
      BY <2>1, <2>2 DEF Evolves, Begins, IsRejected, Ends, Answers, Stalls, Bereaved,
                         AtReplica, Becomes, Outcomes
    <2> QED  BY <2>3 DEF Unsent, m
  <1>3. PhaseInv(q)'
    BY <1>1, <1>2 DEF RequestInv, PhaseInv, Uses, RequestRecord
  <1>4. BodyInv(q)'
    BY <1>1, <1>2 DEF RequestInv, BodyInv, Uses, Attempts, Command
  <1>5. SessionInv(q)'
    <2>1. Live(q) => Live(q)'
      BY <1>1 DEF Live
    <2>2. ASSUME mail'[<<q, "verify">>].outcome = "ok" \/ mail'[<<q, "verify">>].answer = "ok"
          PROVE  Live(q)
      <3>1. CASE mail[<<q, "verify">>].outcome = "ok" \/ mail[<<q, "verify">>].answer = "ok"
        BY <1>1, <3>1 DEF RequestInv, SessionInv
      <3>2. CASE ~ Rejected(<<q, "verify">>) /\ ~ Unsent(q, "verify")
        <4>1. Valid(request[q].token)
          BY <1>1, <3>2 DEF RequestInv, BodyInv, Rejected, Cmd, Verification
        <4>2. request[q].came <= now /\ request[q].came \in Nat
          BY <1>1, GatewayAssumption DEF RequestInv, SessionInv, RequestRecord, GatewayAssumption
        <4> QED  BY <1>1, <4>1, <4>2 DEF Live, Valid, Tokens
      <3> QED  BY <1>2, <2>2, <3>1, <3>2 DEF Uses
    <2> QED  BY <1>1, <2>1, <2>2 DEF RequestInv, SessionInv
  <1>6. VerdictInv(q)'
    BY <1>1, <1>2, GatewayAssumption
    DEF RequestInv, VerdictInv, Failed, Attempts, Uses, GatewayAssumption, Outcomes
  <1> QED  BY <1>3, <1>4, <1>5, <1>6 DEF RequestInv

LEMMA LettersKeepInv ==
  ASSUME GatewayInv, LettersMove
  PROVE  GatewayInv'
  BY LettersKeepType, LettersKeepLetterInv, LettersKeepAuthLetterInv, LettersKeepRequestInv
  DEF GatewayInv, Messages

-----------------------------------------------------------------------------
(* Requests' steps keep the invariant.                                     *)

(* A step of the request q: nothing else moves, but q may send a letter.   *)
RequestMoves(q) ==
  /\ request' \in [Requests -> RequestRecord]
  /\ \A p \in Requests : p # q => request'[p] = request[p]
  /\ \/ mail' = mail
     \/ \E use \in Uses, b \in Bodies : Unsent(q, use) /\ Sent(<<q, use>>, b)
  /\ UNCHANGED <<deaths, tokens, now>>

LEMMA RequestKeepsLetters ==
  ASSUME GatewayInv, NEW q \in Requests, RequestMoves(q), NEW m \in Messages
  PROVE  /\ mail' \in [Messages -> Letter(Bodies)]
         /\ mail'[m] = mail[m] \/ (mail[m].at = "unsent" /\ mail[m].answer = None)
         /\ mail'[m].done = mail[m].done
         /\ LetterInv(m)' /\ AuthLetterInv(m)'
  <1>1. CASE mail' = mail
    BY <1>1 DEF GatewayInv, GatewayTypeOK, RequestMoves, LetterInv, AuthLetterInv, Service, Cmd,
                Rejected, Valid
  <1>2. ASSUME NEW use \in Uses, NEW b \in Bodies, Unsent(q, use), Sent(<<q, use>>, b)
        PROVE  /\ mail' \in [Messages -> Letter(Bodies)]
               /\ mail'[m] = mail[m] \/ (mail[m].at = "unsent" /\ mail[m].answer = None)
               /\ mail'[m].done = mail[m].done
               /\ LetterInv(m)' /\ AuthLetterInv(m)'
    <2>1. /\ mail' \in [Messages -> Letter(Bodies)]
          /\ m # <<q, use>> => mail'[m] = mail[m]
          /\ mail'[<<q, use>>].body = b /\ mail'[<<q, use>>].at = "queued"
          /\ mail'[<<q, use>>].acked = FALSE /\ mail'[<<q, use>>].done = 0
          /\ mail'[<<q, use>>].outcome = None /\ mail'[<<q, use>>].answer = None
      BY <1>2, SentLetter DEF GatewayInv
    <2>2. CASE m # <<q, use>>
      BY <2>1, <2>2 DEF GatewayInv, GatewayTypeOK, RequestMoves, LetterInv, AuthLetterInv,
                        Service, Cmd, Rejected, Valid
    <2>3. CASE m = <<q, use>>
      <3>1. mail[m] = Unwritten
        BY <1>2, <2>3 DEF GatewayInv, LetterInv, Unsent
      <3>2. mail[m].at = "unsent" /\ mail[m].answer = None /\ mail[m].done = 0
        BY <3>1 DEF Unwritten, Fresh
      <3>3. deaths' \in Nat
        BY GatewayAssumption DEF GatewayInv, GatewayTypeOK, RequestMoves, GatewayAssumption
      <3>4. LetterInv(m)'
        BY <2>1, <2>3, <3>3, GatewayAssumption DEF LetterInv, GatewayAssumption, Outcomes
      <3>5. AuthLetterInv(m)'
        BY <2>1, <2>3 , GatewayAssumption DEF AuthLetterInv, GatewayAssumption, Outcomes
      <3> QED  BY <2>1, <2>3, <3>2, <3>4, <3>5
    <2> QED  BY <2>2, <2>3
  <1> QED  BY <1>1, <1>2 DEF RequestMoves

LEMMA OthersKeep ==
  ASSUME GatewayInv, NEW q \in Requests, RequestMoves(q), NEW p \in Requests, p # q
  PROVE  RequestInv(p)'
  <1>1. ASSUME NEW u \in Uses  PROVE mail'[<<p, u>>] = mail[<<p, u>>]
    <2>1. ASSUME NEW use \in Uses, NEW b \in Bodies, Sent(<<q, use>>, b)
          PROVE  mail'[<<p, u>>] = mail[<<p, u>>]
      <3>1. <<p, u>> \in Messages /\ <<p, u>> # <<q, use>>
        BY MessageParts
      <3> QED  BY <2>1, <3>1, SentLetter DEF GatewayInv
    <2> QED  BY <2>1 DEF RequestMoves
  <1>2. RequestInv(p) /\ request'[p] = request[p] /\ tokens' = tokens /\ now' = now
    BY DEF GatewayInv, RequestMoves
  <1>3. PhaseInv(p)'
    <2>1. \A u \in Uses : Unsent(p, u)' = Unsent(p, u)
      BY <1>1 DEF Unsent
    <2>2. request[p].attempt \in Uses
      BY DEF GatewayInv, GatewayTypeOK, RequestRecord, Uses
    <2> QED  BY <1>2, <2>1, <2>2 DEF RequestInv, PhaseInv, Uses
  <1>4. BodyInv(p)'
    BY <1>1, <1>2 DEF RequestInv, BodyInv, Unsent, Uses, Attempts, Command
  <1>5. SessionInv(p)'
    BY <1>1, <1>2 DEF RequestInv, SessionInv, Live, Uses
  <1>6. VerdictInv(p)'
    BY <1>1, <1>2 DEF RequestInv, VerdictInv, Failed, Unsent, Uses, Attempts
  <1> QED  BY <1>3, <1>4, <1>5, <1>6 DEF RequestInv

LEMMA ForOne ==
  ASSUME GatewayInv, NEW q \in Requests, RequestMoves(q), RequestInv(q)'
  PROVE  GatewayInv'
  <1>1. GatewayTypeOK'
    <2>1. mail' \in [Messages -> Letter(Bodies)]
      BY RequestKeepsLetters, MessageParts DEF Uses
    <2> QED  BY <2>1 DEF GatewayInv, GatewayTypeOK, RequestMoves
  <1>2. \A m \in Messages : LetterInv(m)' /\ AuthLetterInv(m)'
    BY RequestKeepsLetters
  <1>3. \A p \in Requests : RequestInv(p)'
    BY OthersKeep
  <1> QED  BY <1>1, <1>2, <1>3 DEF GatewayInv, Messages

-----------------------------------------------------------------------------
(* What a step does to its own request.                                    *)

Turns(q, pc, user, attempt, status) ==
  /\ request' \in [Requests -> RequestRecord]
  /\ \A p \in Requests : p # q => request'[p] = request[p]
  /\ request'[q].pc = pc /\ request'[q].user = user
  /\ request'[q].attempt = attempt /\ request'[q].status = status
  /\ request'[q].route = request[q].route /\ request'[q].token = request[q].token
  /\ request'[q].valid = request[q].valid /\ request'[q].came = request[q].came

LEMMA Turned ==
  ASSUME GatewayTypeOK, NEW q \in Requests, NEW r \in RequestRecord,
         request' = [request EXCEPT ![q] = r],
         r.route = request[q].route, r.token = request[q].token,
         r.valid = request[q].valid, r.came = request[q].came
  PROVE  Turns(q, r.pc, r.user, r.attempt, r.status)
  BY DEF Turns, GatewayTypeOK

LEMMA GoesTurns ==
  ASSUME GatewayTypeOK, NEW q \in Requests, NEW pc,
         pc \in {"guard", "verify", "decode", "handle", "wait", "gone"}, Goes(q, pc)
  PROVE  Turns(q, pc, request[q].user, request[q].attempt, request[q].status)
  <1> DEFINE r == [request[q] EXCEPT !.pc = pc]
  <1>1. request' = [request EXCEPT ![q] = r]
    BY DEF Goes, GatewayTypeOK
  <1>2. /\ r \in RequestRecord
        /\ r.pc = pc /\ r.user = request[q].user
        /\ r.attempt = request[q].attempt /\ r.status = request[q].status
        /\ r.route = request[q].route /\ r.token = request[q].token
        /\ r.valid = request[q].valid /\ r.came = request[q].came
    BY DEF GatewayTypeOK, RequestRecord
  <1> HIDE DEF r
  <1>3. Turns(q, r.pc, r.user, r.attempt, r.status)
    BY <1>1, <1>2, Turned
  <1> QED  BY <1>2, <1>3

LEMMA ClosesTurns ==
  ASSUME GatewayTypeOK, NEW q \in Requests, NEW status,
         status \in {"ok", "error", "forbidden", "unauthorized", "bad-request", None},
         Closes(q, status)
  PROVE  Turns(q, "answered", request[q].user, request[q].attempt, status)
  <1> DEFINE r == [request[q] EXCEPT !.pc = "answered", !.status = status]
  <1>1. request' = [request EXCEPT ![q] = r]
    BY DEF Closes, GatewayTypeOK
  <1>2. /\ r \in RequestRecord
        /\ r.pc = "answered" /\ r.user = request[q].user
        /\ r.attempt = request[q].attempt /\ r.status = status
        /\ r.route = request[q].route /\ r.token = request[q].token
        /\ r.valid = request[q].valid /\ r.came = request[q].came
    BY DEF GatewayTypeOK, RequestRecord
  <1> HIDE DEF r
  <1>3. Turns(q, r.pc, r.user, r.attempt, r.status)
    BY <1>1, <1>2, Turned
  <1> QED  BY <1>2, <1>3

LEMMA FailsTurns ==
  ASSUME GatewayTypeOK, NEW q \in Requests, NEW status,
         status \in {"ok", "error", "forbidden", "unauthorized", "bad-request", None},
         Fails(q, status)
  PROVE  \/ /\ request[q].attempt = "first"
            /\ Turns(q, "handle", request[q].user, "second", request[q].status)
         \/ /\ request[q].attempt = "second" \/ ~ request[q].route.guarded
            /\ Turns(q, "answered", request[q].user, request[q].attempt, status)
  <1>1. CASE request[q].route.guarded /\ request[q].attempt = "first"
    <2> DEFINE r == [request[q] EXCEPT !.pc = "handle", !.attempt = "second"]
    <2>1. request' = [request EXCEPT ![q] = r]
      BY <1>1 DEF Fails, GatewayTypeOK
    <2>2. /\ r \in RequestRecord
          /\ r.pc = "handle" /\ r.user = request[q].user
          /\ r.attempt = "second" /\ r.status = request[q].status
          /\ r.route = request[q].route /\ r.token = request[q].token
          /\ r.valid = request[q].valid /\ r.came = request[q].came
      BY DEF GatewayTypeOK, RequestRecord
    <2> HIDE DEF r
    <2>3. Turns(q, r.pc, r.user, r.attempt, r.status)
      BY <2>1, <2>2, Turned
    <2> QED  BY <1>1, <2>2, <2>3
  <1>2. CASE ~ (request[q].route.guarded /\ request[q].attempt = "first")
    <2>1. request[q].attempt \in {"first", "second"}
      BY DEF GatewayTypeOK, RequestRecord
    <2>2. Closes(q, status)
      BY <1>2 DEF Fails
    <2> QED  BY <1>2, <2>1, <2>2, ClosesTurns
  <1> QED  BY <1>1, <1>2

(* Only its own letter may be new, and that one is blank.                  *)
LEMMA OwnLetters ==
  ASSUME GatewayTypeOK, NEW q \in Requests, NEW use \in Uses, NEW b \in Bodies,
         Unsent(q, use), Sent(<<q, use>>, b)
  PROVE  /\ \A u \in Uses : u # use =>
              /\ mail'[<<q, u>>] = mail[<<q, u>>] /\ Unsent(q, u)' = Unsent(q, u)
         /\ ~ Unsent(q, use)' /\ mail'[<<q, use>>].body = b
         /\ mail'[<<q, use>>].outcome = None /\ mail'[<<q, use>>].answer = None
  BY SentLetter DEF Unsent

(* An unsent letter has no answer.                                         *)
LEMMA Blank ==
  ASSUME GatewayInv, NEW q \in Requests, NEW use \in Uses, Unsent(q, use)
  PROVE  mail[<<q, use>>].outcome = None /\ mail[<<q, use>>].answer = None
         /\ mail[<<q, use>>].done = 0
  <1>1. mail[<<q, use>>] = Unwritten
    BY MessageParts DEF GatewayInv, LetterInv, Unsent
  <1> QED  BY <1>1 DEF Unwritten, Fresh

-----------------------------------------------------------------------------
(* The steps of a request, one by one.                                     *)

LEMMA Facts ==
  ASSUME GatewayInv, NEW q \in Requests
  PROVE  /\ GatewayTypeOK /\ PhaseInv(q) /\ BodyInv(q) /\ SessionInv(q) /\ VerdictInv(q)
         /\ request[q] \in RequestRecord /\ tokens \subseteq Tokens /\ now \in 0 .. MaxTime
         /\ None \notin Outcomes /\ None \notin Members /\ None \notin AllRoutes
         /\ None \notin Tokens /\ Garbled \notin Tokens /\ Garbled # None
  BY GatewayAssumption
  DEF GatewayInv, RequestInv, GatewayTypeOK, GatewayAssumption, AllRoutes

LEMMA ArriveKeeps ==
  ASSUME GatewayInv, NEW q \in Requests, Arrive(q)
  PROVE  RequestMoves(q) /\ RequestInv(q)'
  <1>1. PICK r \in Routes[q], t \in tokens \cup {Garbled, None}, v \in BOOLEAN :
          request' = [request EXCEPT ![q] =
            [Unmade EXCEPT !.pc = IF r.guarded THEN "guard" ELSE "handle",
                           !.route = r, !.token = t, !.valid = v, !.came = now]]
    BY DEF Arrive
  <1>2. r \in AllRoutes
    BY GatewayAssumption DEF GatewayAssumption, AllRoutes
  <1> DEFINE pc == IF r.guarded THEN "guard" ELSE "handle"
  <1> DEFINE n == [Unmade EXCEPT !.pc = pc, !.route = r, !.token = t, !.valid = v, !.came = now]
  <1>3. pc \in {"guard", "handle"}
    OBVIOUS
  <1>4. request' = [request EXCEPT ![q] = n]
    BY <1>1
  <1> HIDE DEF pc
  <1>5. /\ n \in RequestRecord /\ n.pc = pc /\ n.route = r /\ n.token = t /\ n.came = now
        /\ n.user = None /\ n.attempt = "first" /\ n.status = None
    BY <1>2, <1>3, Facts DEF Unmade, RequestRecord, AllRoutes
  <1> HIDE DEF n
  <1>6. request'[q] = n /\ RequestMoves(q) /\ mail' = mail /\ tokens' = tokens /\ now' = now
    BY <1>4, <1>5, Facts DEF GatewayTypeOK, RequestMoves, Arrive
  <1>7. \A u \in Uses : Unsent(q, u)' /\ Unsent(q, u)
    BY <1>6, Facts DEF PhaseInv, Unsent, Uses, Arrive
  <1>8. \A u \in Uses : mail'[<<q, u>>].outcome = None /\ mail'[<<q, u>>].answer = None
    BY <1>6, <1>7, Blank
  <1>9. PhaseInv(q)'
    BY <1>2, <1>3, <1>5, <1>6, <1>7, Facts DEF PhaseInv, Uses
  <1>10. BodyInv(q)'
    BY <1>7 DEF BodyInv, Uses, Attempts
  <1>11. SessionInv(q)'
    BY <1>3, <1>5, <1>6, <1>8, Facts DEF SessionInv, Uses, Outcomes
  <1>12. VerdictInv(q)'
    BY <1>3, <1>5, <1>6, <1>7 DEF VerdictInv, Uses
  <1> QED  BY <1>6, <1>9, <1>10, <1>11, <1>12 DEF RequestInv

LEMMA GuardKeeps ==
  ASSUME GatewayInv, NEW q \in Requests, Guard(q)
  PROVE  RequestMoves(q) /\ RequestInv(q)'
  <1>1. tokens' = tokens /\ now' = now /\ deaths' = deaths /\ request[q].pc = "guard"
    BY DEF Guard
  <1>2. CASE request[q].token = None
    <2>1. Closes(q, "forbidden") /\ mail' = mail
      BY <1>2 DEF Guard
    <2>2. Turns(q, "answered", request[q].user, request[q].attempt, "forbidden")
      BY <2>1, ClosesTurns, Facts
    <2>3. \A u \in Uses : Unsent(q, u)' = Unsent(q, u)
      BY <2>1 DEF Unsent
    <2>4. RequestMoves(q)
      BY <1>1, <2>1, <2>2 DEF RequestMoves, Turns
    <2>5. PhaseInv(q)'
      BY <1>1, <2>2, <2>3, Facts DEF PhaseInv, Turns, Uses
    <2>6. BodyInv(q)'
      BY <1>1, <2>1, <2>2, <2>3, Facts DEF BodyInv, Turns, Uses, Attempts, Command
    <2>7. SessionInv(q)'
      BY <1>1, <2>1, <2>2, Facts DEF SessionInv, Turns, Live
    <2>8. VerdictInv(q)'
      BY <1>1, <2>1, <2>2, <2>3, Facts DEF VerdictInv, PhaseInv, Turns, Uses, Attempts, Outcomes
    <2> QED  BY <2>4, <2>5, <2>6, <2>7, <2>8 DEF RequestInv
  <1>3. CASE request[q].token # None
    <2> DEFINE b == Verification(request[q].token)
    <2>1. Goes(q, "verify") /\ Sent(<<q, "verify">>, b)
      BY <1>3 DEF Guard
    <2>2. Turns(q, "verify", request[q].user, request[q].attempt, request[q].status)
      BY <2>1, GoesTurns, Facts
    <2>3. b \in Bodies
      BY Facts DEF RequestRecord, Verification, Bodies, Services, Commands
    <2>4. Unsent(q, "verify")
      BY <1>1, Facts DEF PhaseInv
    <2> HIDE DEF b
    <2>5. /\ \A u \in Uses : u # "verify" =>
               /\ mail'[<<q, u>>] = mail[<<q, u>>] /\ Unsent(q, u)' = Unsent(q, u)
          /\ ~ Unsent(q, "verify")' /\ mail'[<<q, "verify">>].body = b
          /\ mail'[<<q, "verify">>].outcome = None /\ mail'[<<q, "verify">>].answer = None
      BY <2>1, <2>3, <2>4, OwnLetters, Facts DEF Uses
    <2>6. RequestMoves(q)
      BY <1>1, <2>1, <2>2, <2>3, <2>4 DEF RequestMoves, Turns, Uses
    <2>7. PhaseInv(q)'
      BY <1>1, <2>2, <2>5, Facts DEF PhaseInv, Turns, Uses
    <2>8. BodyInv(q)'
      BY <1>1, <2>2, <2>5, Facts DEF BodyInv, Turns, Uses, Attempts, Command, b, PhaseInv
    <2>9. SessionInv(q)'
      BY <1>1, <1>3, <2>2, <2>5, Facts DEF SessionInv, Turns, Live, Outcomes
    <2>10. VerdictInv(q)'
      BY <1>1, <2>2, <2>5, Facts DEF VerdictInv, PhaseInv, Turns, Uses
    <2> QED  BY <2>6, <2>7, <2>8, <2>9, <2>10 DEF RequestInv
  <1> QED  BY <1>2, <1>3

LEMMA HearDecodeKeeps ==
  ASSUME GatewayInv, NEW q \in Requests, HearDecode(q)
  PROVE  RequestMoves(q) /\ RequestInv(q)' /\ Turns(q, "handle", request'[q].user, "first", request[q].status)
  <1>1. /\ tokens' = tokens /\ now' = now /\ deaths' = deaths /\ mail' = mail
        /\ request[q].pc = "decode"
    BY DEF HearDecode
  <1>2. Live(q) /\ request[q].token \in Tokens /\ request[q].token # Garbled
    BY <1>1, Facts DEF SessionInv, Live
  <1>3. request[q].token.user \in Members
    BY <1>2 DEF Tokens
  <1> DEFINE r == [request[q] EXCEPT !.pc = "handle", !.user = request[q].token.user,
                                     !.attempt = "first"]
  <1>4. request' = [request EXCEPT ![q] = r]
    BY <1>2, Facts DEF HearDecode, GatewayTypeOK
  <1>5. /\ r \in RequestRecord
        /\ r.pc = "handle" /\ r.user = request[q].token.user
        /\ r.attempt = "first" /\ r.status = request[q].status
        /\ r.route = request[q].route /\ r.token = request[q].token
        /\ r.valid = request[q].valid /\ r.came = request[q].came
    BY <1>3, Facts DEF RequestRecord
  <1> HIDE DEF r
  <1>6. Turns(q, r.pc, r.user, r.attempt, r.status)
    BY <1>4, <1>5, Turned, Facts
  <1>7. Turns(q, "handle", request[q].token.user, "first", request[q].status)
    BY <1>5, <1>6
  <1>8. \A u \in Uses : Unsent(q, u)' = Unsent(q, u)
    BY <1>1 DEF Unsent
  <1>9. RequestMoves(q)
    BY <1>1, <1>7 DEF RequestMoves, Turns
  <1>10. PhaseInv(q)'
    BY <1>1, <1>7, <1>8, Facts DEF PhaseInv, Turns, Uses
  <1>11. BodyInv(q)'
    BY <1>1, <1>7, <1>8, Facts DEF BodyInv, PhaseInv, Turns, Uses, Attempts
  <1>12. SessionInv(q)'
    BY <1>1, <1>2, <1>7, Facts DEF SessionInv, Turns, Live
  <1>13. VerdictInv(q)'
    BY <1>1, <1>7, <1>8, Facts DEF VerdictInv, PhaseInv, Turns, Uses
  <1>14. Turns(q, "handle", request'[q].user, "first", request[q].status)
    BY <1>7 DEF Turns
  <1> QED  BY <1>9, <1>10, <1>11, <1>12, <1>13, <1>14 DEF RequestInv

LEMMA HearVerifyKeeps ==
  ASSUME GatewayInv, NEW q \in Requests, HearVerify(q)
  PROVE  RequestMoves(q) /\ RequestInv(q)'
  <1>1. tokens' = tokens /\ now' = now /\ deaths' = deaths /\ request[q].pc = "verify"
    BY DEF HearVerify
  <1>2. ASSUME NEW status \in {"unauthorized", "forbidden"}, Closes(q, status), mail' = mail
        PROVE  RequestMoves(q) /\ RequestInv(q)'
    <2>2. Turns(q, "answered", request[q].user, request[q].attempt, status)
      BY <1>2, ClosesTurns, Facts
    <2>3. \A u \in Uses : Unsent(q, u)' = Unsent(q, u)
      BY <1>2 DEF Unsent
    <2>4. RequestMoves(q)
      BY <1>1, <1>2, <2>2 DEF RequestMoves, Turns
    <2>5. PhaseInv(q)'
      BY <1>1, <2>2, <2>3, Facts DEF PhaseInv, Turns, Uses
    <2>6. BodyInv(q)'
      BY <1>1, <1>2, <2>2, <2>3, Facts DEF BodyInv, Turns, Uses, Attempts, Command
    <2>7. SessionInv(q)'
      BY <1>1, <1>2, <2>2, Facts DEF SessionInv, Turns, Live
    <2>8. VerdictInv(q)'
      BY <1>1, <1>2, <2>2, <2>3, Facts
      DEF VerdictInv, PhaseInv, Turns, Uses, Attempts, Outcomes
    <2> QED  BY <2>4, <2>5, <2>6, <2>7, <2>8 DEF RequestInv
  <1>3. CASE AnswerOf(q, "verify") = "ok" /\ now < request[q].token.exp
    <2> DEFINE b == Decoding(request[q].token)
    <2>1. Goes(q, "decode") /\ Sent(<<q, "decode">>, b)
      BY <1>3 DEF HearVerify
    <2>2. Turns(q, "decode", request[q].user, request[q].attempt, request[q].status)
      BY <2>1, GoesTurns, Facts
    <2>3. b \in Bodies
      BY <1>1, Facts DEF SessionInv, RequestRecord, Decoding, Bodies, Services, Commands
    <2>4. Unsent(q, "decode")
      BY <1>1, Facts DEF PhaseInv
    <2> HIDE DEF b
    <2>5. /\ \A u \in Uses : u # "decode" =>
               /\ mail'[<<q, u>>] = mail[<<q, u>>] /\ Unsent(q, u)' = Unsent(q, u)
          /\ ~ Unsent(q, "decode")' /\ mail'[<<q, "decode">>].body = b
          /\ mail'[<<q, "decode">>].outcome = None /\ mail'[<<q, "decode">>].answer = None
      BY <2>1, <2>3, <2>4, OwnLetters, Facts DEF Uses
    <2>6. RequestMoves(q)
      BY <1>1, <2>1, <2>2, <2>3, <2>4 DEF RequestMoves, Turns, Uses
    <2>7. PhaseInv(q)'
      BY <1>1, <2>2, <2>5, Facts DEF PhaseInv, Turns, Uses
    <2>8. BodyInv(q)'
      BY <1>1, <2>2, <2>5, Facts DEF BodyInv, Turns, Uses, Attempts, Command, b, PhaseInv
    <2>9. Live(q)
      BY <1>3, Facts DEF SessionInv, AnswerOf
    <2>10. SessionInv(q)'
      BY <1>1, <2>2, <2>5, <2>9, Facts DEF SessionInv, Turns, Live, Uses
    <2>11. VerdictInv(q)'
      BY <1>1, <2>2, <2>5, Facts DEF VerdictInv, PhaseInv, Turns, Uses
    <2> QED  BY <2>6, <2>7, <2>8, <2>10, <2>11 DEF RequestInv
  <1> QED  BY <1>2, <1>3 DEF HearVerify

(* The error of a command, or of the pipe or the controller, that comes    *)
(* when the request is in handle or wait and this attempt has failed.      *)
LEMMA FailsKeeps ==
  ASSUME GatewayInv, NEW q \in Requests, mail' = mail, UNCHANGED <<deaths, tokens, now>>,
         request[q].pc \in {"handle", "wait"}, Failed(q, request[q].attempt),
         NEW status, status \in {"error", "unauthorized", "bad-request", None},
         status # "error" => Unsent(q, "first") /\ Unsent(q, "second"),
         Fails(q, status)
  PROVE  RequestMoves(q) /\ RequestInv(q)'
  <1>1. \A u \in Uses : Unsent(q, u)' = Unsent(q, u)
    BY DEF Unsent
  <1>2. request[q].attempt \in Attempts
    BY Facts DEF RequestRecord, Attempts
  <1>3. CASE /\ request[q].attempt = "first"
             /\ Turns(q, "handle", request[q].user, "second", request[q].status)
    <2>1. RequestMoves(q)
      BY <1>3 DEF RequestMoves, Turns
    <2>2. PhaseInv(q)'
      BY <1>1, <1>3, Facts DEF PhaseInv, Turns, Uses
    <2>3. BodyInv(q)'
      BY <1>1, <1>3, Facts DEF BodyInv, Turns, Uses, Attempts, Command
    <2>4. SessionInv(q)'
      BY <1>3, Facts DEF SessionInv, Turns, Live
    <2>5. VerdictInv(q)'
      BY <1>1, <1>3, Facts DEF VerdictInv, Failed, Turns, Uses
    <2> QED  BY <2>1, <2>2, <2>3, <2>4, <2>5 DEF RequestInv
  <1>4. CASE /\ request[q].attempt = "second" \/ ~ request[q].route.guarded
             /\ Turns(q, "answered", request[q].user, request[q].attempt, status)
    <2>1. RequestMoves(q)
      BY <1>4 DEF RequestMoves, Turns
    <2>2. PhaseInv(q)'
      BY <1>1, <1>4, Facts DEF PhaseInv, Turns, Uses
    <2>3. BodyInv(q)'
      BY <1>1, <1>4, Facts DEF BodyInv, Turns, Uses, Attempts, Command
    <2>4. SessionInv(q)'
      BY <1>4, Facts DEF SessionInv, Turns, Live
    <2>5. Failed(q, "first") /\ Failed(q, "second")
      BY <1>2, Facts DEF VerdictInv, PhaseInv, Failed, Attempts
    <2>6. \A use \in Attempts : Unsent(q, use) \/ mail[<<q, use>>].answer # None
      BY <2>5, Facts DEF Failed, Attempts, Outcomes
    <2>7. status # "ok" /\ (status \notin Outcomes => Unsent(q, "first") /\ Unsent(q, "second"))
      BY Facts DEF Outcomes
    <2>8. VerdictInv(q)'
      BY <1>1, <1>4, <2>5, <2>6, <2>7, Facts DEF VerdictInv, Failed, Turns, Uses, Attempts
    <2> QED  BY <2>1, <2>2, <2>3, <2>4, <2>8 DEF RequestInv
  <1> QED  BY <1>3, <1>4, FailsTurns, Facts

LEMMA HandleKeeps ==
  ASSUME GatewayInv, NEW q \in Requests, Handle(q)
  PROVE  RequestMoves(q) /\ RequestInv(q)'
  <1>1. tokens' = tokens /\ now' = now /\ deaths' = deaths /\ request[q].pc = "handle"
    BY DEF Handle
  <1>2. request[q].route \in AllRoutes /\ request[q].attempt \in Attempts
    BY <1>1, Facts DEF PhaseInv, RequestRecord, AllRoutes, Attempts
  <1>3. Unsent(q, request[q].attempt)
    BY <1>1, Facts DEF PhaseInv
  <1>4. CASE ~ request[q].valid
    <2>1. Fails(q, "bad-request") /\ mail' = mail
      BY <1>4 DEF Handle
    <2>2. Unsent(q, "first") /\ Unsent(q, "second")
      BY <1>4, Facts DEF BodyInv, Attempts
    <2> QED  BY <1>1, <1>3, <2>1, <2>2, FailsKeeps DEF Failed
  <1>5. CASE request[q].valid /\ request[q].route.guarded /\ request[q].user = None
    <2>1. Fails(q, request[q].route.refusal) /\ mail' = mail
      BY <1>5 DEF Handle
    <2>2. Unsent(q, "first") /\ Unsent(q, "second")
      BY <1>5, Facts DEF BodyInv, Attempts
    <2>3. request[q].route.refusal \in {"bad-request", "unauthorized", None}
      BY <1>2, RouteFields
    <2> QED  BY <1>1, <1>3, <2>1, <2>2, <2>3, FailsKeeps DEF Failed
  <1>6. CASE request[q].valid /\ ~ (request[q].route.guarded /\ request[q].user = None)
    <2>0. PICK a \in Attempts : a = request[q].attempt
      BY <1>2
    <2> DEFINE b == Command(q)
    <2>1. Goes(q, "wait") /\ Sent(<<q, a>>, b)
      BY <1>6, <2>0 DEF Handle
    <2>2. Turns(q, "wait", request[q].user, request[q].attempt, request[q].status)
      BY <2>1, GoesTurns, Facts
    <2>3. b \in Bodies
      BY <1>2, RouteFields, Facts DEF RequestRecord, Command, Bodies
    <2>4. a \in Uses /\ a \in Attempts /\ a # "verify" /\ a # "decode" /\ Unsent(q, a)
      BY <1>3, <2>0 DEF Uses, Attempts
    <2> HIDE DEF b
    <2>5. /\ \A u \in Uses : u # a =>
               /\ mail'[<<q, u>>] = mail[<<q, u>>] /\ Unsent(q, u)' = Unsent(q, u)
          /\ ~ Unsent(q, a)' /\ mail'[<<q, a>>].body = b
          /\ mail'[<<q, a>>].outcome = None /\ mail'[<<q, a>>].answer = None
      BY <2>1, <2>3, <2>4, OwnLetters, Facts
    <2>6. RequestMoves(q)
      BY <1>1, <2>1, <2>2, <2>3, <2>4 DEF RequestMoves, Turns
    <2>7. b = Command(q)' /\ request'[q].attempt = a
      BY <2>0, <2>2 DEF b, Command, Turns
    <2>8. PhaseInv(q)'
      BY <1>1, <2>0, <2>2, <2>4, <2>5, <2>7, Facts DEF PhaseInv, Turns, Uses, Attempts
    <2>9. BodyInv(q)'
      <3>1. Command(q)' = Command(q)
        BY <2>2 DEF Command, Turns
      <3>2. /\ ~ Unsent(q, "verify")' => mail'[<<q, "verify">>].body = Verification(request'[q].token)
            /\ ~ Unsent(q, "decode")' => mail'[<<q, "decode">>].body = Decoding(request'[q].token)
        BY <2>2, <2>4, <2>5, Facts DEF BodyInv, Turns, Uses
      <3>3. ASSUME NEW use \in Attempts, ~ Unsent(q, use)'
            PROVE  mail'[<<q, use>>].body = Command(q)'
        BY <2>5, <2>7, <3>1, <3>3, Facts DEF BodyInv, Uses, Attempts
      <3> QED  BY <1>6, <2>2, <3>2, <3>3 DEF BodyInv, Turns
    <2>10. SessionInv(q)'
      BY <1>1, <2>2, <2>4, <2>5, Facts DEF SessionInv, Turns, Live, Uses
    <2>11. VerdictInv(q)'
      <3>1. a = "second" => Failed(q, "first")
        BY <1>1, <2>0, Facts DEF VerdictInv
      <3>2. a = "first" => Unsent(q, "second")
        BY <1>1, <2>0, Facts DEF PhaseInv
      <3>3. a = "second" => Failed(q, "first")'
        BY <2>5, <3>1 DEF Failed, Uses
      <3>4. a = "first" => Unsent(q, "second")'
        BY <2>5, <3>2 DEF Uses
      <3> QED  BY <2>2, <2>4, <2>7, <3>3, <3>4 DEF VerdictInv, Turns, Attempts
    <2> QED  BY <2>6, <2>8, <2>9, <2>10, <2>11 DEF RequestInv
  <1> QED  BY <1>4, <1>5, <1>6

LEMMA HearCommandKeeps ==
  ASSUME GatewayInv, NEW q \in Requests, HearCommand(q)
  PROVE  RequestMoves(q) /\ RequestInv(q)'
  <1>1. UNCHANGED <<mail, deaths, tokens, now>> /\ request[q].pc = "wait"
    BY DEF HearCommand
  <1>2. CASE AnswerOf(q, request[q].attempt) = "error" /\ Fails(q, "error")
    BY <1>1, <1>2, FailsKeeps DEF AnswerOf, Failed
  <1>3. CASE AnswerOf(q, request[q].attempt) = "ok" /\ Closes(q, "ok")
    <2>1. Turns(q, "answered", request[q].user, request[q].attempt, "ok")
      BY <1>3, ClosesTurns, Facts
    <2>2. \A u \in Uses : Unsent(q, u)' = Unsent(q, u)
      BY <1>1 DEF Unsent
    <2>3. RequestMoves(q)
      BY <1>1, <2>1 DEF RequestMoves, Turns
    <2>4. PhaseInv(q)'
      BY <2>1, <2>2, Facts, <1>1 DEF PhaseInv, Turns, Uses
    <2>5. BodyInv(q)'
      BY <1>1, <2>1, <2>2, Facts DEF BodyInv, Turns, Uses, Attempts, Command
    <2>6. SessionInv(q)'
      BY <1>1, <2>1, Facts DEF SessionInv, Turns, Live
    <2>7. \A use \in Attempts : Unsent(q, use) \/ mail[<<q, use>>].answer # None
      BY <1>1, <1>3, Facts DEF VerdictInv, PhaseInv, Failed, Attempts, Outcomes, AnswerOf,
                                RequestRecord
    <2>8. \E use \in Attempts : mail[<<q, use>>].answer = "ok"
      BY <1>3, Facts DEF RequestRecord, Attempts, AnswerOf
    <2>9. VerdictInv(q)'
      BY <1>1, <2>1, <2>2, <2>7, <2>8, Facts DEF VerdictInv, Failed, Turns, Uses, Attempts, Outcomes
    <2> QED  BY <2>3, <2>4, <2>5, <2>6, <2>9 DEF RequestInv
  <1> QED  BY <1>2, <1>3 DEF HearCommand

LEMMA AbandonKeeps ==
  ASSUME GatewayInv, NEW q \in Requests, Abandon(q)
  PROVE  RequestMoves(q) /\ RequestInv(q)'
  <1>1. UNCHANGED <<mail, deaths, tokens, now>> /\ request[q].pc # "idle"
    BY DEF Abandon
  <1>2. Turns(q, "gone", request[q].user, request[q].attempt, request[q].status)
    BY GoesTurns, Facts DEF Abandon
  <1>3. \A u \in Uses : Unsent(q, u)' = Unsent(q, u)
    BY <1>1 DEF Unsent
  <1>4. RequestMoves(q)
    BY <1>1, <1>2 DEF RequestMoves, Turns
  <1>5. PhaseInv(q)'
    BY <1>1, <1>2, <1>3, Facts DEF PhaseInv, Turns, Uses
  <1>6. BodyInv(q)'
    BY <1>1, <1>2, <1>3, Facts DEF BodyInv, Turns, Uses, Attempts, Command
  <1>7. SessionInv(q)'
    BY <1>1, <1>2, Facts DEF SessionInv, Turns, Live
  <1>8. VerdictInv(q)'
    BY <1>1, <1>2, <1>3, Facts DEF VerdictInv, Failed, Turns, Uses
  <1> QED  BY <1>4, <1>5, <1>6, <1>7, <1>8 DEF RequestInv

LEMMA TickKeeps ==
  ASSUME GatewayInv, Tick
  PROVE  GatewayInv'
  <1>1. /\ UNCHANGED <<mail, deaths, request, tokens>> /\ now' = now + 1 /\ now' \in 0 .. MaxTime
        /\ now \in 0 .. MaxTime
    BY GatewayAssumption DEF Tick, GatewayInv, GatewayTypeOK, GatewayAssumption
  <1>2. GatewayTypeOK'
    BY <1>1 DEF GatewayInv, GatewayTypeOK
  <1>3. ASSUME NEW m \in Messages  PROVE LetterInv(m)' /\ AuthLetterInv(m)'
    <2>1. LetterInv(m) /\ AuthLetterInv(m)
      BY DEF GatewayInv
    <2>2. LetterInv(m)'
      BY <1>1, <2>1 DEF LetterInv
    <2>3. mail[m].at # "unsent" /\ Rejected(m) => Rejected(m)'
      BY <1>1, RejectedStays DEF GatewayInv, GatewayTypeOK
    <2>4. AuthLetterInv(m)'
      BY <1>1, <2>1, <2>3 DEF AuthLetterInv, Service
    <2> QED  BY <2>2, <2>4
  <1>4. ASSUME NEW q \in Requests  PROVE RequestInv(q)'
    <2>1. RequestInv(q) /\ request[q] \in RequestRecord
      BY DEF GatewayInv, GatewayTypeOK
    <2>2. PhaseInv(q)' /\ BodyInv(q)' /\ VerdictInv(q)'
      BY <1>1, <2>1
      DEF RequestInv, PhaseInv, BodyInv, VerdictInv, Unsent, Failed, Command
    <2>3. SessionInv(q)'
      BY <1>1, <2>1 DEF RequestInv, SessionInv, Live, RequestRecord
    <2> QED  BY <2>2, <2>3 DEF RequestInv
  <1> QED  BY <1>2, <1>3, <1>4 DEF GatewayInv, Messages

-----------------------------------------------------------------------------
(* Every step.                                                             *)

(* A step is one of a request, or moves letters, or only the clock.        *)
RequestActs(q) ==
  Arrive(q) \/ Guard(q) \/ HearVerify(q) \/ HearDecode(q) \/ Handle(q) \/ HearCommand(q)
    \/ Abandon(q)

LEMMA RequestActsKeep ==
  ASSUME GatewayInv, NEW q \in Requests, RequestActs(q)
  PROVE  RequestMoves(q) /\ GatewayInv'
  <1>1. RequestMoves(q) /\ RequestInv(q)'
    BY ArriveKeeps, GuardKeeps, HearVerifyKeeps, HearDecodeKeeps, HandleKeeps, HearCommandKeeps,
       AbandonKeeps DEF RequestActs
  <1> QED  BY <1>1, ForOne

LEMMA EveryStep ==
  ASSUME GatewayTypeOK, GatewayNext
  PROVE  (\E q \in Requests : RequestActs(q)) \/ LettersMove \/ Tick
  <1>1. ASSUME NEW q \in Requests, CommandStep(q)
        PROVE  LettersMove
    <2>1. PICK m \in Messages : ServiceStep(m)
      BY <1>1 DEF CommandStep
    <2> QED  BY <2>1, TakeMoves, HandlersMove, RespondMoves DEF ServiceStep
  <1>2. ASSUME Misfortune  PROVE LettersMove
    <2>1. UNCHANGED <<request, tokens, now>>
      BY <1>2 DEF Misfortune
    <2>2. CASE \E m \in Messages : Stall(m)
      BY <2>1, <2>2, StallMoves
    <2>3. CASE \E S \in (SUBSET {m \in Messages : AtReplica(m)}) \ {{}} : Die(S)
      BY <2>1, <2>3, DieMoves
    <2> QED  BY <1>2, <2>2, <2>3 DEF Misfortune
  <1> QED  BY <1>1, <1>2 DEF GatewayNext, RequestStep, RequestActs

LEMMA InitHasInv ==
  ASSUME GatewayInit
  PROVE  GatewayInv
  <1>1. /\ mail = [m \in Messages |-> Unwritten] /\ deaths = 0 /\ tokens = Issued /\ now = 0
        /\ request = [q \in Requests |-> Unmade]
    BY DEF GatewayInit, DeliveryInit
  <1>2. /\ Unwritten \in Letter(Bodies) /\ Unwritten.at = "unsent" /\ Unwritten.done = 0
        /\ Unwritten.outcome = None /\ Unwritten.answer = None
    BY GatewayAssumption DEF GatewayAssumption, Unwritten, Fresh, Letter
  <1>3. /\ Unmade \in RequestRecord /\ Unmade.pc = "idle" /\ Unmade.token = None
        /\ Unmade.came = 0 /\ Unmade.user = None /\ Unmade.attempt = "first"
    BY GatewayAssumption DEF GatewayAssumption, Unmade, RequestRecord
  <1>4. GatewayTypeOK
    BY <1>1, <1>2, <1>3, GatewayAssumption DEF GatewayAssumption, GatewayTypeOK
  <1>5. ASSUME NEW m \in Messages  PROVE LetterInv(m) /\ AuthLetterInv(m)
    <2>1. mail[m] = Unwritten
      BY <1>1
    <2> QED  BY <1>1, <1>2, <2>1, GatewayAssumption
             DEF GatewayAssumption, LetterInv, AuthLetterInv, Outcomes
  <1>6. ASSUME NEW q \in Requests  PROVE RequestInv(q)
    <2>1. request[q] = Unmade
      BY <1>1
    <2>2. \A u \in Uses : Unsent(q, u) /\ mail[<<q, u>>] = Unwritten
      BY <1>1, <1>2, MessageParts DEF Unsent
    <2>3. PhaseInv(q)
      BY <1>3, <2>1, <2>2 DEF PhaseInv, Uses
    <2>4. BodyInv(q)
      BY <2>2 DEF BodyInv, Uses, Attempts
    <2>5. SessionInv(q)
      BY <1>1, <1>2, <1>3, <2>1, <2>2, GatewayAssumption
      DEF SessionInv, Uses, GatewayAssumption, Outcomes
    <2>6. VerdictInv(q)
      BY <1>3, <2>1, <2>2 DEF VerdictInv, Uses
    <2> QED  BY <2>3, <2>4, <2>5, <2>6 DEF RequestInv
  <1> QED  BY <1>4, <1>5, <1>6 DEF GatewayInv, Messages

LEMMA StepKeepsInv ==
  ASSUME GatewayInv, [GatewayNext]_gatewayVars
  PROVE  GatewayInv'
  <1>1. CASE GatewayNext
    <2>1. (\E q \in Requests : RequestActs(q)) \/ LettersMove \/ Tick
      BY <1>1, EveryStep DEF GatewayInv
    <2> QED  BY <2>1, RequestActsKeep, LettersKeepInv, TickKeeps
  <1>2. CASE UNCHANGED gatewayVars
    <2>1. mail' = mail /\ deaths' = deaths /\ request' = request /\ tokens' = tokens /\ now' = now
      BY <1>2 DEF gatewayVars
    <2>2. GatewayTypeOK'
      BY <2>1 DEF GatewayInv, GatewayTypeOK
    <2>3. ASSUME NEW m \in Messages  PROVE LetterInv(m)' /\ AuthLetterInv(m)'
      BY <2>1 DEF GatewayInv, LetterInv, AuthLetterInv, Rejected, Valid, Cmd, Service
    <2>4. ASSUME NEW q \in Requests  PROVE RequestInv(q)'
      BY <2>1 DEF GatewayInv, RequestInv, PhaseInv, BodyInv, SessionInv, VerdictInv, Unsent, Live,
                  Failed, Command
    <2> QED  BY <2>2, <2>3, <2>4 DEF GatewayInv, Messages
  <1> QED  BY <1>1, <1>2

THEOREM GatewayInvariance == GatewaySpec => []GatewayInv
  BY InitHasInv, StepKeepsInv, PTL DEF GatewaySpec

(* For any requests, routes, tokens and deaths, the gateway, its letters   *)
(* and its sessions stay within their types; a command succeeds once more  *)
(* often than replicas die, at most.                                       *)
THEOREM GatewayTypes == GatewaySpec => []GatewayTypeOK
  <1>1. GatewayInv => GatewayTypeOK
    BY DEF GatewayInv
  <1> QED  BY <1>1, GatewayInvariance, PTL

(* Whatever the interleaving of guard, interceptor, controller, clock and  *)
(* deaths, a command that needs a member names the owner of the token that *)
(* the request brought, and that was live when the request arrived.        *)
THEOREM OwnersAct == GatewaySpec => []TokenOwnerActs
  <1>1. GatewayInv => TokenOwnerActs
    <2>1. SUFFICES ASSUME GatewayInv, NEW q \in Requests, NEW use \in Attempts,
                          mail[<<q, use>>].at # "unsent", request[q].route.guarded
                   PROVE  \E t \in tokens :
                            /\ t = request[q].token /\ t.user = mail[<<q, use>>].body.data
                            /\ request[q].came < t.exp
      BY DEF TokenOwnerActs, Attempts
    <2>2. mail[<<q, use>>].body = Command(q) /\ request[q].user # None
      BY <2>1, Facts DEF BodyInv, Unsent
    <2>3. Live(q) /\ request[q].user = request[q].token.user
      BY <2>1, <2>2, Facts DEF SessionInv
    <2> QED  BY <2>1, <2>2, <2>3 DEF Live, Command
  <1> QED  BY <1>1, GatewayInvariance, PTL

(* A command of auth_queue whose client was answered stays as it is: the   *)
(* only exception is a verify-jwt that JwtGuard rejected, never            *)
(* acknowledged, and that comes back without ever having an effect.        *)
THEOREM RejectionsReturn == GatewaySpec => OnlyRejectionsReturn
  <1> DEFINE Step ==
        \A m \in Messages :
          mail[m].answer # None /\ Service(m) = "auth" /\ mail'[m] # mail[m] =>
            /\ Cmd(m) = "verify-jwt" /\ mail[m].answer = "error"
            /\ mail'[m].done = 0 /\ ~ mail'[m].acked
  <1>1. ASSUME GatewayInv, [GatewayNext]_gatewayVars
        PROVE  Step
    <2>1. SUFFICES ASSUME NEW m \in Messages, mail[m].answer # None, Service(m) = "auth",
                          mail'[m] # mail[m]
                   PROVE  /\ Cmd(m) = "verify-jwt" /\ mail[m].answer = "error"
                          /\ mail'[m].done = 0 /\ ~ mail'[m].acked
      OBVIOUS
    <2>2. GatewayTypeOK /\ GatewayNext /\ ~ Tick
      BY <1>1, <2>1 DEF GatewayInv, gatewayVars, Tick
    <2>3. ~ (\E q \in Requests : RequestActs(q))
      BY <1>1, <2>1, RequestActsKeep, RequestKeepsLetters
    <2>4. Evolves(m)
      BY <2>1, <2>2, <2>3, EveryStep DEF LettersMove
    <2>5. AuthLetterInv(m) /\ LetterInv(m) /\ mail[m] \in LooseLetter
      BY <1>1, Loose DEF GatewayInv
    <2>6. mail[m].at # "unsent"
      BY <2>1, <2>5 DEF LetterInv, Unwritten, Fresh
    <2> DEFINE R == Rejected(m)
    <2>7. /\ mail[m].answer \in Outcomes /\ mail[m].acked \in BOOLEAN
          /\ ~ mail[m].acked => mail[m].done = 0 /\ mail[m].at \in {"queued", "handled", "answered"}
          /\ ~ mail[m].acked => R /\ mail[m].answer # "ok"
          /\ mail[m].acked => mail[m].at = "answered"
      BY <2>1, <2>5, <2>6 DEF AuthLetterInv, LooseLetter
    <2>8. ~ mail[m].acked /\ R
      <3> HIDE DEF R
      <3> QED  BY <2>4, <2>7 DEF Evolves, Begins, IsRejected, Ends, Answers, Stalls, Bereaved,
                                 AtReplica
    <2>9. mail'[m].done = 0 /\ ~ mail'[m].acked
      BY <2>4, <2>7, <2>8 DEF Evolves, Begins, IsRejected, Ends, Answers, Stalls, Bereaved,
                              Becomes
    <2> QED  BY <2>7, <2>8, <2>9 DEF Rejected, Outcomes
  <1>2. OnlyRejectionsReturn <=> [][Step]_gatewayVars
    BY DEF OnlyRejectionsReturn
  <1> HIDE DEF Step
  <1> QED  BY <1>1, <1>2, GatewayInvariance, PTL DEF GatewaySpec

-----------------------------------------------------------------------------
(* The gateway implements ClubDoor.                                        *)

(* ClubDoor's variables, as the substitution of Door gives them.           *)
ServiceOf(r) == IF r.route = None THEN "none" ELSE r.route.service
CarriedBy(q) == mail[<<q, "first">>].done + mail[<<q, "second">>].done

phaseBar == [q \in Requests |-> PhaseOf(request[q])]
serviceBar == [q \in Requests |-> ServiceOf(request[q])]
carriedBar == [q \in Requests |-> CarriedBy(q)]

LEMMA DoorBars ==
  /\ Door!DoorInit <=>
       /\ phaseBar = [q \in Requests |-> "idle"]
       /\ serviceBar = [q \in Requests |-> "none"]
       /\ carriedBar = [q \in Requests |-> 0]
  /\ \A q \in Requests :
       Door!Enter(q) <=>
         /\ phaseBar[q] = "idle"
         /\ \E s \in {"auth", "books"} : serviceBar' = [serviceBar EXCEPT ![q] = s]
         /\ phaseBar' = [phaseBar EXCEPT ![q] = "open"]
         /\ carriedBar' = carriedBar
  /\ \A q \in Requests :
       Door!Carry(q) <=>
         /\ \/ /\ serviceBar[q] = "auth" /\ carriedBar[q] = 0
               /\ phaseBar[q] \in {"open", "gone"}
            \/ serviceBar[q] = "books" /\ phaseBar[q] \in {"open", "gone", "ok", "failed"}
         /\ carriedBar' = [carriedBar EXCEPT ![q] = @ + 1]
         /\ phaseBar' = phaseBar /\ serviceBar' = serviceBar
  /\ \A q \in Requests :
       Door!Close(q) <=>
         /\ phaseBar[q] = "open"
         /\ \/ carriedBar[q] > 0 /\ phaseBar' = [phaseBar EXCEPT ![q] = "ok"]
            \/ carriedBar[q] = 0 /\ phaseBar' = [phaseBar EXCEPT ![q] = "refused"]
            \/ /\ serviceBar[q] = "auth" => carriedBar[q] = 0
               /\ phaseBar' = [phaseBar EXCEPT ![q] = "failed"]
            \/ phaseBar' = [phaseBar EXCEPT ![q] = "gone"]
         /\ serviceBar' = serviceBar /\ carriedBar' = carriedBar
  /\ UNCHANGED Door!doorVars <=>
       phaseBar' = phaseBar /\ serviceBar' = serviceBar /\ carriedBar' = carriedBar
  BY DEF Door!DoorInit, Door!Enter, Door!Carry, Door!Close, Door!doorVars, phaseBar, serviceBar,
         carriedBar, ServiceOf, CarriedBy

(* A request comes in, or one that is open goes on.                        *)
LEMMA RequestTurns ==
  ASSUME GatewayInv, NEW q \in Requests, RequestActs(q)
  PROVE  \/ /\ request[q].pc = "idle" /\ request'[q].pc \in {"guard", "handle"}
            /\ request'[q].route \in AllRoutes
         \/ /\ request[q].pc \notin {"idle", "answered", "gone"}
            /\ request'[q].pc # "idle" /\ request'[q].route = request[q].route
  <1>1. CASE Arrive(q)
    <2>1. PICK r \in Routes[q], t \in tokens \cup {Garbled, None}, v \in BOOLEAN :
            request' = [request EXCEPT ![q] =
              [Unmade EXCEPT !.pc = IF r.guarded THEN "guard" ELSE "handle",
                             !.route = r, !.token = t, !.valid = v, !.came = now]]
      BY <1>1 DEF Arrive
    <2>2. r \in AllRoutes
      BY GatewayAssumption DEF GatewayAssumption, AllRoutes
    <2>3. request'[q].pc \in {"guard", "handle"} /\ request'[q].route = r
      BY <2>1, Facts DEF GatewayTypeOK, Unmade
    <2> QED  BY <1>1, <2>2, <2>3 DEF Arrive
  <1>2. CASE Guard(q)
    BY <1>2, ClosesTurns, GoesTurns, Facts DEF Guard, Turns
  <1>3. CASE HearVerify(q)
    BY <1>3, ClosesTurns, GoesTurns, Facts DEF HearVerify, Turns
  <1>4. CASE HearDecode(q)
    BY <1>4, HearDecodeKeeps DEF HearDecode, Turns
  <1>5. CASE Handle(q)
    <2>1. request[q].pc = "handle" /\ request[q].route.refusal \in {"bad-request", "unauthorized", None}
      BY <1>5, RouteFields, Facts DEF Handle, PhaseInv, RequestRecord, AllRoutes
    <2> DEFINE refusal == request[q].route.refusal
    <2>2. Fails(q, "bad-request") \/ Fails(q, refusal) \/ Goes(q, "wait")
      BY <1>5 DEF Handle
    <2> HIDE DEF refusal
    <2>3. refusal \in {"bad-request", "unauthorized", None}
      BY <2>1 DEF refusal
    <2> QED  BY <2>1, <2>2, <2>3, FailsTurns, GoesTurns, Facts DEF Turns
  <1>6. CASE HearCommand(q)
    BY <1>6, ClosesTurns, FailsTurns, Facts DEF HearCommand, Turns
  <1>7. CASE Abandon(q)
    BY <1>7, GoesTurns, Facts DEF Abandon, Turns
  <1> QED  BY <1>1, <1>2, <1>3, <1>4, <1>5, <1>6, <1>7 DEF RequestActs

(* An answer is as good as ClubDoor's.                                     *)
LEMMA AnswerIsTrue ==
  ASSUME GatewayInv, NEW q \in Requests, request[q].pc = "answered"
  PROVE  /\ PhaseOf(request[q]) \in {"ok", "failed", "refused"}
         /\ PhaseOf(request[q]) = "ok" => CarriedBy(q) > 0
         /\ PhaseOf(request[q]) = "refused" => CarriedBy(q) = 0
         /\ PhaseOf(request[q]) = "failed" /\ request[q].route.service = "auth" => CarriedBy(q) = 0
  <1> DEFINE f == <<q, "first">>
  <1> DEFINE s == <<q, "second">>
  <1>1. f \in Messages /\ s \in Messages
    BY MessageParts DEF Uses
  <1>2. /\ LetterInv(f) /\ LetterInv(s) /\ AuthLetterInv(f) /\ AuthLetterInv(s)
        /\ mail[f].done \in Nat /\ mail[s].done \in Nat
    BY <1>1, Loose DEF GatewayInv, LooseLetter
  <1>3. PhaseOf(request[q]) = IF request[q].status = "ok" THEN "ok"
                              ELSE IF request[q].status = "error" THEN "failed" ELSE "refused"
    BY DEF PhaseOf
  <1>4. VerdictInv(q) /\ BodyInv(q)
    BY Facts
  <1>5. CASE request[q].status = "ok"
    <2>1. mail[f].answer = "ok" \/ mail[s].answer = "ok"
      BY <1>4, <1>5 DEF VerdictInv, Attempts
    <2>2. mail[f].done > 0 \/ mail[s].done > 0
      BY <1>2, <2>1 DEF LetterInv
    <2> QED  BY <1>2, <1>3, <1>5, <2>2 DEF CarriedBy
  <1>6. CASE request[q].status = "error"
    <2>1. ASSUME NEW use \in Attempts, request[q].route.service = "auth"
          PROVE  mail[<<q, use>>].done = 0
      <3>1. CASE Unsent(q, use)
        BY <3>1, Blank DEF Uses, Attempts
      <3>2. CASE ~ Unsent(q, use)
        <4>1. mail[<<q, use>>].answer = "error"
          BY <1>4, <1>6, <3>2 DEF VerdictInv, Failed, Attempts
        <4>2. Service(<<q, use>>) = "auth"
          BY <1>4, <2>1, <3>2 DEF BodyInv, Command, Service
        <4> QED  BY <1>2, <3>2, <4>1, <4>2 DEF AuthLetterInv, Unsent, Attempts
      <3> QED  BY <3>1, <3>2
    <2> QED  BY <1>2, <1>3, <1>6, <2>1 DEF CarriedBy, Attempts
  <1>7. CASE request[q].status \notin Outcomes
    <2>1. mail[f].done = 0 /\ mail[s].done = 0
      BY <1>4, <1>7, Blank DEF VerdictInv, Uses
    <2> QED  BY <1>3, <1>7, <2>1 DEF CarriedBy, Outcomes
  <1> QED  BY <1>5, <1>6, <1>7 DEF Outcomes

LEMMA RequestsAtDoor ==
  ASSUME GatewayInv, GatewayInv', NEW q \in Requests, RequestActs(q), RequestMoves(q)
  PROVE  Door!Enter(q) \/ Door!Close(q) \/ UNCHANGED Door!doorVars
  <1>1. \A p \in Requests : CarriedBy(p)' = CarriedBy(p)
    BY RequestKeepsLetters, MessageParts DEF CarriedBy, Uses
  <1>2. \A p \in Requests : p # q => request'[p] = request[p]
    BY DEF RequestMoves
  <1>3. carriedBar' = carriedBar
    BY <1>1 DEF carriedBar
  <1>4. request[q].route # None => ServiceOf(request[q]) = request[q].route.service
    BY DEF ServiceOf
  <1>5. phaseBar' = [phaseBar EXCEPT ![q] = PhaseOf(request'[q])]
    BY <1>2 DEF phaseBar
  <1>6. CASE /\ request[q].pc = "idle" /\ request'[q].pc \in {"guard", "handle"}
             /\ request'[q].route \in AllRoutes
    <2>1. PhaseOf(request[q]) = "idle" /\ PhaseOf(request'[q]) = "open"
      BY <1>6 DEF PhaseOf
    <2>2. serviceBar' = [serviceBar EXCEPT ![q] = ServiceOf(request'[q])]
      BY <1>2 DEF serviceBar
    <2>3. ServiceOf(request'[q]) \in {"auth", "books"}
      BY <1>6, RouteFields, Facts DEF ServiceOf, Services
    <2>4. phaseBar[q] = "idle"
      BY <2>1 DEF phaseBar
    <2> QED  BY <1>3, <1>5, <2>1, <2>2, <2>3, <2>4, DoorBars
  <1>7. CASE /\ request[q].pc \notin {"idle", "answered", "gone"}
             /\ request'[q].pc # "idle" /\ request'[q].route = request[q].route
    <2>1. serviceBar' = serviceBar
      BY <1>2, <1>7 DEF serviceBar, ServiceOf
    <2>2. PhaseOf(request[q]) = "open" /\ phaseBar[q] = "open"
      BY <1>7 DEF PhaseOf, phaseBar
    <2>3. CASE request'[q].pc = "answered"
      <3> DEFINE ph == PhaseOf(request'[q])
      <3>1. /\ ph \in {"ok", "failed", "refused"}
            /\ ph = "ok" => CarriedBy(q) > 0
            /\ ph = "refused" => CarriedBy(q) = 0
            /\ ph = "failed" /\ request[q].route.service = "auth" => CarriedBy(q) = 0
        <4>1. /\ PhaseOf(request[q])' \in {"ok", "failed", "refused"}
              /\ PhaseOf(request[q])' = "ok" => CarriedBy(q)' > 0
              /\ PhaseOf(request[q])' = "refused" => CarriedBy(q)' = 0
              /\ PhaseOf(request[q])' = "failed" /\ request'[q].route.service = "auth" =>
                   CarriedBy(q)' = 0
          <5>1. (GatewayInv /\ request[q].pc = "answered" =>
                   /\ PhaseOf(request[q]) \in {"ok", "failed", "refused"}
                   /\ PhaseOf(request[q]) = "ok" => CarriedBy(q) > 0
                   /\ PhaseOf(request[q]) = "refused" => CarriedBy(q) = 0
                   /\ PhaseOf(request[q]) = "failed" /\ request[q].route.service = "auth" =>
                        CarriedBy(q) = 0)'
            BY AnswerIsTrue, PTL
          <5> QED  BY <2>3, <5>1
        <4> QED  BY <1>1, <1>7, <4>1
      <3>2. carriedBar[q] = CarriedBy(q) /\ (serviceBar[q] = "auth" => request[q].route.service = "auth")
        BY DEF carriedBar, serviceBar, ServiceOf
      <3>3. phaseBar' = [phaseBar EXCEPT ![q] = ph]
        BY <1>5
      <3> HIDE DEF ph
      <3> QED  BY <1>3, <2>1, <2>2, <3>1, <3>2, <3>3, DoorBars
    <2>4. CASE request'[q].pc = "gone"
      <3>1. PhaseOf(request'[q]) = "gone"
        BY <2>4 DEF PhaseOf
      <3> QED  BY <1>3, <1>5, <2>1, <2>2, <3>1, DoorBars
    <2>5. CASE request'[q].pc \notin {"answered", "gone"}
      <3>1. PhaseOf(request'[q]) = "open"
        BY <1>7, <2>5 DEF PhaseOf
      <3>2. phaseBar' = phaseBar
        BY <1>2, <2>2, <3>1 DEF phaseBar
      <3> QED  BY <1>3, <2>1, <3>2, DoorBars
    <2> QED  BY <2>3, <2>4, <2>5
  <1> QED  BY <1>6, <1>7, RequestTurns

(* A command of a route that succeeds is what ClubDoor carries out.        *)
LEMMA SuccessIsCarried ==
  ASSUME GatewayInv, NEW q \in Requests, NEW use \in Attempts, mail[<<q, use>>].at = "running"
  PROVE  /\ request[q].route \in AllRoutes
         /\ PhaseOf(request[q]) \in {"open", "gone", "ok", "failed"}
         /\ request[q].route.service = "auth" =>
              CarriedBy(q) = 0 /\ PhaseOf(request[q]) \in {"open", "gone"}
  <1> DEFINE m == <<q, use>>
  <1> DEFINE f == <<q, "first">>
  <1> DEFINE s == <<q, "second">>
  <1>1. m \in Messages /\ f \in Messages /\ s \in Messages /\ ~ Unsent(q, use)
    BY MessageParts DEF Uses, Attempts, Unsent
  <1>2. /\ mail[m] \in LooseLetter /\ AuthLetterInv(m) /\ AuthLetterInv(f)
        /\ PhaseInv(q) /\ BodyInv(q) /\ VerdictInv(q) /\ request[q] \in RequestRecord
        /\ None \notin Outcomes
    BY <1>1, Loose, Facts DEF GatewayInv
  <1>3. request[q].route \in AllRoutes /\ request[q].pc # "idle"
    BY <1>1, <1>2 DEF PhaseInv, RequestRecord, AllRoutes, Attempts
  <1>4. PhaseOf(request[q]) \in {"open", "gone", "ok", "failed"}
    <2>1. request[q].pc = "answered" => request[q].status \in Outcomes
      BY <1>1, <1>2 DEF VerdictInv, Attempts
    <2> QED  BY <1>3, <2>1 DEF PhaseOf, Outcomes
  <1>5. ASSUME request[q].route.service = "auth"
        PROVE  CarriedBy(q) = 0 /\ PhaseOf(request[q]) \in {"open", "gone"}
    <2>1. Service(m) = "auth" /\ mail[m].body = Command(q)
      BY <1>1, <1>2, <1>5 DEF BodyInv, Command, Service
    <2>2. mail[m].done = 0 /\ mail[m].answer = None
      BY <1>2, <2>1 DEF AuthLetterInv, LooseLetter
    <2>3. request[q].pc # "answered"
      BY <1>1, <1>2, <2>2 DEF VerdictInv
    <2>4. mail[f].done = 0 /\ mail[s].done = 0
      <3>1. CASE use = "first"
        <4>1. ~ Failed(q, "first")
          BY <1>1, <1>2, <2>2, <3>1 DEF Failed, Outcomes
        <4>2. Unsent(q, "second")
          BY <1>2, <4>1 DEF VerdictInv
        <4> QED  BY <2>2, <3>1, <4>2, Blank DEF Uses
      <3>2. CASE use = "second"
        <4>1. Failed(q, "first")
          BY <1>1, <1>2, <3>2 DEF VerdictInv
        <4>2. CASE Unsent(q, "first")
          BY <2>2, <3>2, <4>2, Blank DEF Uses
        <4>3. CASE ~ Unsent(q, "first")
          <5>1. Service(f) = "auth" /\ mail[f].answer = "error"
            BY <1>2, <1>5, <4>1, <4>3 DEF BodyInv, Command, Service, Failed, Attempts
          <5>2. mail[f].done = 0
            BY <1>2, <4>3, <5>1 DEF AuthLetterInv, Unsent
          <5> QED  BY <2>2, <3>2, <5>2
        <4> QED  BY <4>2, <4>3
      <3> QED  BY <3>1, <3>2 DEF Attempts
    <2> QED  BY <1>3, <2>3, <2>4 DEF CarriedBy, PhaseOf
  <1> QED  BY <1>3, <1>4, <1>5

LEMMA LettersAtDoor ==
  ASSUME GatewayInv, LettersMove
  PROVE  (\E q \in Requests : Door!Carry(q)) \/ UNCHANGED Door!doorVars
  <1>1. phaseBar' = phaseBar /\ serviceBar' = serviceBar
    BY DEF LettersMove, phaseBar, serviceBar
  <1>2. \A m \in Messages : mail[m] \in LooseLetter
    BY Loose DEF GatewayInv
  <1>3. CASE \A q \in Requests : \A use \in Attempts : mail'[<<q, use>>].done = mail[<<q, use>>].done
    <2>1. carriedBar' = carriedBar
      BY <1>3 DEF carriedBar, CarriedBy, Attempts
    <2> QED  BY <1>1, <2>1, DoorBars
  <1>4. ASSUME NEW q \in Requests, NEW use \in Attempts,
               mail'[<<q, use>>].done # mail[<<q, use>>].done
        PROVE  Door!Carry(q)
    <2>1. <<q, use>> \in Messages
      BY MessageParts DEF Uses, Attempts
    <2>2. /\ mail[<<q, use>>].at = "running"
          /\ mail'[<<q, use>>].done = mail[<<q, use>>].done + 1
      <3> DEFINE m == <<q, use>>
      <3>1. Evolves(m)
        BY <1>4, <2>1 DEF LettersMove
      <3> HIDE DEF m
      <3>2. mail'[m].done # mail[m].done
        BY <1>4 DEF m
      <3>3. mail[m].at = "running" /\ mail'[m].done = mail[m].done + 1
        BY <3>1, <3>2 DEF Evolves, Begins, IsRejected, Ends, Answers, Stalls, Bereaved, Becomes
      <3> QED  BY <3>3 DEF m
    <2>3. ASSUME NEW p \in Requests, NEW u \in Attempts, p # q \/ u # use
          PROVE  mail'[<<p, u>>].done = mail[<<p, u>>].done
      <3>1. <<p, u>> \in Messages /\ <<p, u>> # <<q, use>>
        BY <2>3, MessageParts DEF Uses, Attempts
      <3> QED  BY <1>4, <2>1, <3>1 DEF LettersMove
    <2>4. \A p \in Requests : p # q => CarriedBy(p)' = CarriedBy(p)
      BY <2>3 DEF CarriedBy, Attempts
    <2>5. CarriedBy(q)' = CarriedBy(q) + 1
      <3>1. mail[<<q, "first">>].done \in Nat /\ mail[<<q, "second">>].done \in Nat
        BY <1>2, MessageParts DEF LooseLetter, Uses
      <3>2. CASE use = "first"
        <4>1. mail'[<<q, "second">>].done = mail[<<q, "second">>].done
          BY <2>3, <3>2 DEF Attempts
        <4> QED  BY <2>2, <3>1, <3>2, <4>1 DEF CarriedBy
      <3>3. CASE use = "second"
        <4>1. mail'[<<q, "first">>].done = mail[<<q, "first">>].done
          BY <2>3, <3>3 DEF Attempts
        <4> QED  BY <2>2, <3>1, <3>3, <4>1 DEF CarriedBy
      <3> QED  BY <3>2, <3>3 DEF Attempts
    <2>6. carriedBar' = [carriedBar EXCEPT ![q] = carriedBar[q] + 1]
      BY <2>4, <2>5 DEF carriedBar
    <2>7. \/ /\ serviceBar[q] = "auth" /\ carriedBar[q] = 0
             /\ phaseBar[q] \in {"open", "gone"}
          \/ serviceBar[q] = "books" /\ phaseBar[q] \in {"open", "gone", "ok", "failed"}
      <3>1. request[q].route # None /\ request[q].route.service \in {"auth", "books"}
        BY <2>2, SuccessIsCarried, RouteFields, Facts DEF Services
      <3>2. serviceBar[q] = request[q].route.service /\ carriedBar[q] = CarriedBy(q)
            /\ phaseBar[q] = PhaseOf(request[q])
        BY <3>1 DEF serviceBar, carriedBar, phaseBar, ServiceOf
      <3> QED  BY <2>2, <3>1, <3>2, SuccessIsCarried
    <2> QED  BY <1>1, <2>6, <2>7, DoorBars
  <1> QED  BY <1>3, <1>4

(* The gateway keeps ClubDoor's word, for any requests, routes, tokens and *)
(* deaths: a request for the auth service is carried out once at most, and *)
(* an answer of either service says what was, or may have been, done.      *)
THEOREM GatewayKeepsWord == GatewaySpec => KeepsWord
  <1>1. GatewayInit => Door!DoorInit
    <2>1. SUFFICES ASSUME GatewayInit
                   PROVE  /\ phaseBar = [q \in Requests |-> "idle"]
                          /\ serviceBar = [q \in Requests |-> "none"]
                          /\ carriedBar = [q \in Requests |-> 0]
      BY DoorBars
    <2>2. ASSUME NEW q \in Requests
          PROVE  PhaseOf(request[q]) = "idle" /\ ServiceOf(request[q]) = "none" /\ CarriedBy(q) = 0
      <3>1. request[q].pc = "idle" /\ request[q].route = None
        BY <2>1 DEF GatewayInit, Unmade
      <3>2. mail[<<q, "first">>].done = 0 /\ mail[<<q, "second">>].done = 0
        BY <2>1, MessageParts DEF GatewayInit, DeliveryInit, Unwritten, Fresh, Uses
      <3> QED  BY <3>1, <3>2 DEF PhaseOf, ServiceOf, CarriedBy
    <2> QED  BY <2>2 DEF phaseBar, serviceBar, carriedBar
  <1>2. ASSUME GatewayInv, GatewayInv', [GatewayNext]_gatewayVars
        PROVE  [Door!DoorNext]_(Door!doorVars)
    <2>1. CASE \E q \in Requests : RequestActs(q)
      BY <1>2, <2>1, RequestActsKeep, RequestsAtDoor DEF Door!DoorNext
    <2>2. CASE LettersMove
      BY <1>2, <2>2, LettersAtDoor DEF Door!DoorNext
    <2>3. CASE Tick \/ UNCHANGED gatewayVars
      <3>1. mail' = mail /\ request' = request
        BY <2>3 DEF Tick, gatewayVars
      <3> QED  BY <3>1, DoorBars DEF phaseBar, serviceBar, carriedBar, CarriedBy
    <2> QED  BY <1>2, <2>1, <2>2, <2>3, EveryStep DEF GatewayInv
  <1> QED  BY <1>1, <1>2, GatewayInvariance, PTL DEF GatewaySpec, KeepsWord, Door!DoorSpec
=============================================================================
