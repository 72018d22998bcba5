------------------------------ MODULE Gateway -------------------------------
(***************************************************************************)
(* The gateway, apps/microservice-books-club, and the sessions it relies   *)
(* on.  A request on a guarded route sends three commands one after the    *)
(* other, each answered before the next: AuthGuard sends verify-jwt,       *)
(* UserInterceptor decode-jwt, the controller the command of the route.    *)
(* Nothing in the gateway has a timeout.  An error below the interceptor   *)
(* makes it handle the request a second time.  Of the two services only    *)
(* the tokens are modelled here; their other handlers succeed or fail.     *)
(***************************************************************************)
EXTENDS Delivery

CONSTANTS
  Members,
  Issued,     \* the tokens that members hold at the start
  Garbled,    \* a token that was not signed with JWT_SECRET
  Routes,     \* the routes each request may take, of AuthRoutes and BooksRoutes
  Lifetime,   \* JWT_EXPIRATION
  MaxTime     \* bound on the clock

VARIABLES
  request,   \* request -> where it is in the gateway
  tokens,    \* the tokens signed so far
  now        \* the clock of every process; bounded by MaxTime

gatewayVars == <<mail, deaths, request, tokens, now>>

Open(service, cmds) ==
  [service: {service}, cmd: cmds, guarded: {FALSE}, refusal: {None}]
Guarded(service, cmds, refusal) ==
  [service: {service}, cmd: cmds, guarded: {TRUE}, refusal: {refusal}]

(* The two controllers: what each route sends, whether it is guarded, and  *)
(* how it refuses a request without a member.                              *)
AuthRoutes ==
  Open("auth", {"get-users", "register", "login"})
    \cup Guarded("auth", {"RelocateMe", "myInfo"}, "unauthorized")
BooksRoutes ==
  Open("books", {"getBookById", "getAllBooks", "getBooksByAuthor"})
    \cup Guarded("books", {"createBook", "getBooksByAuthor"}, "bad-request")
    \cup Guarded("books", {"updateBook", "deleteBook", "readBook", "get-my-readlist"},
                 "unauthorized")

(* The commands whose DTO the ValidationPipe has rules for.                *)
ValidatedCommands ==
  {"register", "login", "RelocateMe", "getBookById", "createBook", "updateBook", "readBook"}

Tokens == [user: Members, exp: Nat]

ASSUME GatewayAssumption ==
  /\ Routes \in [Requests -> SUBSET (AuthRoutes \cup BooksRoutes)]
  /\ Issued \subseteq Tokens
  /\ Lifetime \in Nat \ {0} /\ MaxTime \in Nat /\ MaxDeaths \in Nat
  /\ None \notin Tokens /\ Garbled \notin Tokens \cup {None} /\ None \notin Outcomes
  /\ None \notin Members \cup AuthRoutes \cup BooksRoutes

Commands == {r.cmd : r \in AuthRoutes \cup BooksRoutes} \cup {"verify-jwt", "decode-jwt"}
Bodies == [service: Services, cmd: Commands, data: Tokens \cup {Garbled} \cup Members \cup {None}]

RequestRecord ==
  [pc: {"idle", "guard", "verify", "decode", "handle", "wait", "answered", "gone"},
   route: AuthRoutes \cup BooksRoutes \cup {None},
   token: Tokens \cup {Garbled, None},      \* of the authorization header
   valid: BOOLEAN,                          \* would its body pass the pipe
   came: 0 .. MaxTime,                      \* when it arrived
   user: Members \cup {None},               \* request.user
   attempt: {"first", "second"},            \* how often next.handle() was called
   status: {"ok", "error", "forbidden", "unauthorized", "bad-request", None}]

Unmade == [pc |-> "idle", route |-> None, token |-> None, valid |-> TRUE, came |-> 0,
           user |-> None, attempt |-> "first", status |-> None]

(* The types of the gateway's, the queues' and the sessions' variables.    *)
GatewayTypeOK ==
  /\ mail \in [Messages -> Letter(Bodies)]
  /\ deaths \in 0 .. MaxDeaths
  /\ request \in [Requests -> RequestRecord]
  /\ tokens \subseteq Tokens
  /\ now \in 0 .. MaxTime

GatewayInit ==
  /\ DeliveryInit
  /\ request = [q \in Requests |-> Unmade]
  /\ tokens = Issued
  /\ now = 0

-----------------------------------------------------------------------------
(* The gateway.                                                            *)

AnswerOf(q, use) == mail[<<q, use>>].answer
Goes(q, pc) == request' = [request EXCEPT ![q].pc = pc]
Closes(q, status) == request' = [request EXCEPT ![q].pc = "answered", ![q].status = status]

Verification(token) == [service |-> "auth", cmd |-> "verify-jwt", data |-> token]
Decoding(token) == [service |-> "auth", cmd |-> "decode-jwt", data |-> token]

(* A client may present any token that was signed, or none, or garbage.    *)
Arrive(q) ==
  /\ request[q].pc = "idle"
  /\ \E r \in Routes[q] :
       \E t \in IF r.guarded THEN tokens \cup {Garbled, None} ELSE {None} :
         \E v \in IF r.cmd \in ValidatedCommands THEN BOOLEAN ELSE {TRUE} :
           request' = [request EXCEPT ![q] =
             [Unmade EXCEPT !.pc = IF r.guarded THEN "guard" ELSE "handle",
                            !.route = r, !.token = t, !.valid = v, !.came = now]]
  /\ UNCHANGED <<mail, deaths, tokens, now>>

GuardOpen(q) ==   \* a fault: the token is decoded and never verified
  /\ request[q].pc = "guard"
  /\ IF request[q].token = None
     THEN Closes(q, "forbidden") /\ UNCHANGED mail
     ELSE Goes(q, "decode") /\ Sent(<<q, "decode">>, Decoding(request[q].token))
  /\ UNCHANGED <<deaths, tokens, now>>

(* AuthGuard.canActivate; a header without a token is no header.           *)
Guard(q) ==
  /\ request[q].pc = "guard"
  /\ IF request[q].token = None
     THEN Closes(q, "forbidden") /\ UNCHANGED mail
     ELSE Goes(q, "verify") /\ Sent(<<q, "verify">>, Verification(request[q].token))
  /\ UNCHANGED <<deaths, tokens, now>>

(* The guard hears of the token, and the interceptor begins.               *)
HearVerify(q) ==
  /\ request[q].pc = "verify"
  /\ \/ AnswerOf(q, "verify") = "error" /\ Closes(q, "unauthorized") /\ UNCHANGED mail
     \/ /\ AnswerOf(q, "verify") = "ok"
        /\ IF now < request[q].token.exp
           THEN Goes(q, "decode") /\ Sent(<<q, "decode">>, Decoding(request[q].token))
           ELSE Closes(q, "forbidden") /\ UNCHANGED mail
  /\ UNCHANGED <<deaths, tokens, now>>

HearDecodeWhole(q) ==   \* a fault: the member is the token's payload, not its user
  /\ request[q].pc = "decode" /\ AnswerOf(q, "decode") # None
  /\ request' = [request EXCEPT ![q].pc = "handle", ![q].user = request[q].token]
  /\ UNCHANGED <<mail, deaths, tokens, now>>

(* UserInterceptor.intercept: a token that does not decode is an error,    *)
(* for which next.handle() is called in catchError.                        *)
HearDecode(q) ==
  /\ request[q].pc = "decode" /\ AnswerOf(q, "decode") # None
  /\ request' = [request EXCEPT ![q].pc = "handle",
       ![q].user = IF request[q].token = Garbled THEN None ELSE request[q].token.user,
       ![q].attempt = IF request[q].token = Garbled THEN "second" ELSE "first"]
  /\ UNCHANGED <<mail, deaths, tokens, now>>

FailsQuietly(q, status) ==   \* a fault: the last error is swallowed
  IF request[q].route.guarded /\ request[q].attempt = "first"
  THEN request' = [request EXCEPT ![q].pc = "handle", ![q].attempt = "second"]
  ELSE Closes(q, "ok")

(* An error of the pipe, the controller or the command: the first time the *)
(* interceptor handles the request again, and ErrorInterceptor passes on   *)
(* the second error's status, as it does where there is no interceptor.    *)
Fails(q, status) ==
  IF request[q].route.guarded /\ request[q].attempt = "first"
  THEN request' = [request EXCEPT ![q].pc = "handle", ![q].attempt = "second"]
  ELSE Closes(q, status)

Command(q) == [service |-> request[q].route.service, cmd |-> request[q].route.cmd,
               data |-> request[q].user]

(* The pipe and the route's method; the user is part of its command.       *)
Handle(q) ==
  /\ request[q].pc = "handle"
  /\ IF ~ request[q].valid
     THEN Fails(q, "bad-request") /\ UNCHANGED mail
     ELSE IF request[q].route.guarded /\ request[q].user = None
     THEN Fails(q, request[q].route.refusal) /\ UNCHANGED mail
     ELSE Goes(q, "wait") /\ Sent(<<q, request[q].attempt>>, Command(q))
  /\ UNCHANGED <<deaths, tokens, now>>

HearCommand(q) ==
  /\ request[q].pc = "wait"
  /\ \/ AnswerOf(q, request[q].attempt) = "ok" /\ Closes(q, "ok")
     \/ AnswerOf(q, request[q].attempt) = "error" /\ Fails(q, "error")
  /\ UNCHANGED <<mail, deaths, tokens, now>>

(* A replica of the gateway dies, and the request with it.                 *)
Abandon(q) ==
  /\ request[q].pc \notin {"idle", "answered", "gone"}
  /\ Goes(q, "gone")
  /\ UNCHANGED <<mail, deaths, tokens, now>>

-----------------------------------------------------------------------------
(* The services.                                                           *)

(* What JwtStrategy and verifyAsync check: the signature and the expiry.   *)
Valid(token) == token \in tokens /\ now < token.exp

(* JwtGuard lets a verify-jwt through to its handler, or throws.           *)
Take(m) ==
  /\ mail[m].at = "queued"
  /\ IF Cmd(m) = "verify-jwt" /\ ~ Valid(mail[m].body.data) THEN Reject(m) ELSE Begin(m)
  /\ UNCHANGED <<request, tokens, now>>

(* verifyJwt checks the token once more: the clock may have moved.         *)
HandleVerify(m) ==
  /\ mail[m].at = "running" /\ Cmd(m) = "verify-jwt"
  /\ Handled(m, IF Valid(mail[m].body.data) THEN "ok" ELSE "error")
  /\ UNCHANGED <<request, tokens, now>>

(* getUserFromHeader decodes without a check.                              *)
HandleDecode(m) ==
  /\ mail[m].at = "running" /\ Cmd(m) = "decode-jwt"
  /\ Handled(m, "ok")
  /\ UNCHANGED <<request, tokens, now>>

(* login signs a token for the member whose credentials it was given.      *)
HandleLogin(m) ==
  /\ mail[m].at = "running" /\ Cmd(m) = "login"
  /\ \/ Handled(m, "error") /\ UNCHANGED tokens
     \/ \E u \in Members :
          /\ tokens' = tokens \cup {[user |-> u, exp |-> now + Lifetime]}
          /\ Handled(m, "ok")
  /\ UNCHANGED <<request, now>>

HandleOther(m) ==
  /\ mail[m].at = "running" /\ Cmd(m) \notin {"verify-jwt", "decode-jwt", "login"}
  /\ \E outcome \in Outcomes : Handled(m, outcome)
  /\ UNCHANGED <<request, tokens, now>>

Tick ==
  /\ now < MaxTime
  /\ now' = now + 1
  /\ UNCHANGED <<mail, deaths, request, tokens>>

-----------------------------------------------------------------------------
RequestStep(q) ==
  Guard(q) \/ HearVerify(q) \/ HearDecode(q) \/ Handle(q) \/ HearCommand(q)

ServiceStep(m) ==
  \/ Take(m)
  \/ HandleVerify(m) \/ HandleDecode(m) \/ HandleLogin(m) \/ HandleOther(m)
  \/ Respond(m) /\ UNCHANGED <<request, tokens, now>>

CommandStep(q) == \E m \in Messages : m[1] = q /\ ServiceStep(m)

Misfortune ==
  /\ \/ \E m \in Messages : Stall(m)
     \/ \E S \in (SUBSET {m \in Messages : AtReplica(m)}) \ {{}} : Die(S)
  /\ UNCHANGED <<request, tokens, now>>

GatewayNext ==
  \/ \E q \in Requests : Arrive(q) \/ RequestStep(q) \/ CommandStep(q) \/ Abandon(q)
  \/ Misfortune
  \/ Tick

GatewaySpec == GatewayInit /\ [][GatewayNext]_gatewayVars

(* A gateway that lives goes on; the queues are consumed as long as a      *)
(* replica lives, and dead ones are restarted, so what can be done about a *)
(* request's commands is done.  Clients, clocks and misfortunes are not    *)
(* fair.                                                                   *)
GatewayFairSpec ==
  /\ GatewaySpec
  /\ \A q \in Requests : WF_gatewayVars(RequestStep(q))
  /\ \A q \in Requests : WF_gatewayVars(CommandStep(q))

-----------------------------------------------------------------------------
(* What is true however requests, deliveries and deaths interleave.        *)

(* A command that needs a member is sent only in the name of the member a  *)
(* token was signed for, and that token, the one the request brought, had  *)
(* not expired when the request arrived: AuthGuard, UserInterceptor and    *)
(* the controller look at three answers, at three times.                   *)
TokenOwnerActs ==
  \A q \in Requests, use \in {"first", "second"} :
    LET letter == mail[<<q, use>>]
    IN  letter.at # "unsent" /\ request[q].route.guarded =>
          \E t \in tokens :
            t = request[q].token /\ t.user = letter.body.data /\ request[q].came < t.exp

(* What happens to a command on auth_queue after its client was answered   *)
(* is one thing only: a verify-jwt that JwtGuard rejected, and nobody      *)
(* acknowledged, is delivered again and rejected again.                    *)
OnlyRejectionsReturn ==
  [][\A m \in Messages :
       mail[m].answer # None /\ Service(m) = "auth" /\ mail'[m] # mail[m] =>
         /\ Cmd(m) = "verify-jwt" /\ mail[m].answer = "error"
         /\ mail'[m].done = 0 /\ ~ mail'[m].acked]_gatewayVars

(* The gateway, both queues and both disciplines amount to ClubDoor.       *)
PhaseOf(r) ==
  CASE r.pc \in {"idle", "gone"} -> r.pc
    [] r.pc = "answered" -> IF r.status = "ok" THEN "ok"
                            ELSE IF r.status = "error" THEN "failed" ELSE "refused"
    [] OTHER -> "open"

Door == INSTANCE ClubDoor WITH
  phase   <- [q \in Requests |-> PhaseOf(request[q])],
  service <- [q \in Requests |-> IF request[q].route = None THEN "none"
                                 ELSE request[q].route.service],
  carried <- [q \in Requests |-> mail[<<q, "first">>].done + mail[<<q, "second">>].done]

(* A request for the auth service takes effect once at most, though its    *)
(* command may be sent twice and its replica die; a success was carried    *)
(* out, a refusal never is.  Of the books service less is true, and this   *)
(* is all: see Carry and Close of ClubDoor.                                *)
KeepsWord == Door!DoorSpec

(* A request is answered, unless its gateway replica dies or one of its    *)
(* commands is lost, or stalls, for good.                                  *)
Stuck(q) == \E m \in Messages : m[1] = q /\ mail[m].at \in {"lost", "stalled"}

RequestAnswered ==
  \A q \in Requests :
    request[q].pc = "guard" ~>
      (request[q].pc \in {"answered", "gone"} \/ [] Stuck(q))

(* UserInterceptor's comment calls next.handle() a second time for an      *)
(* error of the auth service only.  The code does so for any error below.  *)
OneCommandPerRequest ==
  \A q \in Requests :
    mail[<<q, "first">>].at = "unsent" \/ mail[<<q, "second">>].at = "unsent"
=============================================================================
