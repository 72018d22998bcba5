------------------------------ MODULE Delivery ------------------------------
(***************************************************************************)
(* How a command of the gateway gets from ClientProxy.send to a handler    *)
(* and its answer back: the two queues, as shared.module.ts and            *)
(* shared.service.ts set them up, and the two disciplines of the           *)
(* controllers.  The auth service acknowledges a command before it handles *)
(* it, so a replica that dies loses it; JwtGuard runs before that, so a    *)
(* verify-jwt it rejects is answered and never acknowledged.  The books    *)
(* service never acknowledges, so a replica that dies gets every command   *)
(* it was ever sent delivered again.  What a command asks and what its     *)
(* handler does with it is left to the module that extends this one.       *)
(***************************************************************************)
EXTENDS Naturals

CONSTANTS
  Requests,    \* HTTP requests to the gateway
  MaxDeaths,   \* bound on the deaths of replicas of the two services
  None         \* nothing: no header, no answer, undefined

(* The commands one request may send, each at most once.                   *)
Messages == Requests \X {"verify", "decode", "first", "second"}

VARIABLES
  mail,     \* message -> what became of it
  deaths    \* how many replicas have died; bounded by MaxDeaths

deliveryVars == <<mail, deaths>>

Services == {"auth", "books"}
Outcomes == {"ok", "error"}

Letter(bodies) ==
  [body: bodies \cup {None},
   at: {"unsent", "queued", "running", "stalled", "handled", "answered", "lost"},
   acked: BOOLEAN,
   outcome: Outcomes \cup {None},   \* of the present delivery
   answer: Outcomes \cup {None},    \* the first that was published
   done: 0 .. MaxDeaths + 1]        \* deliveries that were handled with success

Fresh(body, at) == [body |-> body, at |-> at, acked |-> FALSE,
                    outcome |-> None, answer |-> None, done |-> 0]
Unwritten == Fresh(None, "unsent")

DeliveryInit == mail = [m \in Messages |-> Unwritten] /\ deaths = 0

Service(m) == mail[m].body.service
Cmd(m) == mail[m].body.cmd

(* send: the command is on the queue of its service.                       *)
Sent(m, body) == mail' = [mail EXCEPT ![m] = Fresh(body, "queued")]

BeginUnacknowledged(m) ==   \* a fault: the auth service acknowledges nothing either
  /\ mail[m].at = "queued"
  /\ mail' = [mail EXCEPT ![m].at = "running"]
  /\ UNCHANGED deaths

(* A replica starts to handle m; the auth service's first statement is the *)
(* acknowledgement.  A command that was delivered and waits for its turn   *)
(* in a replica is as good as queued.                                      *)
Begin(m) ==
  /\ mail[m].at = "queued"
  /\ mail' = [mail EXCEPT ![m].at = "running", ![m].acked = Service(m) = "auth"]
  /\ UNCHANGED deaths

RejectSilently(m) ==   \* a fault: the guard's exception answers nobody
  mail[m].at = "queued" /\ UNCHANGED <<mail, deaths>>

(* A guard throws: the handler and its acknowledgement are not reached.    *)
Reject(m) ==
  /\ mail[m].at = "queued"
  /\ mail' = [mail EXCEPT ![m].at = "handled", ![m].outcome = "error"]
  /\ UNCHANGED deaths

(* The handler ends.                                                       *)
Handled(m, outcome) ==
  /\ mail[m].at = "running"
  /\ mail' = [mail EXCEPT ![m].at = "handled", ![m].outcome = outcome,
                          ![m].done = IF outcome = "ok" THEN @ + 1 ELSE @]
  /\ UNCHANGED deaths

(* The response is published on the reply queue; the gateway looks at the  *)
(* first only.                                                             *)
Respond(m) ==
  /\ mail[m].at = "handled"
  /\ mail' = [mail EXCEPT ![m].at = "answered", ![m].outcome = None,
                          ![m].answer = IF @ = None THEN mail[m].outcome ELSE @]
  /\ UNCHANGED deaths

(* These handlers of the books service wait for the auth service without a *)
(* timeout, and wait for ever if it took their command and died.           *)
AskingCommands == {"createBook", "readBook", "get-my-readlist"}

Stall(m) ==
  /\ mail[m].at = "running"
  /\ Cmd(m) \in AskingCommands
  /\ mail' = [mail EXCEPT ![m].at = "stalled"]
  /\ UNCHANGED deaths

(* A replica that has the commands S dies: the acknowledged are lost, the  *)
(* others return to their queue.                                           *)
AtReplica(m) ==
  \/ mail[m].at \in {"running", "stalled", "handled"}
  \/ mail[m].at = "answered" /\ ~ mail[m].acked

Bereft(letter) ==
  IF letter.acked THEN [letter EXCEPT !.at = "lost", !.outcome = None]
                  ELSE [letter EXCEPT !.at = "queued", !.outcome = None]

Die(S) ==
  /\ deaths < MaxDeaths
  /\ deaths' = deaths + 1
  /\ \E s \in Services : \A m \in S : Service(m) = s
  /\ mail' = [m \in Messages |-> IF m \in S THEN Bereft(mail[m]) ELSE mail[m]]
=============================================================================
