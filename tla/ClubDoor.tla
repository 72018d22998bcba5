------------------------------ MODULE ClubDoor ------------------------------
(***************************************************************************)
(* What an HTTP client may count on, without guards, tokens, queues and    *)
(* replicas: a request for one of the two services is opened and closed,   *)
(* and in between, or later, carried out.                                  *)
(***************************************************************************)
EXTENDS Naturals

CONSTANTS Requests

VARIABLES
  phase,     \* request -> where it is, and how it was answered
  service,   \* request -> the service it is for
  carried    \* request -> how often it was carried out

doorVars == <<phase, service, carried>>

DoorInit ==
  /\ phase = [q \in Requests |-> "idle"]
  /\ service = [q \in Requests |-> "none"]
  /\ carried = [q \in Requests |-> 0]

Enter(q) ==
  /\ phase[q] = "idle"
  /\ \E s \in {"auth", "books"} : service' = [service EXCEPT ![q] = s]
  /\ phase' = [phase EXCEPT ![q] = "open"]
  /\ UNCHANGED carried

(* A request for the auth service is carried out once at most, and not     *)
(* after its answer.  One for the books service may be carried out again,  *)
(* and after any answer but a refusal.                                     *)
Carry(q) ==
  /\ \/ service[q] = "auth" /\ carried[q] = 0 /\ phase[q] \in {"open", "gone"}
     \/ service[q] = "books" /\ phase[q] \in {"open", "gone", "ok", "failed"}
  /\ carried' = [carried EXCEPT ![q] = @ + 1]
  /\ UNCHANGED <<phase, service>>

(* Success means it was carried out, a refusal that it never is; failure   *)
(* means that it is not, but for the books service only that it was tried. *)
Close(q) ==
  /\ phase[q] = "open"
  /\ \/ carried[q] > 0 /\ phase' = [phase EXCEPT ![q] = "ok"]
     \/ carried[q] = 0 /\ phase' = [phase EXCEPT ![q] = "refused"]
     \/ /\ service[q] = "auth" => carried[q] = 0
        /\ phase' = [phase EXCEPT ![q] = "failed"]
     \/ phase' = [phase EXCEPT ![q] = "gone"]
  /\ UNCHANGED <<service, carried>>

DoorNext == \E q \in Requests : Enter(q) \/ Carry(q) \/ Close(q)

DoorSpec == DoorInit /\ [][DoorNext]_doorVars
=============================================================================
