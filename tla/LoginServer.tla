----------------------------- MODULE LoginServer -----------------------------
(***************************************************************************)
(* The login server (src/server-login.cpp): it asks the master for a user  *)
(* server on behalf of each client, and passes each answer on to the       *)
(* client that waits longest.  It sends without retries.                   *)
(***************************************************************************)
EXTENDS Network

VARIABLE requests   \* the clients that wait for an address, oldest first

LoginTypeOK == requests \in Seq(Client)

LoginInit == requests = <<>>

(* sendRequestServer, by plain Send. *)
RequestUserServer == Plain("master", "REQUEST_ADDRESS", "login", 0)

(* requests.pop() *)
MutOthersWaitingAll == requests
MutOthersWaitingNone == <<>>
OthersWaiting == Tail(requests)

(* A client logs in. *)
QueueRequest(m) ==
    /\ m.command = "INITIALIZE"
    /\ requests' = Append(requests, m.about)
    /\ Handle(m, {RequestUserServer})

(* The buffer is passed on as it came, whichever request it answers; with  *)
(* no request left it is dropped.                                          *)
PassAddress(m) ==
    /\ m.command = "ADDRESS"
    /\ IF requests = <<>>
       THEN Handle(m, {}) /\ UNCHANGED requests
       ELSE /\ Handle(m, {Plain(Head(requests), "ADDRESS", Head(requests), 0)})
            /\ requests' = OthersWaiting

LoginHandler(m) ==
    /\ m.to = "login"
    /\ \/ QueueRequest(m)
       \/ PassAddress(m)
=============================================================================
