----------------------------- MODULE GameClient -----------------------------
(***************************************************************************)
(* The clients (src/client.cpp).  Each logs in, joins the user server it   *)
(* is sent to, selects a ship, and once it is ready a second thread sends  *)
(* commands; an interrupt makes it disconnect and exit, and it may be      *)
(* started again at the same address.                                      *)
(***************************************************************************)
EXTENDS Network

CONSTANTS MaxStarts,     \* bound: how often a client is started
          Sends,         \* the commands a client sends while it plays
          Interruptible  \* may clients be interrupted?

ASSUME ClientAssumption ==
    /\ MaxStarts \in Nat
    /\ Sends \subseteq {"FIRE", "USE"}
    /\ Interruptible \in BOOLEAN

VARIABLES client,        \* per client: what its process knows
          starts         \* per client: how often it was started

clientVars == <<client, starts>>

(* addressed: serverIP is set; active: the thread that sends commands runs.*)
Process == [status : {"off", "on", "aborted"}, addressed : BOOLEAN,
            active : BOOLEAN]
Off     == [status |-> "off", addressed |-> FALSE, active |-> FALSE]
Fresh   == [status |-> "on", addressed |-> FALSE, active |-> FALSE]
Aborted == [status |-> "aborted", addressed |-> FALSE, active |-> FALSE]

ClientTypeOK ==
    /\ client \in [Client -> Process]
    /\ starts \in [Client -> 0..MaxStarts]

ClientInit ==
    /\ client = [c \in Client |-> Off]
    /\ starts = [c \in Client |-> 0]

IsOn(c) == client[c].status = "on"

(* What a client tells the login server and the user server; it is known   *)
(* by its address.                                                         *)
LoginRequest(c) == Reliable("login", "INITIALIZE", c, 0)
JoinRequest(c)  == Reliable("user", "JOIN", c, 0)
ShipRequest(c)  == Reliable("user", "SELECT_SHIP", c, 0)
Farewell(c)     == Plain("user", "DISCONNECT", c, 0)

-----------------------------------------------------------------------------
(* The process begins with a login. *)
Begin(c, out) ==
    /\ ~IsOn(c)
    /\ starts[c] < MaxStarts
    /\ starts' = [starts EXCEPT ![c] = @ + 1]
    /\ client' = [client EXCEPT ![c] = Fresh]
    /\ Emit(out)

(* sendLogin. *)
LogIn(c) == Begin(c, {LoginRequest(c)})

(* The login seen from afar: its answer, the address of the user server,   *)
(* is on its way at once.  SpaceQuestLogin shows that it is.            *)
Start(c) == Begin(c, {Plain(c, "ADDRESS", c, 0)})

(* sendJoin, to the address just learnt. *)
TakeAddress(c, m) ==
    /\ m.command = "ADDRESS"
    /\ client' = [client EXCEPT ![c].addressed = TRUE]
    /\ Handle(m, {JoinRequest(c)})
    /\ UNCHANGED starts

(* sendSelectShip; the packet of an earlier run finds serverIP null. *)
ChooseShip(c, m) ==
    /\ m.command = "JOINED"
    /\ IF client[c].addressed
       THEN Handle(m, {ShipRequest(c)}) /\ UNCHANGED client
       ELSE Handle(m, {}) /\ client' = [client EXCEPT ![c] = Aborted]
    /\ UNCHANGED starts

(* The thread is started; started twice, it ends the process. *)
GetReady(c, m) ==
    /\ m.command = "READY"
    /\ Handle(m, {})
    /\ client' = [client EXCEPT ![c] = IF @.active THEN Aborted
                                       ELSE [@ EXCEPT !.active = TRUE]]
    /\ UNCHANGED starts

ClientHandler(c, m) ==
    /\ IsOn(c)
    /\ m.to = c
    /\ \/ TakeAddress(c, m)
       \/ ChooseShip(c, m)
       \/ GetReady(c, m)

(* moveThread: a command every second.  It is FIRE; USE stands for another *)
(* command of packet.h, which the user server takes from any client.       *)
Move(c, command) ==
    /\ IsOn(c)
    /\ client[c].active
    /\ command \in Sends
    /\ IF client[c].addressed
       THEN Emit({Reliable("user", command, c, 0)}) /\ UNCHANGED client
       ELSE client' = [client EXCEPT ![c] = Aborted] /\ UNCHANGED net
    /\ UNCHANGED starts

(* sig_term_handler: SIGINT sends a plain DISCONNECT, if there is a server *)
(* to tell, SIGTERM nothing; both end the process.                         *)
Interrupt(c) ==
    /\ Interruptible
    /\ IsOn(c)
    /\ \E signal \in {"SIGINT", "SIGTERM"} :
          Emit(IF signal = "SIGINT" /\ client[c].addressed
               THEN {Farewell(c)} ELSE {})
    /\ client' = [client EXCEPT ![c] = Off]
    /\ UNCHANGED starts
=============================================================================
