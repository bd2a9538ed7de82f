----------------------------- MODULE UserServer -----------------------------
(***************************************************************************)
(* The user server (src/server-user.cpp): it keeps a UserInfo for every    *)
(* client, asks the master for a game server for each new one, passes the  *)
(* clients' commands on under the id of their ship, and sends the universe *)
(* to one bucket of users per frame.                                       *)
(*                                                                         *)
(* The main thread handles packets and frames; the request daemon is a     *)
(* second thread.  Undefined behaviour (an empty queue's front, a null     *)
(* UserInfo) ends the modelled life of the server: fault names it.         *)
(***************************************************************************)
EXTENDS Network

CONSTANTS MAX_BUCKETS,   \* frames in a round: 5
          MaxRequests,   \* bound: requests pending at the master
          Slow           \* may an answer of the master take over a second?

ASSUME UserAssumption ==
    /\ MAX_BUCKETS \in Nat \ {0}
    /\ MaxRequests \in Nat
    /\ Slow \in BOOLEAN

VARIABLES usersInfo,        \* per client: its entry and its UserInfo
          pendingUsers,     \* users waiting for a game server's address
          pendingRequests,  \* requests for it that were not answered yet
          shipBucket,       \* the users served in each frame
          frame,            \* the bucket whose turn it is
          userFault         \* which undefined behaviour was met, if any

userVars == <<usersInfo, pendingUsers, pendingRequests, shipBucket, frame,
              userFault>>

Bucket == 0..(MAX_BUCKETS - 1)

(* An entry may be a null pointer: operator[] puts one where none was. *)
UserInfo  == [entry : {"none", "null", "user"}, id : 0..MaxShip,
              addressed : BOOLEAN]
NoEntry   == [entry |-> "none", id |-> 0, addressed |-> FALSE]
NullEntry == [entry |-> "null", id |-> 0, addressed |-> FALSE]
NewUser == [entry |-> "user", id |-> 0, addressed |-> FALSE]

UserTypeOK ==
    /\ usersInfo \in [Client -> UserInfo]
    /\ pendingUsers \in Seq(Client)
    /\ pendingRequests \in 0..MaxRequests
    /\ shipBucket \in [Bucket -> SUBSET Client]
    /\ frame \in Bucket
    /\ userFault \in {"none", "no pending user", "null user"}

UserInit ==
    /\ usersInfo = [c \in Client |-> NoEntry]
    /\ pendingUsers = <<>>
    /\ pendingRequests = 0
    /\ shipBucket = [b \in Bucket |-> {}]
    /\ frame = 0
    /\ userFault = "none"

-----------------------------------------------------------------------------
HasUser(c) == usersInfo[c].entry = "user"

(* usersInfo[key]: reading an absent key inserts a null user. *)
Touched(c) == IF usersInfo[c].entry = "none" THEN NullEntry ELSE usersInfo[c]

(* A user with no server address yet: the packet goes nowhere. *)
ToGame(c, command) ==
    IF usersInfo[c].addressed
    THEN {Reliable("game", command, c, usersInfo[c].id)} ELSE {}

(* The first bucket with the fewest users. *)
Size(b) == Cardinality(shipBucket[b])
MutLeastBucketFirst == 0
LeastBucket ==
    CHOOSE b \in Bucket : /\ \A o \in Bucket : Size(b) <= Size(o)
                          /\ \A o \in Bucket : Size(o) = Size(b) => b <= o

WithUser(c) == [shipBucket EXCEPT ![LeastBucket] = @ \cup {c}]

(* pendingUsers.pop() *)
MutOthersPendingAll == pendingUsers
OthersPending == Tail(pendingUsers)

MutNextBucketUnbounded(f) == f + 1
MutNextBucketEarly(f) == IF f + 1 >= MAX_BUCKETS - 1 THEN 0 ELSE f + 1
NextBucket(f) == IF f + 1 >= MAX_BUCKETS THEN 0 ELSE f + 1

(* removeUserEndpoint looks for the user bucket by bucket, up to the first *)
(* that holds it.                                                          *)
MutWithoutUserForgets(c) == shipBucket
WithoutUser(c) ==
    [b \in Bucket |-> IF \A o \in Bucket : o < b => c \notin shipBucket[o]
                      THEN shipBucket[b] \ {c} ELSE shipBucket[b]]

(* The packets that open a user's way to the game, with the answer of the  *)
(* master, and, once it has a ship, the user's own.                        *)
RequestServer == Reliable("master", "REQUEST_ADDRESS", "user", 0)
GameAddress   == Plain("user", "ADDRESS", "nobody", 0)
JoinServer(c) == Reliable("game", "JOIN", c, 0)
Ready(c, id)  == Reliable(c, "READY", c, id)

-----------------------------------------------------------------------------
(* processAddressResponse, nobody waits for an address: front() of an      *)
(* empty queue.                                                            *)
AddressForNobody(m) ==
    /\ m.command = "ADDRESS"
    /\ pendingUsers = <<>>
    /\ Handle(m, {})
    /\ userFault' = "no pending user"
    /\ UNCHANGED <<usersInfo, pendingUsers, pendingRequests, shipBucket, frame>>

(* The user who waits longest gets the address, if it is still there.      *)
(* serverIP is built with the two bytes of the packet's header before the  *)
(* digits, so c_str() is empty and packets go to 0.0.0.0, this very host:  *)
(* the game server is reached because it runs there.                       *)
ProcessAddressResponse(m) ==
    LET c == Head(pendingUsers)
    IN  /\ m.command = "ADDRESS"
        /\ pendingUsers # <<>>
        /\ pendingRequests' = pendingRequests - 1
        /\ pendingUsers' = OthersPending
        /\ IF HasUser(c)
           THEN /\ usersInfo' = [usersInfo EXCEPT ![c].addressed = TRUE]
                /\ Handle(m, {JoinServer(c)})
                /\ UNCHANGED userFault
           ELSE /\ usersInfo' = [usersInfo EXCEPT ![c] = Touched(c)]
                /\ Handle(m, {})
                /\ userFault' = "null user"
        /\ UNCHANGED <<shipBucket, frame>>

(* createUserEndpoint, for a key that has no entry at all. *)
CreateUserEndpoint(m) ==
    /\ m.command = "JOIN"
    /\ usersInfo[m.about].entry = "none"
    /\ pendingRequests < MaxRequests
    /\ usersInfo' = [usersInfo EXCEPT ![m.about] = NewUser]
    /\ pendingUsers' = Append(pendingUsers, m.about)
    /\ pendingRequests' = pendingRequests + 1
    /\ Handle(m, {RequestServer})
    /\ UNCHANGED <<shipBucket, frame, userFault>>

IgnoreJoin(m) ==
    /\ m.command = "JOIN"
    /\ usersInfo[m.about].entry # "none"
    /\ Handle(m, {})
    /\ UNCHANGED userVars

(* The game server has the client: tell it. *)
SendJoined(m) ==
    /\ m.command = "JOINED"
    /\ Handle(m, IF HasUser(m.about)
                 THEN {Reliable(m.about, "JOINED", m.about, 0)} ELSE {})
    /\ UNCHANGED userVars

(* The game server gave the user a ship: it is served from now on.         *)
(* Without a user, sendReady leaves a null one behind.                     *)
ProcessID(m) ==
    /\ m.command = "ID"
    /\ IF HasUser(m.about)
       THEN /\ usersInfo' = [usersInfo EXCEPT ![m.about].id = m.id]
            /\ shipBucket' = WithUser(m.about)
            /\ Handle(m, {Ready(m.about, m.id)})
       ELSE /\ usersInfo' = [usersInfo EXCEPT ![m.about] = Touched(m.about)]
            /\ UNCHANGED shipBucket
            /\ Handle(m, {})
    /\ UNCHANGED <<pendingUsers, pendingRequests, frame, userFault>>

(* sendDisconnect and removeUserEndpoint. *)
Disconnect(m) ==
    /\ m.command = "DISCONNECT"
    /\ Handle(m, IF HasUser(m.about) THEN ToGame(m.about, "DISCONNECT")
                                     ELSE {})
    /\ shipBucket' = WithoutUser(m.about)
    /\ usersInfo' = [usersInfo EXCEPT ![m.about] = NoEntry]
    /\ UNCHANGED <<pendingUsers, pendingRequests, frame, userFault>>

(* sendSelectShip prints user->id before it looks whether there is a user. *)
SelectShip(m) ==
    /\ m.command = "SELECT_SHIP"
    /\ Handle(m, IF HasUser(m.about) THEN ToGame(m.about, "SELECT_SHIP")
                                     ELSE {})
    /\ userFault' = IF HasUser(m.about) THEN userFault ELSE "null user"
    /\ UNCHANGED <<usersInfo, pendingUsers, pendingRequests, shipBucket, frame>>

(* sendTurn ... sendFire: FIRE stands for the commands passed on alike. *)
ForwardCommand(m) ==
    /\ m.command = "FIRE"
    /\ Handle(m, IF HasUser(m.about) THEN ToGame(m.about, "FIRE") ELSE {})
    /\ UNCHANGED userVars

(* sendUse builds a packet, looking the user up by getID, and drops it. *)
Use(m) ==
    /\ m.command = "USE"
    /\ Handle(m, {})
    /\ usersInfo' = [usersInfo EXCEPT ![m.about] = Touched(m.about)]
    /\ UNCHANGED <<pendingUsers, pendingRequests, shipBucket, frame, userFault>>

UserHandler(m) ==
    /\ userFault = "none"
    /\ m.to = "user"
    /\ \/ AddressForNobody(m)
       \/ ProcessAddressResponse(m)
       \/ CreateUserEndpoint(m)
       \/ IgnoreJoin(m)
       \/ SendJoined(m)
       \/ ProcessID(m)
       \/ Disconnect(m)
       \/ SelectShip(m)
       \/ ForwardCommand(m)
       \/ Use(m)

(* The next frame: its bucket gets the universe (STATE, by plain Send). *)
NextFrame ==
    /\ userFault = "none"
    /\ frame' = NextBucket(frame)
    /\ UNCHANGED <<usersInfo, pendingUsers, pendingRequests, shipBucket,
                   userFault, net>>

(* sendRequestServer counts another request; the stale one stays counted. *)
MutRepeatedOnly == pendingRequests
Repeated == pendingRequests + 1

(* The request daemon finds that the oldest request is over a second old,  *)
(* and makes another one.                                                  *)
RetryRequest ==
    /\ Slow
    /\ userFault = "none"
    /\ pendingRequests \in 1..(MaxRequests - 1)
    /\ pendingRequests' = Repeated
    /\ Emit({RequestServer})
    /\ UNCHANGED <<usersInfo, pendingUsers, shipBucket, frame, userFault>>
=============================================================================
