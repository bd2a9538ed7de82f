----------------------------- MODULE SpaceQuest -----------------------------
(***************************************************************************)
(* The processes of a game together: the master, one user server, one game *)
(* server and the clients, over a network that delivers what ReliableChannel*)
(* promises for reliable messages and may lose the others.                 *)
(***************************************************************************)
EXTENDS MasterServer, UserServer, GameServer, GameClient

CONSTANT Prepared      \* do the servers register before a client starts?

(* An answer that was lost, or never given, is late: the request daemon    *)
(* asks again.  All answers are in time only where none goes astray.       *)
ASSUME PreparedAssumption ==
    /\ Prepared \in BOOLEAN
    /\ ~Slow => /\ ~Lossy /\ Prepared
                /\ MaxMasterStarts = 0 /\ {"user", "game"} \subseteq Running

vars == <<net, masterVars, userVars, gameVars, clientVars>>

(* The servers have called home (sendNotifyActive) when the play begins. *)
Init ==
    /\ net = SetToBag(CallsOf(Running))
    /\ MasterInit
    /\ UserInit
    /\ GameInit
    /\ ClientInit

-----------------------------------------------------------------------------
(* A server takes one of the packets M from its socket. *)
MasterStep  == /\ \E m \in InFlight : MasterHandler(m)
               /\ UNCHANGED <<userVars, gameVars, clientVars>>
UserStep(M) == /\ \E m \in M : UserHandler(m)
               /\ UNCHANGED <<masterVars, gameVars, clientVars>>
GameStep(M) == /\ \E m \in M : GameHandler(m)
               /\ UNCHANGED <<masterVars, userVars, clientVars>>
ClientStep(c) == /\ \E m \in InFlight : ClientHandler(c, m)
                 /\ UNCHANGED <<masterVars, userVars, gameVars>>

ShotStep    == FireOnce /\ UNCHANGED <<masterVars, userVars, clientVars>>
FrameStep   == NextFrame /\ UNCHANGED <<masterVars, gameVars, clientVars>>
RetryStep   == RetryRequest /\ UNCHANGED <<masterVars, gameVars, clientVars>>
RestartStep == RestartMaster /\ UNCHANGED <<userVars, gameVars, clientVars>>

MayStart     == Prepared => registered = Running
StartStep(c) == /\ MayStart
                /\ Start(c)
                /\ UNCHANGED <<masterVars, userVars, gameVars>>

PlayerStep(c) == /\ \/ Interrupt(c)
                    \/ \E command \in Sends : Move(c, command)
                 /\ UNCHANGED <<masterVars, userVars, gameVars>>

(* A plain message is lost, or a reliable one whose sender's process, and  *)
(* so its daemon, is gone.                                                 *)
Orphaned(m) == /\ m.to = "user" /\ m.reliable
               /\ ~IsOn(m.about)
LoseStep == /\ Lossy
            /\ \E m \in InFlight : /\ ~m.reliable \/ Orphaned(m)
                                   /\ Drop(m)
            /\ UNCHANGED <<masterVars, userVars, gameVars, clientVars>>

(* All but the start of a client. *)
PlayStep == \/ MasterStep
            \/ UserStep(InFlight)
            \/ GameStep(InFlight)
            \/ ShotStep
            \/ \E c \in Client : ClientStep(c) \/ PlayerStep(c)
            \/ FrameStep
            \/ RetryStep
            \/ RestartStep
            \/ LoseStep

Next == PlayStep \/ \E c \in Client : StartStep(c)

Spec == Init /\ [][Next]_vars

(* Every process keeps polling its socket, and the user server its frames. *)
(* A socket's queue is read in order, so the commands of the clients that  *)
(* play, of which there is no end, do not keep the others from joining.    *)
Joining == {m \in InFlight : m.command \notin Sends}
Playing == InFlight \ Joining

Fairness ==
    /\ WF_vars(MasterStep)
    /\ WF_vars(UserStep(Joining))
    /\ WF_vars(UserStep(Playing))
    /\ WF_vars(GameStep(Joining))
    /\ WF_vars(GameStep(Playing))
    /\ WF_vars(FrameStep)
    /\ \A c \in Client : WF_vars(ClientStep(c))

FairSpec == Spec /\ Fairness

-----------------------------------------------------------------------------
(* Properties. *)

TypeOK == /\ NetworkTypeOK
          /\ MasterTypeOK
          /\ UserTypeOK
          /\ GameTypeOK
          /\ ClientTypeOK

(* Every user waiting for an address is covered by a request that is still *)
(* counted as pending, so the daemon keeps asking while anybody waits.     *)
PendingUsersAreCovered ==
    userFault = "none" => Len(pendingUsers) <= pendingRequests

(* However many requests were repeated, lost or answered late, each        *)
(* question and each answer on its way is still counted as pending: the    *)
(* pop of pendingRequests, which comes before the look at pendingUsers,    *)
(* never meets an empty queue (processAddressResponse).                    *)
AnswersAreCounted ==
    Copies(RequestServer) + Copies(GameAddress) <= pendingRequests

(* The place whose id the user server has for a user holds that user's own *)
(* ship: the commands it passes on never move the ship of another client.  *)
UsersSteerTheirOwnShips ==
    \A c \in Client :
        HasUser(c) /\ usersInfo[c].id # 0
            => /\ usersInfo[c].id \in DOMAIN entities
               /\ entities[usersInfo[c].id] = c

(* A place that is offered again is used by nobody. *)
AvailableIsUnused ==
    \A i \in DOMAIN available, c \in Client :
        HasUser(c) /\ usersInfo[c].id # 0 => available[i] # Place(usersInfo[c].id)

(* Nor is it offered twice, so no two clients are ever given one ship. *)
FreePlacesAreFree ==
    /\ AvailableIsUnused
    /\ \A i, j \in DOMAIN available :
          i # j /\ available[i] # -1 => available[i] # available[j]

(* Whoever has a ship is served in exactly one frame, and nobody is served *)
(* who is not a user: addUserToBucket and removeUserEndpoint keep the      *)
(* buckets and usersInfo in step.                                          *)
ServedOnce ==
    \A c \in Client :
        Cardinality({b \in Bucket : c \in shipBucket[b]})
            = IF HasUser(c) /\ usersInfo[c].id # 0 THEN 1 ELSE 0

(* A command that makes a ship fire was sent by the client the ship was    *)
(* made for, although the game server knows it by its place only.          *)
CommandsReachTheirShip ==
    [][\A m \in InFlight :
          HandleFire(m) /\ entities' # entities => entities[m.id] = m.about]_vars

(* While nobody leaves, the load of the frames differs by one at most. *)
BucketsAreBalanced ==
    \A b, o \in Bucket : Size(b) <= Size(o) + 1

(* A client is told READY once in its life, so its thread starts once. *)
NoClientAborts == \A c \in Client : client[c].status # "aborted"

(* A started client comes to play, and then gets the universe again and    *)
(* again.                                                                  *)
ClientsComeToPlay ==
    \A c \in Client : IsOn(c) ~> client[c].active
PlayersAreServed ==
    \A c \in Client : client[c].active ~> []<>(c \in shipBucket[frame])

(* What comments of the code say, and the code does only while no request  *)
(* is repeated and no user leaves; AvailableIsUnused is one more of them   *)
(* ("We have unused indexes, pull off one"), while no DISCONNECT is        *)
(* delivered twice.                                                        *)

(* "Grab our first user": there is one when an address arrives. *)
AddressFindsItsUser == userFault # "no pending user"
(* "Grab the userinfo, and set the addresses": it is there. *)
AddressFindsUserInfo ==
    [][\A m \in InFlight : ProcessAddressResponse(m) => HasUser(Head(pendingUsers))]_vars
(* "check to see if we have a user": a JOIN is ignored for users only. *)
JoinIgnoredForUsersOnly ==
    [][\A m \in InFlight : IgnoreJoin(m) => HasUser(m.about)]_vars
=============================================================================
