-------------------------- MODULE SpaceQuestProofs --------------------------
(***************************************************************************)
(* Proofs about the processes of the game together, for any number of      *)
(* clients, ships, frames and requests.                                    *)
(***************************************************************************)
EXTENDS SpaceQuestLogin, TLAPS, SequenceTheorems

-----------------------------------------------------------------------------
(* What sending and receiving do to the bag of messages in flight.         *)

(* What is left once m has been received: all the rest, and at least as    *)
(* much of m as with one copy less.                                        *)
LEMMA RestOfBag ==
    ASSUME IsABag(net), NEW m \in InFlight, NEW rest \in AfterReceiving(m)
    PROVE  /\ IsABag(rest)
           /\ DOMAIN rest \subseteq InFlight
           /\ \A x \in InFlight :
                 x # m => x \in DOMAIN rest /\ rest[x] = net[x]
           /\ IF m \in DOMAIN rest
              THEN \/ rest[m] = net[m] - 1
                   \/ m.reliable /\ m.command \in Redelivered
              ELSE net[m] = 1
<1>1. CASE rest = net (-) SetToBag({m})
  <2>1. /\ DOMAIN rest = {d \in DOMAIN net :
                             (IF d = m THEN net[d] - 1 ELSE net[d]) > 0}
        /\ \A d \in DOMAIN rest :
              rest[d] = IF d = m THEN net[d] - 1 ELSE net[d]
    BY <1>1 DEF SetToBag, (-)
  <2>2. \A d \in DOMAIN net : net[d] \in Nat /\ net[d] > 0
    BY DEF IsABag
  <2>3. rest = [d \in DOMAIN rest |-> rest[d]]
    BY <1>1 DEF (-)
  <2>4. IsABag(rest)
    BY <2>1, <2>2, <2>3 DEF IsABag
  <2> QED BY <2>1, <2>2, <2>4 DEF InFlight, BagToSet
<1>2. CASE rest = net /\ m.reliable /\ m.command \in Redelivered
  BY <1>2 DEF InFlight, BagToSet
<1> QED BY <1>1, <1>2 DEF AfterReceiving

(* A handler receives a message that was in flight, and nothing is then in *)
(* flight but what was, and what it sent.                                  *)
LEMMA HandleFlight ==
    ASSUME IsABag(net), NEW m, NEW out, Handle(m, out)
    PROVE  /\ IsABag(net')
           /\ m \in InFlight
           /\ InFlight' \subseteq InFlight \cup out
<1>1. PICK rest \in AfterReceiving(m) : net' = rest (+) SetToBag(out)
  BY DEF Handle
<1>2. m \in InFlight /\ IsABag(rest) /\ DOMAIN rest \subseteq InFlight
  BY RestOfBag DEF Handle
<1>3. IsABag(net') /\ InFlight' = DOMAIN rest \cup out
  BY <1>1, <1>2 DEF IsABag, (+), SetToBag, InFlight, BagToSet
<1> QED BY <1>2, <1>3

(* A handler changes the number of the messages it receives and sends, by  *)
(* one, and of no others; only a message that may be delivered again may   *)
(* keep its number.                                                        *)
LEMMA HandleCopies ==
    ASSUME IsABag(net), NEW m, NEW out, Handle(m, out), NEW x
    PROVE  LET sent == IF x \in out THEN 1 ELSE 0
           IN  \/ Copies(x)' = Copies(x) - (IF x = m THEN 1 ELSE 0) + sent
               \/ /\ x = m /\ m.reliable /\ m.command \in Redelivered
                  /\ Copies(x)' = Copies(x) + sent
<1>1. PICK rest \in AfterReceiving(m) : net' = rest (+) SetToBag(out)
  BY DEF Handle
<1>2. m \in InFlight /\ rest \in AfterReceiving(m)
  BY <1>1 DEF Handle
<1> DEFINE left == IF x \in DOMAIN rest THEN rest[x] ELSE 0
<1>3. Copies(x)' = left + (IF x \in out THEN 1 ELSE 0)
  BY <1>1, <1>2, RestOfBag DEF Copies, InFlight, BagToSet, (+), SetToBag, IsABag
<1>4. CASE rest = net (-) SetToBag({m})
  <2>1. left = Copies(x) - (IF x = m THEN 1 ELSE 0)
    BY <1>2, <1>4 DEF SetToBag, (-), Copies, InFlight, BagToSet, IsABag
  <2> QED BY <1>3, <2>1
<1>5. CASE rest = net /\ m.reliable /\ m.command \in Redelivered
  <2>1. left = Copies(x) /\ Copies(x) \in Nat
    BY <1>5 DEF Copies, InFlight, BagToSet, IsABag
  <2> QED BY <1>3, <1>5, <2>1
<1> QED BY <1>2, <1>4, <1>5 DEF AfterReceiving

(* A process that sends of its own accord adds one of each message.        *)
LEMMA EmitFlight ==
    ASSUME IsABag(net), NEW out, Emit(out)
    PROVE  /\ IsABag(net')
           /\ InFlight' = InFlight \cup out
           /\ \A x : Copies(x)' = Copies(x) + (IF x \in out THEN 1 ELSE 0)
BY DEF Emit, IsABag, InFlight, BagToSet, Copies, (+), SetToBag

(* A loss takes one message.                                               *)
LEMMA DropFlight ==
    ASSUME IsABag(net), NEW m, Drop(m)
    PROVE  /\ IsABag(net')
           /\ InFlight' \subseteq InFlight
           /\ \A x : Copies(x)' = Copies(x) - (IF x = m THEN 1 ELSE 0)
<1>1. /\ DOMAIN net' = {d \in DOMAIN net :
                           (IF d = m THEN net[d] - 1 ELSE net[d]) > 0}
      /\ \A d \in DOMAIN net' : net'[d] = IF d = m THEN net[d] - 1 ELSE net[d]
  BY DEF Drop, SetToBag, (-)
<1>2. net' = [d \in DOMAIN net' |-> net'[d]]
  BY DEF Drop, (-)
<1>3. IsABag(net') /\ InFlight' \subseteq InFlight
  BY <1>1, <1>2 DEF IsABag, InFlight, BagToSet
<1>4. ASSUME NEW x PROVE Copies(x)' = Copies(x) - (IF x = m THEN 1 ELSE 0)
  BY <1>1 DEF Copies, IsABag, InFlight, BagToSet, Drop
<1> QED BY <1>3, <1>4

(* Messages are counted in naturals, and those in flight are there.        *)
LEMMA CopiesType ==
    ASSUME IsABag(net), NEW x
    PROVE  Copies(x) \in Nat /\ (x \in InFlight <=> Copies(x) > 0)
BY DEF Copies, IsABag, InFlight, BagToSet

(* At first there are the messages that were sent first.                   *)
LEMMA FirstFlight ==
    ASSUME NEW out, net = SetToBag(out)
    PROVE  IsABag(net) /\ InFlight = out
BY DEF SetToBag, IsABag, InFlight, BagToSet

-----------------------------------------------------------------------------
(* The messages that are ever in flight.                                   *)

(* Which server a message may be about, that it comes from a client        *)
(* wherever a handler takes it to, and that a client gets its own only.    *)
ProperMessage ==
    {m \in Message :
        /\ m.to = "master" /\ m.command = "INITIALIZE" => m.about \in Running
        /\ m.to = "login" /\ m.command = "INITIALIZE"
             => m.about \in Client /\ m = LoginRequest(m.about)
        /\ m.command = "REQUEST_ADDRESS" => m \in {RequestServer, RequestUserServer}
        /\ m.command = "ADDRESS" => /\ ~m.reliable
                                    /\ m.to \in Client \cup {"login", "user"}
        /\ m.command = "ADDRESS" /\ m.to \in {"login", "user"}
             => m = Plain(m.to, "ADDRESS", "nobody", 0)
        /\ m.to \in Client => m.about = m.to
        /\ m.command \in {"JOIN", "JOINED", "ID", "DISCONNECT", "SELECT_SHIP",
                          "FIRE", "USE", "READY"} => m.about \in Client
        /\ m.command = "ID" => m = IDPacket(m.about, m.id)
        /\ m.command = "DISCONNECT" /\ m.to = "game" => m.reliable}

FlightInv == IsABag(net) /\ InFlight \subseteq ProperMessage

(* A field of a proper message.                                            *)
LEMMA ProperFields ==
    ASSUME NEW m \in ProperMessage
    PROVE  /\ m.to \in Server \cup Client
           /\ m.command \in Command
           /\ m.about \in Server \cup Client \cup {"nobody"}
           /\ m.id \in 0..MaxShip
           /\ m.reliable \in BOOLEAN
BY DEF ProperMessage, Message

(* What the processes send is proper.                                      *)
LEMMA ProperToServers ==
    ASSUME NEW c \in Client
    PROVE  {LoginRequest(c), JoinRequest(c), ShipRequest(c), Farewell(c),
            JoinServer(c), JoinedPacket(c), RequestServer, RequestUserServer}
                \subseteq ProperMessage
BY NetworkAssumption
   DEF ProperMessage, Message, Server, Command, Plain, Reliable, LoginRequest,
       JoinRequest, ShipRequest, Farewell, JoinServer, JoinedPacket, IDPacket,
       RequestServer, RequestUserServer
LEMMA ProperToClients ==
    ASSUME NEW c \in Client, NEW id \in 0..MaxShip
    PROVE  {Plain(c, "ADDRESS", c, 0), Reliable(c, "JOINED", c, 0), Ready(c, id)}
                \subseteq ProperMessage
BY NetworkAssumption
   DEF ProperMessage, Message, Server, Command, Plain, Reliable, Ready, IDPacket,
       RequestServer, RequestUserServer
LEMMA ProperID ==
    ASSUME NEW c \in Client, NEW id \in 0..MaxShip
    PROVE  IDPacket(c, id) \in ProperMessage
BY NetworkAssumption
   DEF ProperMessage, Message, Server, Command, Plain, Reliable, IDPacket
LEMMA ProperCommands ==
    ASSUME NEW c \in Client, NEW id \in 0..MaxShip,
           NEW command \in {"DISCONNECT", "SELECT_SHIP", "FIRE"}
    PROVE  Reliable("game", command, c, id) \in ProperMessage
BY NetworkAssumption
   DEF ProperMessage, Message, Server, Command, Plain, Reliable, IDPacket
LEMMA ProperMoves ==
    ASSUME NEW c \in Client, NEW command \in {"FIRE", "USE"}
    PROVE  Reliable("user", command, c, 0) \in ProperMessage
BY NetworkAssumption
   DEF ProperMessage, Message, Server, Command, Plain, Reliable, IDPacket
LEMMA ProperCalls == CallsOf(Running) \subseteq ProperMessage
<1> SUFFICES ASSUME NEW s \in Running
             PROVE  Plain("master", "INITIALIZE", s, 0) \in ProperMessage
  BY DEF CallsOf
<1> QED BY NetworkAssumption, MasterAssumption
        DEF ProperMessage, Message, Server, Command, Plain, RequestServer,
            RequestUserServer, IDPacket
LEMMA ProperAnswers ==
    ASSUME NEW s \in {"login", "user"}
    PROVE  Plain(s, "ADDRESS", "nobody", 0) \in ProperMessage
BY NetworkAssumption
   DEF ProperMessage, Message, Server, Command, Plain, IDPacket

(* A handler that sends proper messages keeps the flight proper.           *)
LEMMA HandleProper ==
    ASSUME FlightInv, NEW m, NEW out \in SUBSET ProperMessage, Handle(m, out)
    PROVE  FlightInv' /\ m \in ProperMessage /\ m \in InFlight
BY HandleFlight DEF FlightInv

-----------------------------------------------------------------------------
(* Types, and the requests that cover the waiting users.                   *)

(* The master only registers servers that run.                             *)
LEMMA MasterPreserves ==
    ASSUME FlightInv, MasterTypeOK, NEW m, MasterHandler(m)
    PROVE  FlightInv' /\ MasterTypeOK'
<1>1. CASE RegisterServer(m)
  <2>1. FlightInv' /\ m \in ProperMessage
    BY <1>1, HandleProper DEF RegisterServer
  <2>2. m.about \in Running
    BY <1>1, <2>1 DEF RegisterServer, MasterHandler, ProperMessage
  <2> QED BY <1>1, <2>1, <2>2 DEF RegisterServer, MasterTypeOK
<1>2. CASE IgnoreRequest(m)
  BY <1>2, HandleProper DEF IgnoreRequest, MasterTypeOK, masterVars
<1>3. CASE AnswerRequest(m)
  <2>1. m \in ProperMessage
    BY <1>3, HandleFlight DEF AnswerRequest, FlightInv
  <2>2. m.about \in {"login", "user"}
    BY <1>3, <2>1 DEF AnswerRequest, ProperMessage, RequestServer,
       RequestUserServer, Reliable, Plain
  <2>3. FlightInv'
    BY <1>3, <2>2, ProperAnswers, HandleProper DEF AnswerRequest
  <2> QED BY <1>3, <2>3 DEF AnswerRequest, MasterTypeOK, masterVars
<1>4. CASE AnswerFromNothing(m)
  BY <1>4, HandleProper DEF AnswerFromNothing, MasterTypeOK
<1> QED BY <1>1, <1>2, <1>3, <1>4 DEF MasterHandler

LEMMA OneSetMore ==
    ASSUME NEW B, NEW C, NEW f \in [B -> SUBSET C], NEW b, NEW c \in C
    PROVE  [f EXCEPT ![b] = @ \cup {c}] \in [B -> SUBSET C]
<1>1. CASE b \in B
  <2>1. f[b] \cup {c} \in SUBSET C
    BY <1>1
  <2> QED BY <2>1
<1>2. CASE b \notin B
  BY <1>2
<1> QED BY <1>1, <1>2

LEMMA UserInfoTypes ==
    /\ {NoEntry, NullEntry, NewUser} \subseteq UserInfo
    /\ UserTypeOK => \A c \in Client : /\ Touched(c) \in UserInfo
                                       /\ usersInfo[c] \in UserInfo
                                       /\ usersInfo[c].id \in 0..MaxShip
<1>1. {NoEntry, NullEntry, NewUser} \subseteq UserInfo
  BY NetworkAssumption DEF NoEntry, NullEntry, NewUser, UserInfo
<1>2. ASSUME UserTypeOK, NEW c \in Client
      PROVE  Touched(c) \in UserInfo /\ usersInfo[c] \in UserInfo
  BY <1>1, <1>2 DEF UserTypeOK, Touched
<1>3. \A info \in UserInfo : info.id \in 0..MaxShip
  BY DEF UserInfo
<1> QED BY <1>1, <1>2, <1>3

(* createUserEndpoint and the request daemon count a request for every     *)
(* user they queue, and processAddressResponse takes one of each.          *)
LEMMA UserPreserves ==
    ASSUME FlightInv, UserTypeOK, PendingUsersAreCovered, NEW m, UserHandler(m)
    PROVE  FlightInv' /\ UserTypeOK' /\ PendingUsersAreCovered'
<1> USE DEF PendingUsersAreCovered
<1>0. /\ m \in ProperMessage
      /\ m.command \in {"JOIN", "JOINED", "ID", "DISCONNECT", "SELECT_SHIP",
                        "FIRE", "USE"} => m.about \in Client
      /\ m.id \in 0..MaxShip
      /\ userFault = "none"
  <2>1. \E out : Handle(m, out)
    BY DEF UserHandler, AddressForNobody, ProcessAddressResponse,
       CreateUserEndpoint, IgnoreJoin, SendJoined, ProcessID, Disconnect,
       SelectShip, ForwardCommand, Use
  <2>2. m \in ProperMessage
    BY <2>1, HandleFlight DEF FlightInv
  <2> QED BY <2>2, ProperFields DEF ProperMessage, UserHandler
<1>1. CASE AddressForNobody(m)
  BY <1>1, HandleProper DEF AddressForNobody, UserTypeOK
<1>2. CASE ProcessAddressResponse(m)
  <2> DEFINE c == Head(pendingUsers)
  <2>1. c \in Client /\ Tail(pendingUsers) \in Seq(Client)
        /\ Len(Tail(pendingUsers)) = Len(pendingUsers) - 1
        /\ Len(pendingUsers) \in Nat \ {0}
    BY <1>2, HeadTailProperties, EmptySeq DEF ProcessAddressResponse, UserTypeOK
  <2>2. pendingRequests - 1 \in 0..MaxRequests
    BY <1>0, <2>1, UserAssumption DEF UserTypeOK
  <2>3. FlightInv'
    BY <1>2, <2>1, HandleProper, ProperToServers DEF ProcessAddressResponse
  <2>4. usersInfo' \in [Client -> UserInfo]
    <3>1. CASE HasUser(c)
      <4>1. [usersInfo[c] EXCEPT !.addressed = TRUE] \in UserInfo
        BY <2>1, UserInfoTypes DEF UserInfo
      <4>2. usersInfo' = [usersInfo EXCEPT
                             ![c] = [usersInfo[c] EXCEPT !.addressed = TRUE]]
        BY <1>2, <3>1 DEF ProcessAddressResponse
      <4> QED BY <4>1, <4>2 DEF UserTypeOK
    <3>2. CASE ~HasUser(c)
      BY <1>2, <2>1, <3>2, UserInfoTypes DEF ProcessAddressResponse, UserTypeOK
    <3> QED BY <3>1, <3>2
  <2>5. userFault' \in {"none", "null user"}
    BY <1>0, <1>2 DEF ProcessAddressResponse
  <2>6. UserTypeOK'
    BY <1>2, <2>1, <2>2, <2>4, <2>5
       DEF ProcessAddressResponse, OthersPending, UserTypeOK
  <2>7. Len(pendingUsers') <= pendingRequests'
    <3>1. Len(pendingUsers) <= pendingRequests /\ pendingRequests \in Int
      BY <1>0 DEF UserTypeOK
    <3>2. pendingUsers' = Tail(pendingUsers) /\ pendingRequests' = pendingRequests - 1
      BY <1>2 DEF ProcessAddressResponse, OthersPending
    <3> QED BY <2>1, <3>1, <3>2
  <2> QED BY <2>3, <2>6, <2>7
<1>3. CASE CreateUserEndpoint(m)
  <2>1. m.about \in Client
    BY <1>0, <1>3 DEF CreateUserEndpoint
  <2>2. FlightInv'
    BY <1>3, <2>1, HandleProper, ProperToServers DEF CreateUserEndpoint
  <2> DEFINE q == Append(pendingUsers, m.about)
  <2>3. /\ q \in Seq(Client)
        /\ Len(q) = Len(pendingUsers) + 1
        /\ Len(pendingUsers) \in Nat
    <3>1. pendingUsers \in Seq(Client)
      BY DEF UserTypeOK
    <3> QED BY <2>1, <3>1, AppendProperties, LenProperties
  <2>4. pendingUsers' = q
    BY <1>3 DEF CreateUserEndpoint
  <2> HIDE DEF q
  <2>5. UserTypeOK'
    <3>1. usersInfo' \in [Client -> UserInfo]
      BY <1>3, <2>1, UserInfoTypes DEF CreateUserEndpoint, UserTypeOK
    <3>2. pendingRequests' \in 0..MaxRequests
      <4>1. /\ pendingRequests \in 0..MaxRequests
            /\ pendingRequests < MaxRequests
            /\ pendingRequests' = pendingRequests + 1
        BY <1>3 DEF CreateUserEndpoint, UserTypeOK
      <4> QED BY <4>1, UserAssumption
    <3> QED BY <1>3, <2>3, <2>4, <3>1, <3>2 DEF CreateUserEndpoint, UserTypeOK
  <2>6. Len(pendingUsers') <= pendingRequests'
    <3>1. Len(pendingUsers) <= pendingRequests /\ pendingRequests \in Int
      BY <1>0 DEF UserTypeOK
    <3>2. pendingRequests' = pendingRequests + 1
      BY <1>3 DEF CreateUserEndpoint
    <3> QED BY <2>3, <2>4, <3>1, <3>2
  <2> QED BY <2>2, <2>5, <2>6
<1>4. CASE IgnoreJoin(m)
  BY <1>4, HandleProper DEF IgnoreJoin, UserTypeOK, userVars
<1>5. CASE SendJoined(m)
  <2>1. m.about \in Client /\ 0 \in 0..MaxShip
    BY <1>0, <1>5, NetworkAssumption DEF SendJoined
  <2>2. FlightInv'
    BY <1>5, <2>1, HandleProper, ProperToClients DEF SendJoined
  <2> QED BY <1>5, <2>2 DEF SendJoined, UserTypeOK, userVars
<1>6. CASE ProcessID(m)
  <2>1. m.about \in Client /\ m.id \in 0..MaxShip
    BY <1>0, <1>6 DEF ProcessID
  <2>2. FlightInv'
    BY <1>6, <2>1, HandleProper, ProperToClients DEF ProcessID
  <2>3. usersInfo' \in [Client -> UserInfo]
    <3>1. CASE HasUser(m.about)
      <4>1. [usersInfo[m.about] EXCEPT !.id = m.id] \in UserInfo
        BY <2>1, UserInfoTypes DEF UserInfo
      <4>2. usersInfo' = [usersInfo EXCEPT
                             ![m.about] = [usersInfo[m.about] EXCEPT !.id = m.id]]
        BY <1>6, <3>1 DEF ProcessID
      <4> QED BY <4>1, <4>2 DEF UserTypeOK
    <3>2. CASE ~HasUser(m.about)
      BY <1>6, <2>1, <3>2, UserInfoTypes DEF ProcessID, UserTypeOK
    <3> QED BY <3>1, <3>2
  <2>4. shipBucket' \in [Bucket -> SUBSET Client]
    <3>1. WithUser(m.about) \in [Bucket -> SUBSET Client]
      BY <2>1, OneSetMore DEF UserTypeOK, WithUser
    <3> QED BY <1>6, <3>1 DEF ProcessID, UserTypeOK
  <2> QED BY <1>6, <2>2, <2>3, <2>4 DEF ProcessID, UserTypeOK
<1>7. CASE Disconnect(m)
  <2>1. m.about \in Client
    BY <1>0, <1>7 DEF Disconnect
  <2>2. usersInfo[m.about].id \in 0..MaxShip
    BY <2>1, UserInfoTypes
  <2>3. ToGame(m.about, "DISCONNECT") \subseteq ProperMessage
    BY <2>1, <2>2, ProperCommands DEF ToGame
  <2>4. FlightInv'
    BY <1>7, <2>3, HandleProper DEF Disconnect
  <2>5. shipBucket' \in [Bucket -> SUBSET Client]
    BY <1>7 DEF Disconnect, WithoutUser, UserTypeOK
  <2>6. usersInfo' \in [Client -> UserInfo]
    BY <1>7, UserInfoTypes DEF Disconnect, UserTypeOK
  <2> QED BY <1>7, <2>4, <2>5, <2>6 DEF Disconnect, UserTypeOK
<1>8. CASE SelectShip(m)
  <2>1. m.about \in Client
    BY <1>0, <1>8 DEF SelectShip
  <2>2. ToGame(m.about, "SELECT_SHIP") \subseteq ProperMessage
    BY <2>1, ProperCommands, UserInfoTypes DEF ToGame
  <2>3. FlightInv'
    BY <1>8, <2>2, HandleProper DEF SelectShip
  <2> QED BY <1>0, <1>8, <2>3 DEF SelectShip, UserTypeOK
<1>9. CASE ForwardCommand(m)
  <2>1. m.about \in Client
    BY <1>0, <1>9 DEF ForwardCommand
  <2>2. ToGame(m.about, "FIRE") \subseteq ProperMessage
    BY <2>1, ProperCommands, UserInfoTypes DEF ToGame
  <2>3. FlightInv'
    BY <1>9, <2>2, HandleProper DEF ForwardCommand
  <2> QED BY <1>9, <2>3 DEF ForwardCommand, UserTypeOK, userVars
<1>10. CASE Use(m)
  <2>1. m.about \in Client
    BY <1>0, <1>10 DEF Use
  <2>2. FlightInv'
    BY <1>10, HandleProper DEF Use
  <2>3. usersInfo' \in [Client -> UserInfo]
    BY <1>10, <2>1, UserInfoTypes DEF Use, UserTypeOK
  <2> QED BY <1>10, <2>2, <2>3 DEF Use, UserTypeOK
<1> QED BY <1>1, <1>2, <1>3, <1>4, <1>5, <1>6, <1>7, <1>8, <1>9, <1>10
        DEF UserHandler

(* The request daemon asks again, and counts that too.                     *)
LEMMA RetryPreserves ==
    ASSUME FlightInv, UserTypeOK, PendingUsersAreCovered, RetryRequest
    PROVE  FlightInv' /\ UserTypeOK' /\ PendingUsersAreCovered'
<1>1. FlightInv'
  <2>1. RequestServer \in ProperMessage
    BY NetworkAssumption
       DEF RequestServer, Reliable, ProperMessage, Message, Server, Command
  <2> QED BY <2>1, EmitFlight DEF RetryRequest, FlightInv
<1>2. /\ pendingRequests \in 1..(MaxRequests - 1)
      /\ pendingRequests' = pendingRequests + 1
  BY DEF RetryRequest, Repeated
<1>3. pendingRequests' \in 0..MaxRequests
  BY <1>2, UserAssumption
<1>4. UserTypeOK'
  BY <1>3 DEF RetryRequest, Repeated, UserTypeOK
<1>5. PendingUsersAreCovered'
  <2>1. /\ Len(pendingUsers) <= pendingRequests
        /\ Len(pendingUsers) \in Nat
        /\ pendingUsers' = pendingUsers
    BY LenProperties
       DEF RetryRequest, Repeated, PendingUsersAreCovered, UserTypeOK
  <2> QED BY <1>2, <2>1 DEF PendingUsersAreCovered
<1> QED BY <1>1, <1>4, <1>5

(* The next frame has a bucket.                                            *)
LEMMA FramePreserves ==
    ASSUME FlightInv, UserTypeOK, PendingUsersAreCovered, NextFrame
    PROVE  FlightInv' /\ UserTypeOK' /\ PendingUsersAreCovered'
<1>1. frame' \in Bucket
  BY UserAssumption DEF NextFrame, NextBucket, UserTypeOK, Bucket
<1> QED BY <1>1 DEF NextFrame, FlightInv, InFlight, UserTypeOK,
        PendingUsersAreCovered

(* The entities stay within the ids that a packet holds.                   *)
LEMMA ShootTypes ==
    ASSUME NEW id, GameTypeOK, Shoot(id)
    PROVE  entities' \in Seq(Entity) /\ Len(entities') <= MaxShip
<1>1. CASE UNCHANGED entities
  BY <1>1 DEF GameTypeOK
<1>2. CASE entities' = Append(entities, "bullet") /\ Len(entities) < MaxShip
  <2>1. entities \in Seq(Entity) /\ "bullet" \in Entity
    BY DEF GameTypeOK, Entity
  <2>2. /\ Append(entities, "bullet") \in Seq(Entity)
        /\ Len(Append(entities, "bullet")) = Len(entities) + 1
        /\ Len(entities) \in Nat
    BY <2>1, AppendProperties, LenProperties
  <2> QED BY <1>2, <2>2, NetworkAssumption
<1> QED BY <1>1, <1>2 DEF Shoot

(* selectShip, disconnect and handleFire of the game server.               *)
LEMMA GamePreserves ==
    ASSUME FlightInv, GameTypeOK, NEW m, GameHandler(m)
    PROVE  FlightInv' /\ GameTypeOK'
<1>0. /\ m \in ProperMessage
      /\ m.command \in {"JOIN", "SELECT_SHIP", "DISCONNECT", "FIRE"}
           => m.about \in Client
      /\ m.id \in 0..MaxShip
  <2>1. \E out : Handle(m, out)
    BY DEF GameHandler, Join, TakePlace, AddPlace, KeepShip, Leave, HandleFire
  <2>2. m \in ProperMessage
    BY <2>1, HandleFlight DEF FlightInv
  <2> QED BY <2>2, ProperFields DEF ProperMessage
<1>1. CASE Join(m)
  <2>1. m.about \in Client
    BY <1>0, <1>1 DEF Join
  <2>2. FlightInv'
    BY <1>1, <2>1, HandleProper, ProperToServers DEF Join
  <2> QED BY <1>1, <2>1, <2>2 DEF Join, GameTypeOK
<1>2. CASE TakePlace(m)
  <2> DEFINE n == Head(available)
  <2>1. /\ m.about \in Client
        /\ n \in 0..(MaxShip - 1)
        /\ Tail(available) \in Seq(-1..(MaxShip - 1))
    <3>1. available \in Seq(-1..(MaxShip - 1)) /\ available # <<>> /\ n >= 0
      BY <1>2 DEF TakePlace, GameTypeOK
    <3> QED BY <1>0, <1>2, <3>1, HeadTailProperties, NetworkAssumption
            DEF TakePlace
  <2>2. n + 1 \in 0..MaxShip
    BY <2>1, NetworkAssumption
  <2>3. FlightInv'
    BY <1>2, <2>1, <2>2, HandleProper, ProperID DEF TakePlace, IdAt
  <2>4. /\ entities' = [entities EXCEPT ![n + 1] = m.about]
        /\ available' = Tail(available)
        /\ UNCHANGED <<users, fired>>
    BY <1>2 DEF TakePlace, OthersAvailable
  <2>5. entities' \in Seq(Entity) /\ Len(entities') <= MaxShip
    <3>1. /\ entities \in Seq(Entity) /\ Len(entities) <= MaxShip
          /\ m.about \in Entity
      BY <2>1 DEF GameTypeOK, Entity
    <3>2. CASE n + 1 \in 1..Len(entities)
      BY <2>4, <3>1, <3>2, ExceptSeq
    <3>3. CASE n + 1 \notin 1..Len(entities)
      <4>1. entities' = entities
        BY <2>4, <3>1, <3>3, LenProperties
      <4> QED BY <3>1, <4>1
    <3> QED BY <3>2, <3>3
  <2> QED BY <2>1, <2>3, <2>4, <2>5 DEF GameTypeOK
<1>3. CASE AddPlace(m)
  <2>1. m.about \in Client /\ m.about \in Entity
    BY <1>0, <1>3 DEF AddPlace, Entity
  <2>2. /\ entities \in Seq(Entity)
        /\ Len(entities) \in Nat /\ Len(entities) < MaxShip
        /\ Append(entities, m.about) \in Seq(Entity)
        /\ Len(Append(entities, m.about)) = Len(entities) + 1
    <3>1. entities \in Seq(Entity) /\ Len(entities) < MaxShip
      BY <1>3 DEF AddPlace, GameTypeOK
    <3> QED BY <2>1, <3>1, AppendProperties, LenProperties
  <2>3. IdAt(Len(entities)) \in 0..MaxShip
    BY <2>2, NetworkAssumption DEF IdAt
  <2>4. FlightInv'
    BY <1>3, <2>1, <2>3, HandleProper, ProperID DEF AddPlace
  <2>5. entities' \in Seq(Entity) /\ Len(entities') <= MaxShip
    <3>1. entities' = Append(entities, m.about)
      BY <1>3 DEF AddPlace
    <3> QED BY <2>2, <3>1, NetworkAssumption
  <2>6. available' \in Seq(-1..(MaxShip - 1))
    <3>1. available \in Seq(-1..(MaxShip - 1))
      BY DEF GameTypeOK
    <3> QED BY <1>3, <3>1, HeadTailProperties DEF AddPlace, OthersAvailable
  <2> QED BY <1>3, <2>4, <2>5, <2>6 DEF AddPlace, GameTypeOK
<1>4. CASE KeepShip(m)
  BY <1>4, HandleProper DEF KeepShip, GameTypeOK, gameVars
<1>5. CASE Leave(m)
  <2>1. Place(m.id) \in -1..(MaxShip - 1)
    BY <1>0, NetworkAssumption DEF Place
  <2>2. available' \in Seq(-1..(MaxShip - 1))
    <3>1. available \in Seq(-1..(MaxShip - 1))
      BY DEF GameTypeOK
    <3>2. available' = Append(available, Place(m.id))
      BY <1>5 DEF Leave
    <3> QED BY <2>1, <3>1, <3>2, AppendProperties
  <2> QED BY <1>5, <2>2, HandleProper DEF Leave, GameTypeOK
<1>6. CASE HandleFire(m)
  <2>1. FlightInv' /\ UNCHANGED <<available, users, fired>>
    BY <1>6, HandleProper DEF HandleFire
  <2>2. entities' \in Seq(Entity) /\ Len(entities') <= MaxShip
    BY <1>6, ShootTypes DEF HandleFire
  <2> QED BY <2>1, <2>2 DEF GameTypeOK
<1> QED BY <1>1, <1>2, <1>3, <1>4, <1>5, <1>6 DEF GameHandler

(* A client is off, on, or has aborted.                                    *)
LEMMA ProcessTypes ==
    /\ {Off, Fresh, Aborted} \subseteq Process
    /\ \A p \in Process : /\ [p EXCEPT !.addressed = TRUE] \in Process
                          /\ [p EXCEPT !.active = TRUE] \in Process
<1>1. {Off, Fresh, Aborted} \subseteq Process
  BY DEF Off, Fresh, Aborted, Process
<1>2. ASSUME NEW p \in Process
      PROVE  [p EXCEPT !.addressed = TRUE] \in Process
  BY DEF Process
<1>3. ASSUME NEW p \in Process
      PROVE  [p EXCEPT !.active = TRUE] \in Process
  BY DEF Process
<1> QED BY <1>1, <1>2, <1>3

LEMMA ClientPreserves ==
    ASSUME FlightInv, ClientTypeOK, NEW c \in Client, NEW m, ClientHandler(c, m)
    PROVE  FlightInv' /\ ClientTypeOK'
<1>1. client \in [Client -> Process] /\ client[c] \in Process
  BY DEF ClientTypeOK
<1>2. CASE TakeAddress(c, m)
  <2>1. [client[c] EXCEPT !.addressed = TRUE] \in Process
    BY <1>1, ProcessTypes
  <2> QED BY <1>1, <1>2, <2>1, HandleProper, ProperToServers
          DEF TakeAddress, ClientTypeOK
<1>3. CASE ChooseShip(c, m)
  <2>1. FlightInv'
    BY <1>3, HandleProper, ProperToServers DEF ChooseShip
  <2> QED BY <1>1, <1>3, <2>1, ProcessTypes DEF ChooseShip, ClientTypeOK
<1>4. CASE GetReady(c, m)
  <2>1. FlightInv'
    BY <1>4, HandleProper DEF GetReady
  <2>2. [client[c] EXCEPT !.active = TRUE] \in Process
    BY <1>1, ProcessTypes
  <2>3. client' = [client EXCEPT ![c] = IF client[c].active THEN Aborted
                                  ELSE [client[c] EXCEPT !.active = TRUE]]
    BY <1>4 DEF GetReady
  <2> QED BY <1>1, <1>4, <2>1, <2>2, <2>3, ProcessTypes DEF GetReady, ClientTypeOK
<1> QED BY <1>2, <1>3, <1>4 DEF ClientHandler

LEMMA PlayerPreserves ==
    ASSUME FlightInv, ClientTypeOK, NEW c \in Client,
           Interrupt(c) \/ \E command \in Sends : Move(c, command)
    PROVE  FlightInv' /\ ClientTypeOK'
<1>1. client \in [Client -> Process]
  BY DEF ClientTypeOK
<1>2. CASE Interrupt(c)
  <2>1. PICK out \in SUBSET {Farewell(c)} : Emit(out)
    BY <1>2 DEF Interrupt
  <2>2. FlightInv'
    BY <2>1, EmitFlight, ProperToServers DEF FlightInv
  <2> QED BY <1>1, <1>2, <2>2, ProcessTypes DEF Interrupt, ClientTypeOK
<1>3. ASSUME NEW command \in Sends, Move(c, command)
      PROVE  FlightInv' /\ ClientTypeOK'
  <2>1. command \in {"FIRE", "USE"}
    BY ClientAssumption
  <2>2. FlightInv'
    <3>1. CASE Emit({Reliable("user", command, c, 0)})
      BY <2>1, <3>1, EmitFlight, ProperMoves DEF FlightInv
    <3>2. CASE UNCHANGED net
      BY <3>2 DEF FlightInv, InFlight
    <3> QED BY <1>3, <3>1, <3>2 DEF Move
  <2> QED BY <1>1, <1>3, <2>2, ProcessTypes DEF Move, ClientTypeOK
<1> QED BY <1>2, <1>3

LEMMA BeginPreserves ==
    ASSUME FlightInv, ClientTypeOK, NEW c \in Client, NEW out \in SUBSET ProperMessage,
           Begin(c, out)
    PROVE  FlightInv' /\ ClientTypeOK'
<1>1. FlightInv'
  BY EmitFlight DEF Begin, FlightInv
<1>2. client' \in [Client -> Process]
  BY ProcessTypes DEF Begin, ClientTypeOK
<1>3. starts' \in [Client -> 0..MaxStarts]
  <2>1. starts[c] \in 0..MaxStarts /\ starts[c] < MaxStarts
    BY DEF Begin, ClientTypeOK
  <2>2. starts[c] + 1 \in 0..MaxStarts
    BY <2>1, ClientAssumption
  <2> QED BY <2>2 DEF Begin, ClientTypeOK
<1> QED BY <1>1, <1>2, <1>3 DEF ClientTypeOK

-----------------------------------------------------------------------------
(* The processes together.                                                 *)

TypeInv == /\ FlightInv
           /\ MasterTypeOK
           /\ UserTypeOK
           /\ PendingUsersAreCovered
           /\ GameTypeOK
           /\ ClientTypeOK

(* Before anybody plays there are the servers' calls only.                 *)
LEMMA TypeInvInit == Init => TypeInv
<1> SUFFICES ASSUME Init PROVE TypeInv
  OBVIOUS
<1>1. FlightInv
  BY FirstFlight, ProperCalls DEF Init, FlightInv
<1>2. MasterTypeOK
  <2>1. registered \subseteq Running
    BY DEF Init, MasterInit
  <2>2. masterFault \in BOOLEAN
    BY DEF Init, MasterInit
  <2>3. masterStarts \in 0..MaxMasterStarts
    BY MasterAssumption DEF Init, MasterInit
  <2> QED BY <2>1, <2>2, <2>3 DEF MasterTypeOK
<1>3. UserTypeOK /\ PendingUsersAreCovered
  <2>1. 0 \in Bucket /\ 0 \in 0..MaxRequests
    BY UserAssumption DEF Bucket
  <2> QED BY <2>1, UserInfoTypes, EmptySeq
          DEF Init, UserInit, UserTypeOK, PendingUsersAreCovered
<1>4. GameTypeOK
  <2>1. Spawned \in Nat /\ Spawned <= MaxShip
    BY NetworkAssumption, GameAssumption
  <2>2. entities \in [1..Spawned -> Entity]
    BY DEF Init, GameInit, Entity
  <2>3. entities \in Seq(Entity) /\ Len(entities) = Spawned
    BY <2>1, <2>2
  <2> QED BY <2>1, <2>3, EmptySeq DEF Init, GameInit, GameTypeOK
<1>5. ClientTypeOK
  BY ProcessTypes, ClientAssumption DEF Init, ClientInit, ClientTypeOK
<1> QED BY <1>1, <1>2, <1>3, <1>4, <1>5 DEF TypeInv

(* Every step but the start of a client.                                   *)
LEMMA PlayPreserves == TypeInv /\ PlayStep => TypeInv'
<1> SUFFICES ASSUME TypeInv, PlayStep PROVE TypeInv'
  OBVIOUS
<1> USE DEF TypeInv
<1>m. ASSUME UNCHANGED masterVars PROVE MasterTypeOK'
  BY <1>m DEF masterVars, MasterTypeOK
<1>u. ASSUME UNCHANGED userVars PROVE UserTypeOK' /\ PendingUsersAreCovered'
  BY <1>u DEF userVars, UserTypeOK, PendingUsersAreCovered
<1>g. ASSUME UNCHANGED gameVars PROVE GameTypeOK'
  BY <1>g DEF gameVars, GameTypeOK
<1>c. ASSUME UNCHANGED clientVars PROVE ClientTypeOK'
  BY <1>c DEF clientVars, ClientTypeOK
<1>1. CASE MasterStep
  BY <1>1, <1>u, <1>g, <1>c, MasterPreserves DEF MasterStep
<1>2. CASE UserStep(InFlight)
  BY <1>2, <1>m, <1>g, <1>c, UserPreserves DEF UserStep
<1>3. CASE GameStep(InFlight)
  BY <1>3, <1>m, <1>u, <1>c, GamePreserves DEF GameStep
<1>4. CASE ShotStep
  <2>1. FlightInv'
    BY <1>4 DEF ShotStep, FireOnce, FlightInv, InFlight
  <2>2. GameTypeOK'
    BY <1>4, ShootTypes DEF ShotStep, FireOnce, GameTypeOK
  <2> QED BY <1>4, <1>m, <1>u, <1>c, <2>1, <2>2 DEF ShotStep
<1>5. ASSUME NEW c \in Client, ClientStep(c) \/ PlayerStep(c) PROVE TypeInv'
  <2>1. CASE ClientStep(c)
    BY <2>1, <1>m, <1>u, <1>g, ClientPreserves DEF ClientStep
  <2>2. CASE PlayerStep(c)
    BY <2>2, <1>m, <1>u, <1>g, PlayerPreserves DEF PlayerStep
  <2> QED BY <1>5, <2>1, <2>2
<1>6. CASE FrameStep
  BY <1>6, <1>m, <1>g, <1>c, FramePreserves DEF FrameStep
<1>7. CASE RetryStep
  BY <1>7, <1>m, <1>g, <1>c, RetryPreserves DEF RetryStep
<1>8. CASE RestartStep
  <2>1. FlightInv'
    BY <1>8, EmitFlight, ProperCalls DEF RestartStep, RestartMaster, FlightInv
  <2>2. MasterTypeOK'
    <3>1. masterStarts \in 0..MaxMasterStarts /\ masterStarts < MaxMasterStarts
      BY <1>8 DEF RestartStep, RestartMaster, MasterTypeOK
    <3>2. masterStarts + 1 \in 0..MaxMasterStarts
      BY <3>1, MasterAssumption
    <3>3. registered' = {} /\ masterStarts' = masterStarts + 1
      BY <1>8 DEF RestartStep, RestartMaster
    <3>4. masterFault' \in BOOLEAN
      BY <1>8 DEF RestartStep, RestartMaster
    <3> QED BY <3>2, <3>3, <3>4 DEF MasterTypeOK
  <2> QED BY <1>8, <1>u, <1>g, <1>c, <2>1, <2>2 DEF RestartStep
<1>9. CASE LoseStep
  <2>1. FlightInv'
    BY <1>9, DropFlight DEF LoseStep, FlightInv
  <2> QED BY <1>9, <1>m, <1>u, <1>g, <1>c, <2>1 DEF LoseStep
<1> QED BY <1>1, <1>2, <1>3, <1>4, <1>5, <1>6, <1>7, <1>8, <1>9 DEF PlayStep

LEMMA StartPreserves ==
    ASSUME TypeInv, NEW c \in Client, StartStep(c) \/ LogInStep(c)
    PROVE  TypeInv'
<1>1. PICK out \in SUBSET ProperMessage : Begin(c, out)
  BY ProperToClients, ProperToServers, NetworkAssumption
     DEF StartStep, LogInStep, Start, LogIn
<1>2. FlightInv' /\ ClientTypeOK'
  BY <1>1, BeginPreserves DEF TypeInv
<1> QED BY <1>2 DEF TypeInv, StartStep, LogInStep, masterVars, userVars, gameVars,
        MasterTypeOK, UserTypeOK, PendingUsersAreCovered, GameTypeOK

LEMMA TypeInvNext == TypeInv /\ [Next]_vars => TypeInv'
<1>1. TypeInv /\ UNCHANGED vars => TypeInv'
  BY DEF TypeInv, vars, masterVars, userVars, gameVars, clientVars, FlightInv,
     InFlight, MasterTypeOK, UserTypeOK, PendingUsersAreCovered, GameTypeOK,
     ClientTypeOK
<1> QED BY <1>1, PlayPreserves, StartPreserves DEF Next

LEMMA TypeInvariant == Spec => []TypeInv
BY TypeInvInit, TypeInvNext, PTL DEF Spec

(* All four programs keep the types of their state, and all messages those *)
(* of the protocol, whatever is lost, repeated, or started again.          *)
THEOREM SpaceQuestTypeCorrect == Spec => []TypeOK
<1>1. TypeInv => TypeOK
  BY DEF TypeInv, TypeOK, FlightInv, NetworkTypeOK, ProperMessage
<1> QED BY <1>1, TypeInvariant, PTL

(* The user server never has more users waiting for a game server than     *)
(* requests that it counts as pending: while anybody waits, its daemon     *)
(* keeps asking.                                                           *)
THEOREM WaitingUsersAreCovered == Spec => []PendingUsersAreCovered
<1>1. TypeInv => PendingUsersAreCovered
  BY DEF TypeInv
<1> QED BY <1>1, TypeInvariant, PTL

-----------------------------------------------------------------------------
(* Places: one owner each.                                                 *)
(*                                                                         *)
(* The id of a ship is held by the user that has it, by the ID packet that *)
(* brings it, by the DISCONNECT that gives it back, or by the queue of     *)
(* places to be used again.  Each step passes it from one to the next, or  *)
(* loses it; only a DISCONNECT that comes twice makes two holders of one.  *)

HoldsPlace(m) == /\ m.id # 0
                 /\ \/ m.command = "ID"
                    \/ m.command = "DISCONNECT" /\ m.to = "game"
Owns(c)       == HasUser(c) /\ usersInfo[c].id # 0

(* The holders of ids, and the ships that they are the ids of.             *)
HeldInv ==
    /\ \A m \in InFlight : HoldsPlace(m) =>
          /\ Copies(m) = 1
          /\ m.id \in DOMAIN entities
          /\ m.command = "ID" => entities[m.id] = m.about
    /\ \A c \in Client : Owns(c) =>
          /\ usersInfo[c].id \in DOMAIN entities
          /\ entities[usersInfo[c].id] = c
    /\ \A i \in DOMAIN available :
          available[i] # -1 => IdAt(available[i]) \in DOMAIN entities

(* No id has two.                                                          *)
OneHolder ==
    /\ \A m, o \in InFlight :
          HoldsPlace(m) /\ HoldsPlace(o) /\ m.id = o.id => m = o
    /\ \A m \in InFlight, c \in Client :
          HoldsPlace(m) /\ Owns(c) => m.id # usersInfo[c].id
    /\ \A m \in InFlight, i \in DOMAIN available :
          HoldsPlace(m) => m.id # IdAt(available[i])
    /\ \A c \in Client, i \in DOMAIN available :
          Owns(c) => usersInfo[c].id # IdAt(available[i])
    /\ \A i, j \in DOMAIN available :
          i # j /\ available[i] # -1 => available[i] # available[j]

PlacesInv == HeldInv /\ OneHolder

(* The packets that hold an id are counted exactly.                        *)
LEMMA HandleHeld ==
    ASSUME FlightInv, "DISCONNECT" \notin Redelivered, NEW m, NEW out,
           Handle(m, out), NEW x, HoldsPlace(x)
    PROVE  Copies(x)' = Copies(x) - (IF x = m THEN 1 ELSE 0)
                                  + (IF x \in out THEN 1 ELSE 0)
<1>1. IsABag(net) /\ m \in ProperMessage
  BY HandleFlight DEF FlightInv
<1>2. ~(x = m /\ m.reliable /\ m.command \in Redelivered)
  BY <1>1 DEF HoldsPlace, ProperMessage, IDPacket, Plain
<1> QED BY <1>1, <1>2, HandleCopies

LEMMA FlightCounted ==
    ASSUME FlightInv, FlightInv'
    PROVE  \A x : /\ Copies(x) \in Nat /\ (x \in InFlight <=> Copies(x) > 0)
                  /\ Copies(x)' \in Nat /\ (x \in InFlight' <=> Copies(x)' > 0)
<1>1. IsABag(net) /\ IsABag(net')
  BY DEF FlightInv
<1> QED BY <1>1 DEF Copies, InFlight, IsABag, BagToSet

(* A step that adds no holder, and no more than adds ships to those there  *)
(* are, keeps all ids with one holder.                                     *)
LEMMA FewerHolders ==
    ASSUME FlightInv, FlightInv', PlacesInv, UNCHANGED available,
           \A x : HoldsPlace(x) => Copies(x)' <= Copies(x),
           \A c \in Client : Owns(c)' =>
               Owns(c) /\ usersInfo'[c].id = usersInfo[c].id,
           \A id \in DOMAIN entities :
               id \in DOMAIN entities' /\ entities'[id] = entities[id]
    PROVE  PlacesInv'
<1>1. \A x : /\ Copies(x) \in Nat /\ (x \in InFlight <=> Copies(x) > 0)
             /\ Copies(x)' \in Nat /\ (x \in InFlight' <=> Copies(x)' > 0)
  BY FlightCounted
<1>2. ASSUME NEW m \in InFlight', HoldsPlace(m)
      PROVE  m \in InFlight /\ Copies(m)' = 1
  <2>1. Copies(m)' <= Copies(m) /\ m \in InFlight
    BY <1>1, <1>2
  <2>2. Copies(m) = 1
    BY <1>2, <2>1 DEF PlacesInv, HeldInv
  <2> QED BY <1>1, <1>2, <2>1, <2>2
<1>3. HeldInv'
  BY <1>2 DEF PlacesInv, HeldInv, HoldsPlace, IdAt
<1>4. OneHolder'
  BY <1>2 DEF PlacesInv, OneHolder, HoldsPlace, IdAt
<1> QED BY <1>3, <1>4 DEF PlacesInv

(* A handler that sends nobody an id or a farewell adds no holder.         *)
LEMMA HandleFewer ==
    ASSUME FlightInv, FlightInv', PlacesInv, "DISCONNECT" \notin Redelivered,
           NEW m, NEW out, Handle(m, out), \A x \in out : ~HoldsPlace(x),
           UNCHANGED available,
           \A c \in Client : Owns(c)' =>
               Owns(c) /\ usersInfo'[c].id = usersInfo[c].id,
           \A id \in DOMAIN entities :
               id \in DOMAIN entities' /\ entities'[id] = entities[id]
    PROVE  PlacesInv'
<1>1. ASSUME NEW x, HoldsPlace(x) PROVE Copies(x)' <= Copies(x)
  <2>1. Copies(x)' = Copies(x) - (IF x = m THEN 1 ELSE 0)
    BY <1>1, HandleHeld, FlightCounted
  <2> QED BY <2>1, FlightCounted
<1> QED BY <1>1, FewerHolders

(* processID: the id passes from its packet to the user.                   *)
LEMMA ProcessIDPlaces ==
    ASSUME FlightInv, FlightInv', UserTypeOK, PlacesInv,
           "DISCONNECT" \notin Redelivered,
           NEW m \in ProperMessage, ProcessID(m), UNCHANGED gameVars
    PROVE  PlacesInv'
<1>1. /\ m.about \in Client /\ m.id \in 0..MaxShip /\ m.command = "ID"
      /\ m \in InFlight
      /\ \A x : Ready(m.about, m.id) = x => ~HoldsPlace(x)
  BY ProperFields DEF ProcessID, ProperMessage, Handle, Ready, Reliable, HoldsPlace
<1>2. UNCHANGED <<entities, available>>
  BY DEF gameVars
<1>3. CASE HasUser(m.about) /\ m.id # 0
  <2>1. /\ usersInfo'[m.about].id = m.id
        /\ \A d \in Client \ {m.about} : usersInfo'[d] = usersInfo[d]
    <3>1. usersInfo \in [Client -> UserInfo] /\ usersInfo[m.about] \in UserInfo
      BY <1>1 DEF UserTypeOK
    <3>2. usersInfo' = [usersInfo EXCEPT
                           ![m.about] = [usersInfo[m.about] EXCEPT !.id = m.id]]
      BY <1>3 DEF ProcessID
    <3>3. [usersInfo[m.about] EXCEPT !.id = m.id].id = m.id
      BY <3>1 DEF UserInfo
    <3> QED BY <1>1, <3>1, <3>2, <3>3
  <2>2. HoldsPlace(m)
    BY <1>1, <1>3 DEF HoldsPlace
  <2>3. Handle(m, {Ready(m.about, m.id)})
    BY <1>3 DEF ProcessID
  <2>4. ASSUME NEW x, HoldsPlace(x)
        PROVE  Copies(x)' = Copies(x) - (IF x = m THEN 1 ELSE 0)
    <3>1. x \notin {Ready(m.about, m.id)}
      BY <1>1, <2>4
    <3> QED BY <2>3, <2>4, <3>1, HandleHeld, FlightCounted
  <2>5. /\ Copies(m) = 1 /\ m.id \in DOMAIN entities
        /\ entities[m.id] = m.about
    BY <1>1, <2>2 DEF PlacesInv, HeldInv
  <2>6. ASSUME NEW x \in InFlight', HoldsPlace(x)
        PROVE  x \in InFlight /\ x # m /\ Copies(x)' = Copies(x) /\ x.id # m.id
    <3>1. x # m
      BY <2>4, <2>5, <2>6, FlightCounted
    <3>2. x \in InFlight /\ Copies(x)' = Copies(x)
      BY <2>4, <2>6, <3>1, FlightCounted
    <3> QED BY <1>1, <2>2, <2>6, <3>1, <3>2 DEF PlacesInv, OneHolder
  <2>7. \A d \in Client \ {m.about} :
            Owns(d)' => Owns(d) /\ usersInfo'[d].id = usersInfo[d].id
                                /\ usersInfo[d].id # m.id
    BY <1>1, <2>1, <2>2 DEF Owns, HasUser, PlacesInv, OneHolder
  <2>8. HeldInv'
    BY <1>2, <2>1, <2>5, <2>6, <2>7 DEF PlacesInv, HeldInv, HoldsPlace, IdAt
  <2>9. OneHolder'
    BY <1>1, <1>2, <2>1, <2>2, <2>6, <2>7
       DEF PlacesInv, OneHolder, HoldsPlace, IdAt
  <2> QED BY <2>8, <2>9 DEF PlacesInv
<1>4. CASE ~(HasUser(m.about) /\ m.id # 0)
  <2>1. PICK out \in SUBSET {Ready(m.about, m.id)} : Handle(m, out)
    BY DEF ProcessID
  <2>2. ASSUME NEW c \in Client, Owns(c)'
        PROVE  Owns(c) /\ usersInfo'[c].id = usersInfo[c].id
    <3>1. CASE c # m.about
      BY <1>1, <2>2, <3>1 DEF ProcessID, Owns, HasUser, UserTypeOK
    <3>2. CASE c = m.about /\ HasUser(c)
      BY <1>1, <1>4, <2>2, <3>2 DEF ProcessID, Owns, UserTypeOK, UserInfo
    <3>3. CASE c = m.about /\ ~HasUser(c)
      <4>1. usersInfo'[c] = Touched(c)
        BY <1>1, <3>3 DEF ProcessID, UserTypeOK
      <4> QED BY <2>2, <3>3, <4>1 DEF Touched, NullEntry, Owns, HasUser
    <3> QED BY <3>1, <3>2, <3>3
  <2> QED BY <1>1, <1>2, <2>1, <2>2, HandleFewer
<1> QED BY <1>3, <1>4

(* sendDisconnect: the id passes from the user to the packet.              *)
LEMMA DisconnectPlaces ==
    ASSUME FlightInv, FlightInv', UserTypeOK, PlacesInv,
           "DISCONNECT" \notin Redelivered,
           NEW m \in ProperMessage, m.to = "user", Disconnect(m),
           UNCHANGED gameVars
    PROVE  PlacesInv'
<1> DEFINE c == m.about
           d == Reliable("game", "DISCONNECT", c, usersInfo[c].id)
<1>1. c \in Client /\ m.command = "DISCONNECT" /\ ~HoldsPlace(m)
  BY DEF Disconnect, ProperMessage, HoldsPlace
<1>2. UNCHANGED <<entities, available>>
  BY DEF gameVars
<1>3. /\ usersInfo'[c] = NoEntry
      /\ \A e \in Client \ {c} : usersInfo'[e] = usersInfo[e]
  BY <1>1 DEF Disconnect, UserTypeOK
<1>4. \A e \in Client : Owns(e)' => /\ e # c
                                    /\ Owns(e)
                                    /\ usersInfo'[e].id = usersInfo[e].id
  BY <1>3 DEF Owns, HasUser, NoEntry
<1>5. CASE Handle(m, {d}) /\ Owns(c)
  <2>1. HoldsPlace(d) /\ d.id = usersInfo[c].id /\ d.command = "DISCONNECT"
    BY <1>5 DEF HoldsPlace, Reliable, Owns
  <2>2. d.id \in DOMAIN entities /\ d \notin InFlight
    BY <1>1, <1>5, <2>1 DEF PlacesInv, HeldInv, OneHolder
  <2> HIDE DEF d
  <2>3. ASSUME NEW x \in InFlight', HoldsPlace(x)
        PROVE  \/ x = d /\ Copies(x)' = 1
               \/ x \in InFlight /\ Copies(x)' = Copies(x) /\ x.id # d.id
    <3>1. Copies(x)' = Copies(x) + (IF x = d THEN 1 ELSE 0)
      BY <1>1, <1>5, <2>3, HandleHeld, FlightCounted
    <3>2. CASE x = d
      BY <2>2, <3>1, <3>2, FlightCounted
    <3>3. CASE x # d
      <4>1. x \in InFlight /\ Copies(x)' = Copies(x)
        BY <2>3, <3>1, <3>3, FlightCounted
      <4> QED BY <1>1, <1>5, <2>1, <2>3, <4>1 DEF PlacesInv, OneHolder
    <3> QED BY <3>2, <3>3
  <2>4. \A e \in Client : Owns(e)' => usersInfo'[e].id # d.id
    BY <1>1, <1>4, <1>5, <2>1 DEF PlacesInv, HeldInv
  <2>5. \A i \in DOMAIN available : IdAt(available[i]) # d.id
    BY <1>1, <1>5, <2>1 DEF PlacesInv, OneHolder
  <2>6. HeldInv'
    BY <1>2, <1>4, <2>1, <2>2, <2>3 DEF PlacesInv, HeldInv, HoldsPlace, IdAt
  <2>7. OneHolder'
    BY <1>2, <1>4, <2>3, <2>4, <2>5 DEF PlacesInv, OneHolder, HoldsPlace, IdAt
  <2> QED BY <2>6, <2>7 DEF PlacesInv
<1>6. CASE ~(Handle(m, {d}) /\ Owns(c))
  <2>1. PICK out \in SUBSET {d} : Handle(m, out) /\ (out # {} => HasUser(c))
    BY DEF Disconnect, ToGame
  <2>2. \A x \in out : ~HoldsPlace(x)
    <3>1. out = {} \/ usersInfo[c].id = 0
      BY <1>6, <2>1 DEF Owns
    <3> QED BY <2>1, <3>1 DEF HoldsPlace, Reliable
  <2> QED BY <1>2, <1>4, <2>1, <2>2, HandleFewer
<1> QED BY <1>5, <1>6

(* The other packets a user server handles, and the JOIN that makes a user *)
(* without a ship.                                                         *)
LEMMA UserPlaces ==
    ASSUME FlightInv, FlightInv', UserTypeOK, PlacesInv,
           "DISCONNECT" \notin Redelivered,
           NEW m, UserHandler(m), UNCHANGED gameVars
    PROVE  PlacesInv'
<1>1. /\ m \in ProperMessage /\ m.to = "user"
      /\ m.command \in {"JOIN", "JOINED", "ID", "DISCONNECT", "SELECT_SHIP",
                        "FIRE", "USE"} => m.about \in Client
  <2>1. \E out : Handle(m, out)
    BY DEF UserHandler, AddressForNobody, ProcessAddressResponse,
       CreateUserEndpoint, IgnoreJoin, SendJoined, ProcessID, Disconnect,
       SelectShip, ForwardCommand, Use
  <2>2. m \in ProperMessage
    BY <2>1, HandleFlight DEF FlightInv
  <2> QED BY <2>2 DEF ProperMessage, UserHandler
<1>2. UNCHANGED <<entities, available>>
  BY DEF gameVars
<1>3. CASE ProcessID(m)
  BY <1>1, <1>3, ProcessIDPlaces
<1>4. CASE Disconnect(m)
  BY <1>1, <1>4, DisconnectPlaces
<1>5. ASSUME NEW out, Handle(m, out),
             \A x \in out : x.command \notin {"ID", "DISCONNECT"},
             \A c \in Client : \/ usersInfo'[c] = usersInfo[c]
                               \/ usersInfo'[c].id = 0
                               \/ usersInfo'[c].entry = "null"
                               \/ /\ usersInfo'[c].id = usersInfo[c].id
                                  /\ usersInfo'[c].entry = usersInfo[c].entry
      PROVE  PlacesInv'
  <2>1. \A x \in out : ~HoldsPlace(x)
    BY <1>5 DEF HoldsPlace
  <2>2. \A c \in Client : Owns(c)' =>
            Owns(c) /\ usersInfo'[c].id = usersInfo[c].id
    BY <1>5 DEF Owns, HasUser
  <2> QED BY <1>2, <1>5, <2>1, <2>2, HandleFewer
<1>6. CASE \/ AddressForNobody(m) \/ IgnoreJoin(m) \/ SendJoined(m)
           \/ SelectShip(m) \/ ForwardCommand(m)
  <2>1. UNCHANGED usersInfo
    BY <1>6 DEF AddressForNobody, IgnoreJoin, SendJoined, SelectShip,
       ForwardCommand, userVars
  <2>2. CASE AddressForNobody(m) \/ IgnoreJoin(m)
    <3>1. Handle(m, {})
      BY <2>2 DEF AddressForNobody, IgnoreJoin
    <3> QED BY <1>5, <2>1, <3>1
  <2>3. CASE SendJoined(m)
    <3>1. PICK out \in SUBSET {Reliable(m.about, "JOINED", m.about, 0)} :
              Handle(m, out)
      BY <2>3 DEF SendJoined
    <3>2. \A x \in out : x.command = "JOINED"
      BY DEF Reliable
    <3> QED BY <1>5, <2>1, <3>1, <3>2
  <2>4. CASE SelectShip(m) \/ ForwardCommand(m)
    <3>1. \/ \E out \in SUBSET ToGame(m.about, "SELECT_SHIP") : Handle(m, out)
          \/ \E out \in SUBSET ToGame(m.about, "FIRE") : Handle(m, out)
      <4>1. CASE SelectShip(m)
        BY <4>1 DEF SelectShip
      <4>2. CASE ForwardCommand(m)
        BY <4>2 DEF ForwardCommand
      <4> QED BY <2>4, <4>1, <4>2
    <3>2. /\ \A x \in ToGame(m.about, "SELECT_SHIP") : x.command = "SELECT_SHIP"
          /\ \A x \in ToGame(m.about, "FIRE") : x.command = "FIRE"
      BY DEF ToGame, Reliable
    <3>3. PICK out : /\ Handle(m, out)
                     /\ \A x \in out : x.command \notin {"ID", "DISCONNECT"}
      BY <3>1, <3>2
    <3> QED BY <1>5, <2>1, <3>3
  <2> QED BY <1>6, <2>2, <2>3, <2>4
<1>7. CASE ProcessAddressResponse(m)
  <2> DEFINE c == Head(pendingUsers)
  <2>1. CASE HasUser(c)
    <3>1. /\ Handle(m, {JoinServer(c)})
          /\ usersInfo' = [usersInfo EXCEPT
                              ![c] = [usersInfo[c] EXCEPT !.addressed = TRUE]]
      BY <1>7, <2>1 DEF ProcessAddressResponse
    <3>2. JoinServer(c).command = "JOIN"
      BY DEF JoinServer, Reliable
    <3>3. \A e \in Client :
              LET info == [usersInfo[e] EXCEPT !.addressed = TRUE]
              IN  info.id = usersInfo[e].id /\ info.entry = usersInfo[e].entry
      BY DEF UserTypeOK, UserInfo
    <3>4. \A e \in Client : \/ usersInfo'[e] = usersInfo[e]
                            \/ /\ usersInfo'[e].id = usersInfo[e].id
                               /\ usersInfo'[e].entry = usersInfo[e].entry
      BY <3>1, <3>3 DEF UserTypeOK
    <3> QED BY <1>5, <3>1, <3>2, <3>4
  <2>2. CASE ~HasUser(c)
    <3>1. Handle(m, {}) /\ usersInfo' = [usersInfo EXCEPT ![c] = Touched(c)]
      BY <1>7, <2>2 DEF ProcessAddressResponse
    <3>2. Touched(c).id = 0 \/ Touched(c) = usersInfo[c]
      BY DEF Touched, NullEntry
    <3>3. \A e \in Client : \/ usersInfo'[e] = usersInfo[e]
                            \/ usersInfo'[e].id = 0
      BY <3>1, <3>2 DEF UserTypeOK
    <3> QED BY <1>5, <3>1, <3>3
  <2> QED BY <2>1, <2>2
<1>8. CASE CreateUserEndpoint(m)
  <2>1. /\ Handle(m, {RequestServer})
        /\ usersInfo' = [usersInfo EXCEPT ![m.about] = NewUser]
    BY <1>8 DEF CreateUserEndpoint
  <2>2. RequestServer.command = "REQUEST_ADDRESS" /\ NewUser.id = 0
    BY DEF RequestServer, Reliable, NewUser
  <2>3. \A e \in Client : \/ usersInfo'[e] = usersInfo[e]
                          \/ usersInfo'[e].id = 0
    BY <2>1, <2>2 DEF UserTypeOK
  <2> QED BY <1>5, <2>1, <2>2, <2>3
<1>9. CASE Use(m)
  <2>1. /\ Handle(m, {})
        /\ usersInfo' = [usersInfo EXCEPT ![m.about] = Touched(m.about)]
    BY <1>9 DEF Use
  <2>2. Touched(m.about).id = 0 \/ Touched(m.about) = usersInfo[m.about]
    BY DEF Touched, NullEntry
  <2>3. \A e \in Client : \/ usersInfo'[e] = usersInfo[e]
                          \/ usersInfo'[e].id = 0
    BY <2>1, <2>2 DEF UserTypeOK
  <2> QED BY <1>5, <2>1, <2>3
<1> QED BY <1>3, <1>4, <1>6, <1>7, <1>8, <1>9
        DEF UserHandler

(* selectShip: the id passes from the queue, or none, to its packet.       *)
LEMMA SelectPlaces ==
    ASSUME FlightInv, FlightInv', UserTypeOK, GameTypeOK, PlacesInv,
           "DISCONNECT" \notin Redelivered,
           NEW m \in ProperMessage, NEW id \in Nat \ {0}, m.command = "SELECT_SHIP",
           Handle(m, {IDPacket(m.about, id)}), UNCHANGED userVars,
           \A x \in InFlight : HoldsPlace(x) => x.id # id,
           \A c \in Client : Owns(c) => usersInfo[c].id # id,
           \A i \in DOMAIN available' :
               /\ IdAt(available'[i]) # id
               /\ \E k \in DOMAIN available : available'[i] = available[k]
               /\ \A j \in DOMAIN available' :
                     i # j /\ available'[i] # -1 => available'[i] # available'[j],
           id \in DOMAIN entities', entities'[id] = m.about,
           \A k \in DOMAIN entities :
               /\ k \in DOMAIN entities'
               /\ k # id => entities'[k] = entities[k]
    PROVE  PlacesInv'
<1> DEFINE p == IDPacket(m.about, id)
<1>1. /\ HoldsPlace(p) /\ p.id = id /\ p.command = "ID" /\ p.about = m.about
      /\ ~HoldsPlace(m)
  BY DEF HoldsPlace, IDPacket, Plain
<1>2. p \notin InFlight /\ Handle(m, {p})
  BY <1>1
<1> HIDE DEF p
<1>3. ASSUME NEW x \in InFlight', HoldsPlace(x)
      PROVE  \/ x = p /\ Copies(x)' = 1
             \/ x \in InFlight /\ Copies(x)' = Copies(x) /\ x.id # id
  <2>1. Copies(x)' = Copies(x) + (IF x = p THEN 1 ELSE 0)
    BY <1>1, <1>2, <1>3, HandleHeld, FlightCounted
  <2>2. CASE x = p
    BY <1>2, <2>1, <2>2, FlightCounted
  <2>3. CASE x # p
    BY <1>3, <2>1, <2>3, FlightCounted
  <2> QED BY <2>2, <2>3
<1>4. \A c \in Client : Owns(c)' => /\ Owns(c)
                                    /\ usersInfo'[c].id = usersInfo[c].id
                                    /\ usersInfo[c].id # id
  BY DEF userVars, Owns, HasUser
<1>5. HeldInv'
  BY <1>1, <1>3, <1>4 DEF PlacesInv, HeldInv, HoldsPlace, IdAt
<1>6. OneHolder'
  BY <1>1, <1>3, <1>4 DEF PlacesInv, OneHolder, HoldsPlace, IdAt
<1> QED BY <1>5, <1>6 DEF PlacesInv

(* disconnect: the id passes from its packet to the queue, unless it is 0. *)
LEMMA LeavePlaces ==
    ASSUME FlightInv, FlightInv', GameTypeOK, PlacesInv,
           "DISCONNECT" \notin Redelivered,
           NEW m \in ProperMessage, m.to = "game", Leave(m), UNCHANGED userVars
    PROVE  PlacesInv'
<1>1. /\ Handle(m, {}) /\ m \in InFlight /\ m.command = "DISCONNECT"
      /\ m.id \in 0..MaxShip
      /\ HoldsPlace(m) <=> m.id # 0
  BY ProperFields DEF Leave, Handle, HoldsPlace
<1>2. \A c : /\ Owns(c)' <=> Owns(c)
             /\ usersInfo' = usersInfo
  BY DEF userVars, Owns, HasUser
<1>3. /\ DOMAIN available = 1..Len(available) /\ Len(available) \in Nat
      /\ DOMAIN available' = 1..(Len(available) + 1)
      /\ available'[Len(available) + 1] = m.id - 1
      /\ \A i \in 1..Len(available) : /\ available'[i] = available[i]
                                      /\ available[i] \in -1..(MaxShip - 1)
  <2>1. available \in Seq(-1..(MaxShip - 1)) /\ m.id - 1 \in -1..(MaxShip - 1)
    BY <1>1, NetworkAssumption DEF GameTypeOK
  <2>2. available' = Append(available, m.id - 1)
    BY DEF Leave, Place
  <2>3. /\ Append(available, m.id - 1) \in Seq(-1..(MaxShip - 1))
        /\ Len(Append(available, m.id - 1)) = Len(available) + 1
        /\ \A i \in 1..Len(available) : Append(available, m.id - 1)[i] = available[i]
        /\ Append(available, m.id - 1)[Len(available) + 1] = m.id - 1
    BY <2>1, AppendProperties
  <2>4. /\ DOMAIN available = 1..Len(available) /\ Len(available) \in Nat
        /\ \A i \in 1..Len(available) : available[i] \in -1..(MaxShip - 1)
    BY <2>1, LenProperties, ElementOfSeq
  <2>5. DOMAIN available' = 1..(Len(available) + 1)
    BY <2>2, <2>3, LenProperties
  <2> QED BY <2>2, <2>3, <2>4, <2>5
<1>4. UNCHANGED entities
  BY DEF Leave
<1>5. ASSUME NEW x \in InFlight', HoldsPlace(x)
      PROVE  x \in InFlight /\ Copies(x)' = 1 /\ x.id # m.id
  <2>1. Copies(x)' = Copies(x) - (IF x = m THEN 1 ELSE 0)
    BY <1>1, <1>5, HandleHeld, FlightCounted
  <2>2. x \in InFlight /\ Copies(x) = 1 /\ x # m
    BY <1>5, <2>1, FlightCounted DEF PlacesInv, HeldInv
  <2>3. x.id # m.id
    BY <1>1, <1>5, <2>2 DEF PlacesInv, OneHolder, HoldsPlace
  <2> QED BY <2>1, <2>2, <2>3
<1>6. \A c \in Client : Owns(c) => usersInfo[c].id # m.id
  BY <1>1 DEF PlacesInv, OneHolder, Owns
<1>7. \A i \in 1..Len(available) :
          available[i] # -1 => available[i] # m.id - 1
  <2>1. CASE m.id = 0
    BY <2>1
  <2>2. CASE m.id # 0
    <3>1. \A i \in 1..Len(available) : m.id # available[i] + 1
      BY <1>1, <1>3, <2>2 DEF PlacesInv, OneHolder, IdAt
    <3> QED BY <1>1, <1>3, <3>1
  <2> QED BY <2>1, <2>2
<1>8. m.id # 0 => m.id \in DOMAIN entities
  BY <1>1 DEF PlacesInv, HeldInv
<1>9. HeldInv'
  <2>1. \A i \in DOMAIN available' :
            available'[i] # -1 => available'[i] + 1 \in DOMAIN entities
    BY <1>1, <1>3, <1>8 DEF PlacesInv, HeldInv, IdAt
  <2> QED BY <1>2, <1>4, <1>5, <2>1 DEF PlacesInv, HeldInv, HoldsPlace, IdAt
<1>10. OneHolder'
  <2>1. \A x \in InFlight', i \in DOMAIN available' :
            HoldsPlace(x) => x.id # available'[i] + 1
    BY <1>1, <1>3, <1>5 DEF PlacesInv, OneHolder, IdAt
  <2>2. \A c \in Client, i \in DOMAIN available' :
            Owns(c) => usersInfo[c].id # available'[i] + 1
    BY <1>1, <1>3, <1>6 DEF PlacesInv, OneHolder, IdAt
  <2>3. \A i, j \in DOMAIN available' :
            i # j /\ available'[i] # -1 => available'[i] # available'[j]
    <3>1. \A i, j \in 1..Len(available) :
              i # j /\ available[i] # -1 => available[i] # available[j]
      BY <1>3 DEF PlacesInv, OneHolder
    <3> QED BY <1>1, <1>3, <1>7, <3>1
  <2> QED BY <1>2, <1>5, <2>1, <2>2, <2>3
          DEF PlacesInv, OneHolder, HoldsPlace, IdAt
<1> QED BY <1>9, <1>10 DEF PlacesInv

(* A shot adds a bullet, and moves nothing.                                *)
LEMMA ShootGrows ==
    ASSUME NEW id, GameTypeOK, Shoot(id)
    PROVE  \A k \in DOMAIN entities : /\ k \in DOMAIN entities'
                                      /\ entities'[k] = entities[k]
<1>1. CASE entities' = Append(entities, "bullet")
  <2>1. entities \in Seq(Entity) /\ "bullet" \in Entity
    BY DEF GameTypeOK, Entity
  <2> QED BY <1>1, <2>1, AppendProperties, LenProperties
<1>2. CASE UNCHANGED entities
  BY <1>2
<1> QED BY <1>1, <1>2 DEF Shoot

(* The packets a game server handles.                                      *)
LEMMA GamePlaces ==
    ASSUME FlightInv, FlightInv', UserTypeOK, GameTypeOK, PlacesInv,
           "DISCONNECT" \notin Redelivered,
           NEW m, GameHandler(m), UNCHANGED userVars
    PROVE  PlacesInv'
<1>1. m \in ProperMessage /\ m.to = "game"
  <2>1. \E out : Handle(m, out)
    BY DEF GameHandler, Join, TakePlace, AddPlace, KeepShip, Leave, HandleFire
  <2> QED BY <2>1, HandleFlight DEF FlightInv, GameHandler
<1>2. \A c \in Client : Owns(c)' => Owns(c) /\ usersInfo'[c].id = usersInfo[c].id
  BY DEF userVars, Owns, HasUser
<1>3. /\ entities \in Seq(Entity) /\ Len(entities) \in Nat
      /\ DOMAIN entities = 1..Len(entities)
      /\ available \in Seq(-1..(MaxShip - 1)) /\ Len(available) \in Nat
      /\ DOMAIN available = 1..Len(available)
      /\ \A i \in DOMAIN available : available[i] \in -1..(MaxShip - 1)
  BY LenProperties, ElementOfSeq DEF GameTypeOK
<1>4. CASE Join(m)
  <2>1. /\ Handle(m, {JoinedPacket(m.about)}) /\ UNCHANGED <<entities, available>>
        /\ ~HoldsPlace(JoinedPacket(m.about))
    BY <1>4 DEF Join, JoinedPacket, Plain, HoldsPlace
  <2> QED BY <1>2, <2>1, HandleFewer
<1>5. CASE TakePlace(m)
  <2> DEFINE n  == Head(available)
             id == IdAt(n)
  <2>1. /\ available # <<>> /\ n >= 0 /\ n = available[1]
        /\ 1 \in DOMAIN available
    <3>1. available # <<>> /\ n >= 0
      BY <1>5 DEF TakePlace
    <3>2. Len(available) \in Nat \ {0}
      BY <1>3, <3>1, EmptySeq
    <3> QED BY <1>3, <3>1, <3>2
  <2>2. n \in Nat /\ id = n + 1 /\ id \in Nat \ {0}
    BY <1>3, <2>1, NetworkAssumption DEF IdAt
  <2>3. id \in DOMAIN entities
    BY <2>1, <2>2 DEF PlacesInv, HeldInv
  <2>4. /\ Handle(m, {IDPacket(m.about, id)}) /\ m.command = "SELECT_SHIP"
        /\ entities' = [entities EXCEPT ![id] = m.about]
        /\ available' = Tail(available)
    BY <1>5 DEF TakePlace, OthersAvailable, IdAt
  <2>5. /\ DOMAIN available' = 1..(Len(available) - 1)
        /\ \A i \in DOMAIN available' : available'[i] = available[i + 1]
    <3>1. /\ Tail(available) \in Seq(-1..(MaxShip - 1))
          /\ Len(Tail(available)) = Len(available) - 1
          /\ \A i \in 1..Len(Tail(available)) : Tail(available)[i] = available[i + 1]
      BY <1>3, <2>1, HeadTailProperties
    <3> QED BY <2>4, <3>1, LenProperties
  <2>6. \A x \in InFlight : HoldsPlace(x) => x.id # id
    BY <2>1 DEF PlacesInv, OneHolder
  <2>7. \A c \in Client : Owns(c) => usersInfo[c].id # id
    BY <2>1 DEF PlacesInv, OneHolder
  <2>8. ASSUME NEW i \in DOMAIN available'
        PROVE  /\ IdAt(available'[i]) # id
               /\ \E k \in DOMAIN available : available'[i] = available[k]
               /\ \A j \in DOMAIN available' :
                     i # j /\ available'[i] # -1 => available'[i] # available'[j]
    <3>1. i + 1 \in DOMAIN available /\ i + 1 # 1 /\ available'[i] = available[i + 1]
      BY <1>3, <2>5, <2>8
    <3>2. available[i + 1] # n
      BY <2>1, <2>2, <3>1 DEF PlacesInv, OneHolder
    <3>3. IdAt(available'[i]) # id
      BY <1>3, <2>2, <3>1, <3>2 DEF IdAt
    <3>4. ASSUME NEW j \in DOMAIN available', i # j, available'[i] # -1
          PROVE  available'[i] # available'[j]
      <4>1. j + 1 \in DOMAIN available /\ available'[j] = available[j + 1]
        BY <1>3, <2>5, <3>4
      <4>2. i + 1 # j + 1
        BY <2>5, <1>3, <3>4
      <4> QED BY <3>1, <3>4, <4>1, <4>2 DEF PlacesInv, OneHolder
    <3> QED BY <3>1, <3>3, <3>4
  <2>9. /\ id \in DOMAIN entities' /\ entities'[id] = m.about
        /\ \A k \in DOMAIN entities : /\ k \in DOMAIN entities'
                                      /\ k # id => entities'[k] = entities[k]
    BY <2>3, <2>4
  <2> HIDE DEF id
  <2> QED BY <1>1, <2>2, <2>4, <2>6, <2>7, <2>8, <2>9, SelectPlaces
<1>6. CASE AddPlace(m)
  <2> DEFINE id == Len(entities) + 1
  <2>1. /\ Handle(m, {IDPacket(m.about, id)}) /\ m.command = "SELECT_SHIP"
        /\ entities' = Append(entities, m.about)
        /\ id \in Nat \ {0} /\ id \notin DOMAIN entities
    BY <1>3, <1>6 DEF AddPlace, IdAt
  <2>2. /\ \A i \in DOMAIN available' :
              \E k \in DOMAIN available : available'[i] = available[k]
        /\ \A i, j \in DOMAIN available' :
              i # j /\ available'[i] # -1 => available'[i] # available'[j]
    <3>1. CASE UNCHANGED available
      BY <3>1 DEF PlacesInv, OneHolder
    <3>2. CASE available # <<>> /\ available' = Tail(available)
      <4>1. /\ Tail(available) \in Seq(-1..(MaxShip - 1))
            /\ Len(Tail(available)) = Len(available) - 1
            /\ \A i \in 1..Len(Tail(available)) : Tail(available)[i] = available[i + 1]
        BY <1>3, <3>2, HeadTailProperties
      <4>2. /\ DOMAIN available' = 1..(Len(available) - 1)
            /\ \A i \in DOMAIN available' :
                  i + 1 \in DOMAIN available /\ available'[i] = available[i + 1]
        BY <1>3, <3>2, <4>1, LenProperties
      <4>3. ASSUME NEW i \in DOMAIN available', NEW j \in DOMAIN available',
                   i # j, available'[i] # -1
            PROVE  available'[i] # available'[j]
        <5>1. i + 1 # j + 1
          BY <1>3, <4>2, <4>3
        <5> QED BY <4>2, <4>3, <5>1 DEF PlacesInv, OneHolder
      <4> QED BY <4>2, <4>3
    <3> QED BY <1>6, <3>1, <3>2 DEF AddPlace, OthersAvailable
  <2>3. \A x \in InFlight : HoldsPlace(x) => x.id # id
    BY <2>1 DEF PlacesInv, HeldInv
  <2>4. \A c \in Client : Owns(c) => usersInfo[c].id # id
    BY <2>1 DEF PlacesInv, HeldInv
  <2>5. \A i \in DOMAIN available' : IdAt(available'[i]) # id
    <3>1. \A k \in DOMAIN available : IdAt(available[k]) # id
      BY <1>3, <2>1 DEF PlacesInv, HeldInv, IdAt
    <3> QED BY <2>2, <3>1
  <2>6. /\ id \in DOMAIN entities' /\ entities'[id] = m.about
        /\ \A k \in DOMAIN entities : /\ k \in DOMAIN entities'
                                      /\ k # id => entities'[k] = entities[k]
    <3>1. m.about \in Entity
      BY <1>1, <2>1 DEF ProperMessage, Entity
    <3>2. /\ Append(entities, m.about) \in Seq(Entity)
          /\ Len(Append(entities, m.about)) = Len(entities) + 1
          /\ \A k \in 1..Len(entities) : Append(entities, m.about)[k] = entities[k]
          /\ Append(entities, m.about)[Len(entities) + 1] = m.about
      BY <1>3, <3>1, AppendProperties
    <3> QED BY <1>3, <2>1, <3>2, LenProperties
  <2> HIDE DEF id
  <2> QED BY <1>1, <2>1, <2>2, <2>3, <2>4, <2>5, <2>6, SelectPlaces
<1>7. CASE KeepShip(m)
  <2>1. Handle(m, {}) /\ UNCHANGED <<entities, available>>
    BY <1>7 DEF KeepShip, gameVars
  <2> QED BY <1>2, <2>1, HandleFewer
<1>8. CASE Leave(m)
  BY <1>1, <1>8, LeavePlaces
<1>9. CASE HandleFire(m)
  <2>1. Handle(m, {}) /\ UNCHANGED available /\ Shoot(m.id)
    BY <1>9 DEF HandleFire
  <2>2. \A k \in DOMAIN entities : k \in DOMAIN entities' /\ entities'[k] = entities[k]
    BY <2>1, ShootGrows
  <2> QED BY <1>2, <2>1, <2>2, HandleFewer
<1> QED BY <1>4, <1>5, <1>6, <1>7, <1>8, <1>9 DEF GameHandler

(* What neither server is part of moves no id.                             *)
LEMMA OtherPlaces ==
    ASSUME FlightInv, FlightInv', PlacesInv,
           UNCHANGED <<userVars, gameVars>>,
           \A x : HoldsPlace(x) => Copies(x)' <= Copies(x)
    PROVE  PlacesInv'
<1>1. UNCHANGED <<usersInfo, entities, available>>
  BY DEF userVars, gameVars
<1>2. \A c \in Client : Owns(c)' => Owns(c) /\ usersInfo'[c].id = usersInfo[c].id
  BY <1>1 DEF Owns, HasUser
<1> QED BY <1>1, <1>2, FewerHolders

LEMMA EmitFewer ==
    ASSUME FlightInv, NEW out, Emit(out), \A x \in out : ~HoldsPlace(x)
    PROVE  \A x : HoldsPlace(x) => Copies(x)' <= Copies(x)
<1>1. IsABag(net)
  BY DEF FlightInv
<1> QED BY <1>1, EmitFlight, CopiesType

LEMMA HandleOthers ==
    ASSUME FlightInv, FlightInv', "DISCONNECT" \notin Redelivered,
           NEW m, NEW out, Handle(m, out), \A x \in out : ~HoldsPlace(x)
    PROVE  \A x : HoldsPlace(x) => Copies(x)' <= Copies(x)
<1> SUFFICES ASSUME NEW x, HoldsPlace(x) PROVE Copies(x)' <= Copies(x)
  OBVIOUS
<1>1. Copies(x)' = Copies(x) - (IF x = m THEN 1 ELSE 0)
  BY HandleHeld, FlightCounted
<1> QED BY <1>1, FlightCounted

(* The master and the clients send neither an id nor a farewell to the     *)
(* game server.                                                            *)
LEMMA PlainCommands ==
    /\ \A to, command, about, id :
          /\ Plain(to, command, about, id).command = command
          /\ Plain(to, command, about, id).to = to
          /\ Reliable(to, command, about, id).command = command
    /\ \A x : x.command \notin {"ID", "DISCONNECT"} => ~HoldsPlace(x)
BY DEF Plain, Reliable, HoldsPlace

LEMMA NextPlaces ==
    ASSUME TypeInv, TypeInv', PlacesInv, "DISCONNECT" \notin Redelivered,
           PlayStep \/ \E c \in Client : StartStep(c) \/ LogInStep(c)
    PROVE  PlacesInv'
<1> USE DEF TypeInv
<1>1. CASE MasterStep
  <2>1. PICK m : MasterHandler(m)
    BY <1>1 DEF MasterStep
  <2>2. PICK out : /\ Handle(m, out)
                   /\ \A x \in out : ~HoldsPlace(x)
    BY <2>1, PlainCommands DEF MasterHandler, RegisterServer, IgnoreRequest,
       AnswerRequest, AnswerFromNothing
  <2> QED BY <1>1, <2>2, HandleOthers, OtherPlaces DEF MasterStep
<1>2. CASE UserStep(InFlight)
  BY <1>2, UserPlaces DEF UserStep
<1>3. CASE GameStep(InFlight)
  BY <1>3, GamePlaces DEF GameStep
<1>4. CASE ShotStep
  <2>1. UNCHANGED <<net, usersInfo, available>> /\ Shoot(1)
    BY <1>4 DEF ShotStep, FireOnce, userVars
  <2>2. \A k \in DOMAIN entities : k \in DOMAIN entities' /\ entities'[k] = entities[k]
    BY <2>1, ShootGrows
  <2>3. \A c \in Client : Owns(c)' => Owns(c) /\ usersInfo'[c].id = usersInfo[c].id
    BY <2>1 DEF Owns, HasUser
  <2>4. \A x : Copies(x)' <= Copies(x)
    BY <2>1, FlightCounted DEF Copies, InFlight
  <2> QED BY <2>1, <2>2, <2>3, <2>4, FewerHolders
<1>5. ASSUME NEW c \in Client, ClientStep(c) PROVE PlacesInv'
  <2>1. PICK m : ClientHandler(c, m)
    BY <1>5 DEF ClientStep
  <2>2. PICK out : Handle(m, out) /\ \A x \in out : ~HoldsPlace(x)
    BY <2>1, PlainCommands DEF ClientHandler, TakeAddress, ChooseShip, GetReady,
       JoinRequest, ShipRequest
  <2> QED BY <1>5, <2>2, HandleOthers, OtherPlaces DEF ClientStep
<1>6. ASSUME NEW c \in Client, PlayerStep(c) PROVE PlacesInv'
  <2>1. UNCHANGED net \/ \E out : Emit(out) /\ \A x \in out : ~HoldsPlace(x)
    <3>1. ~HoldsPlace(Farewell(c))
      BY DEF HoldsPlace, Farewell, Plain
    <3>2. CASE Interrupt(c)
      BY <3>1, <3>2 DEF Interrupt
    <3>3. ASSUME NEW command \in Sends, Move(c, command)
          PROVE  UNCHANGED net \/ \E out : Emit(out) /\ \A x \in out : ~HoldsPlace(x)
      <4>1. ~HoldsPlace(Reliable("user", command, c, 0))
        BY ClientAssumption, PlainCommands
      <4> QED BY <3>3, <4>1 DEF Move
    <3> QED BY <1>6, <3>2, <3>3 DEF PlayerStep
  <2>2. \A x : HoldsPlace(x) => Copies(x)' <= Copies(x)
    <3>1. CASE UNCHANGED net
      BY <3>1, FlightCounted DEF Copies, InFlight
    <3>2. CASE ~UNCHANGED net
      BY <2>1, <3>2, EmitFewer
    <3> QED BY <3>1, <3>2
  <2> QED BY <1>6, <2>2, OtherPlaces DEF PlayerStep
<1>7. CASE FrameStep
  <2>1. UNCHANGED <<net, usersInfo, entities, available>>
    BY <1>7 DEF FrameStep, NextFrame, gameVars
  <2>2. \A c \in Client : Owns(c)' => Owns(c) /\ usersInfo'[c].id = usersInfo[c].id
    BY <2>1 DEF Owns, HasUser
  <2>3. \A x : Copies(x)' <= Copies(x)
    BY <2>1, FlightCounted DEF Copies, InFlight
  <2> QED BY <2>1, <2>2, <2>3, FewerHolders
<1>8. CASE RetryStep
  <2>1. /\ UNCHANGED <<usersInfo, entities, available>>
        /\ Emit({RequestServer})
    BY <1>8 DEF RetryStep, RetryRequest, gameVars
  <2>2. \A c \in Client : Owns(c)' => Owns(c) /\ usersInfo'[c].id = usersInfo[c].id
    BY <2>1 DEF Owns, HasUser
  <2>3. \A x : HoldsPlace(x) => Copies(x)' <= Copies(x)
    BY <2>1, PlainCommands, EmitFewer DEF RequestServer
  <2> QED BY <2>1, <2>2, <2>3, FewerHolders
<1>9. CASE RestartStep
  <2>1. Emit(CallsOf(Running)) /\ UNCHANGED <<userVars, gameVars>>
    BY <1>9 DEF RestartStep, RestartMaster
  <2>2. \A x \in CallsOf(Running) : ~HoldsPlace(x)
    BY PlainCommands DEF CallsOf
  <2> QED BY <2>1, <2>2, EmitFewer, OtherPlaces
<1>10. CASE LoseStep
  <2>1. PICK m : Drop(m)
    BY <1>10 DEF LoseStep
  <2>2. \A x : Copies(x)' <= Copies(x)
    <3>1. IsABag(net)
      BY DEF FlightInv
    <3> QED BY <2>1, <3>1, DropFlight, FlightCounted
  <2> QED BY <1>10, <2>2, OtherPlaces DEF LoseStep
<1>11. ASSUME NEW c \in Client, StartStep(c) \/ LogInStep(c) PROVE PlacesInv'
  <2>1. PICK out : Emit(out) /\ \A x \in out : ~HoldsPlace(x)
    BY <1>11, PlainCommands DEF StartStep, LogInStep, Start, LogIn, Begin,
       LoginRequest
  <2> QED BY <1>11, <2>1, EmitFewer, OtherPlaces DEF StartStep, LogInStep
<1> QED BY <1>1, <1>2, <1>3, <1>4, <1>5, <1>6, <1>7, <1>8, <1>9, <1>10, <1>11
        DEF PlayStep

LEMMA PlacesInvariant ==
    ASSUME "DISCONNECT" \notin Redelivered
    PROVE  Spec => [](TypeInv /\ PlacesInv)
<1>1. Init => PlacesInv
  <2> SUFFICES ASSUME Init PROVE PlacesInv
    OBVIOUS
  <2>1. InFlight = CallsOf(Running)
    BY FirstFlight DEF Init
  <2>2. \A x \in InFlight : ~HoldsPlace(x)
    BY <2>1, PlainCommands DEF CallsOf
  <2>3. \A c \in Client : ~Owns(c)
    BY DEF Init, UserInit, NoEntry, Owns, HasUser
  <2>4. DOMAIN available = {}
    BY DEF Init, GameInit
  <2> QED BY <2>2, <2>3, <2>4 DEF PlacesInv, HeldInv, OneHolder
<1>2. TypeInv /\ TypeInv' /\ PlacesInv /\ [Next]_vars => PlacesInv'
  <2>1. TypeInv /\ PlacesInv /\ UNCHANGED vars => PlacesInv'
    BY DEF vars, userVars, gameVars, PlacesInv, HeldInv, OneHolder, Owns,
       HasUser, Copies, InFlight
  <2> QED BY <2>1, NextPlaces DEF Next
<1> QED BY <1>1, <1>2, TypeInvInit, TypeInvNext, PTL DEF Spec

(* Wherever the user server has an id for a user, that place of the game   *)
(* server holds the user's own ship: no client steers a ship that was not  *)
(* made for it, as long as no DISCONNECT is delivered twice.               *)
THEOREM UsersSteerTheirOwn ==
    ASSUME "DISCONNECT" \notin Redelivered
    PROVE  Spec => []UsersSteerTheirOwnShips
<1>1. PlacesInv => UsersSteerTheirOwnShips
  BY DEF PlacesInv, HeldInv, Owns, UsersSteerTheirOwnShips
<1> QED BY <1>1, PlacesInvariant, PTL

(* A place that is offered again is nobody's, and is offered once.         *)
THEOREM FreePlacesStayFree ==
    ASSUME "DISCONNECT" \notin Redelivered
    PROVE  Spec => []FreePlacesAreFree
<1>1. TypeInv /\ PlacesInv => FreePlacesAreFree
  <2> SUFFICES ASSUME TypeInv, PlacesInv PROVE FreePlacesAreFree
    OBVIOUS
  <2>1. ASSUME NEW i \in DOMAIN available, NEW c \in Client, Owns(c)
        PROVE  available[i] # Place(usersInfo[c].id)
    <3>1. usersInfo[c].id \in Int
      BY UserInfoTypes, NetworkAssumption DEF TypeInv
    <3>2. usersInfo[c].id # IdAt(available[i])
      BY <2>1 DEF PlacesInv, OneHolder
    <3> QED BY <3>1, <3>2 DEF Place, IdAt
  <2>2. AvailableIsUnused
    BY <2>1 DEF AvailableIsUnused, Owns
  <2> QED BY <2>2 DEF FreePlacesAreFree, PlacesInv, OneHolder
<1> QED BY <1>1, PlacesInvariant, PTL
=============================================================================
