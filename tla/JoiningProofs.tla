--------------------------- MODULE JoiningProofs ---------------------------
(***************************************************************************)
(* How a client comes to its ship when every client is started once and no *)
(* packet of the way is delivered twice: one packet, or a place in the     *)
(* queue of the user server, carries it all the way.                       *)
(***************************************************************************)
EXTENDS StayingProofs

(* No packet of the way is delivered a second time: the socket drops such  *)
(* duplicates while it tracks their sender.                                *)
Once == Redelivered \cap {"JOIN", "JOINED", "SELECT_SHIP", "READY"} = {}

(* The packets that bring client c closer to its ship.                     *)
OnWay(m) == \/ m.command \in {"JOIN", "JOINED", "SELECT_SHIP", "ID", "READY"}
            \/ m.command = "ADDRESS" /\ m.to \in Client
WayOf(c) == {m \in InFlight : OnWay(m) /\ m.about = c}

Waiting(c)  == \E i \in DOMAIN pendingUsers : pendingUsers[i] = c
WaitOnce    == \A i, j \in DOMAIN pendingUsers :
                   i # j => pendingUsers[i] # pendingUsers[j]
Informed(c) == IsOn(c) => client[c].addressed

(* What is true of a client while packet m is on its way: it plays only    *)
(* once READY has come, and has a ship only when READY is sent.            *)
Reached(c, m) ==
    /\ ~client[c].active
    /\ m.command # "READY" => ~Owns(c)
    /\ m.command = "ID" => m.id # 0
    /\ m.command # "ADDRESS" => Informed(c)

WayInv(c) ==
    /\ \A m, o \in WayOf(c) : m = o
    /\ \A m \in WayOf(c) : Copies(m) = 1 /\ ~Waiting(c) /\ Reached(c, m)
    /\ Waiting(c) => ~client[c].active /\ ~Owns(c) /\ Informed(c)
    /\ client[c].active => client[c].addressed
    /\ client[c].status # "aborted"
    /\ starts[c] = 0 => /\ WayOf(c) = {} /\ ~Waiting(c)
                        /\ ~Owns(c) /\ client[c] = Off

(* Who has a ship is in one bucket, and nobody else is in any.             *)
ServedInv(c) ==
    IF Owns(c)
    THEN \E b \in Bucket : \A o \in Bucket : c \in shipBucket[o] <=> o = b
    ELSE \A o \in Bucket : c \notin shipBucket[o]

JoinInv == /\ WaitOnce
           /\ \A c \in Client : WayInv(c) /\ ServedInv(c)
           /\ \A b \in Bucket : IsFiniteSet(shipBucket[b])

(* The packets of the way are counted exactly.                             *)
LEMMA HandleWay ==
    ASSUME FlightInv, Once, NEW m, NEW out, Handle(m, out), NEW x, OnWay(x)
    PROVE  Copies(x)' = Copies(x) - (IF x = m THEN 1 ELSE 0)
                                  + (IF x \in out THEN 1 ELSE 0)
<1>1. IsABag(net) /\ m \in ProperMessage
  BY HandleFlight DEF FlightInv
<1>2. ~(x = m /\ m.reliable /\ m.command \in Redelivered)
  BY <1>1 DEF OnWay, Once, ProperMessage, IDPacket, Plain
<1> QED BY <1>1, <1>2, HandleCopies

(* A packet of the way that is handled leaves what its handler sends.      *)
LEMMA PassedOn ==
    ASSUME FlightInv, FlightInv', Once, NEW c \in Client, WayInv(c),
           NEW m, NEW out, Handle(m, out), m \in WayOf(c) \/ WayOf(c) = {}
    PROVE  \A x \in WayOf(c)' : x \in out /\ Copies(x)' = 1
<1> SUFFICES ASSUME NEW x \in WayOf(c)' PROVE x \in out /\ Copies(x)' = 1
  OBVIOUS
<1>1. OnWay(x) /\ x.about = c /\ x \in InFlight'
  BY DEF WayOf, OnWay
<1>2. Copies(x)' = Copies(x) - (IF x = m THEN 1 ELSE 0)
                             + (IF x \in out THEN 1 ELSE 0)
  BY <1>1, HandleWay
<1>3. /\ Copies(x) \in Nat /\ (x \in InFlight <=> Copies(x) > 0)
      /\ Copies(x)' > 0
  BY <1>1, FlightCounted
<1>4. IF x = m /\ m \in WayOf(c) THEN Copies(x) = 1 ELSE Copies(x) = 0
  BY <1>1, <1>3 DEF WayInv, WayOf
<1>5. x = m => m \in WayOf(c)
  BY <1>1 DEF Handle, WayOf
<1> QED BY <1>2, <1>3, <1>4, <1>5

(* Any other leaves it as it was.                                          *)
LEMMA StayedOn ==
    ASSUME FlightInv, FlightInv', Once, NEW c \in Client, WayInv(c),
           NEW m, NEW out, Handle(m, out),
           \A x \in out : ~OnWay(x) \/ x.about # c
    PROVE  \A x \in WayOf(c)' : x \in WayOf(c) /\ Copies(x)' <= Copies(x)
<1> SUFFICES ASSUME NEW x \in WayOf(c)'
             PROVE  x \in WayOf(c) /\ Copies(x)' <= Copies(x)
  OBVIOUS
<1>1. OnWay(x) /\ x.about = c /\ x \in InFlight'
  BY DEF WayOf, OnWay
<1>2. Copies(x)' = Copies(x) - (IF x = m THEN 1 ELSE 0)
  BY <1>1, HandleWay, FlightCounted
<1>3. Copies(x) > 0 /\ Copies(x)' <= Copies(x)
  BY <1>1, <1>2, FlightCounted
<1> QED BY <1>1, <1>3, FlightCounted DEF WayOf

(* So does who sends of its own accord.                                    *)
LEMMA EmitStayedOn ==
    ASSUME FlightInv, FlightInv', NEW c \in Client, NEW out, Emit(out),
           \A x \in out : ~OnWay(x) \/ x.about # c
    PROVE  \A x \in WayOf(c)' : x \in WayOf(c) /\ Copies(x)' <= Copies(x)
<1> SUFFICES ASSUME NEW x \in WayOf(c)'
             PROVE  x \in WayOf(c) /\ Copies(x)' <= Copies(x)
  OBVIOUS
<1>1. OnWay(x) /\ x.about = c /\ x \in InFlight'
  BY DEF WayOf, OnWay
<1>2. x \notin out /\ IsABag(net)
  BY <1>1 DEF FlightInv
<1>3. Copies(x)' = Copies(x)
  BY <1>2, EmitFlight, FlightCounted
<1> QED BY <1>1, <1>3, FlightCounted DEF WayOf

(* A step that gives a client nothing, or ends its process, leaves it on   *)
(* its way.                                                                *)
LEMMA StillOnWay ==
    ASSUME FlightInv, FlightInv', NEW c \in Client, WayInv(c),
           \A x \in WayOf(c)' : x \in WayOf(c) /\ Copies(x)' <= Copies(x),
           Waiting(c)' => Waiting(c),
           Owns(c)' => Owns(c),
           client'[c] = client[c] \/ client'[c] = Off,
           starts'[c] = starts[c]
    PROVE  WayInv(c)'
<1>1. ASSUME NEW x \in WayOf(c)'
      PROVE  /\ x \in WayOf(c) /\ Copies(x)' = 1 /\ ~Waiting(c)'
             /\ Reached(c, x)'
  <2>1. x \in WayOf(c) /\ Copies(x) = 1 /\ x \in InFlight' /\ Reached(c, x)
    BY <1>1 DEF WayInv, WayOf
  <2>2. Copies(x)' = 1
    BY <1>1, <2>1, FlightCounted
  <2>3. Reached(c, x)'
    BY <2>1 DEF Reached, Informed, IsOn, Off
  <2> QED BY <2>1, <2>2, <2>3 DEF WayInv
<1>2. \A m, o \in WayOf(c)' : m = o
  BY <1>1 DEF WayInv
<1>3. Waiting(c)' => ~client'[c].active /\ ~Owns(c)' /\ Informed(c)'
  BY DEF WayInv, Informed, IsOn, Off
<1>4. /\ client'[c].active => client'[c].addressed
      /\ client'[c].status # "aborted"
  BY DEF WayInv, Off
<1>5. starts'[c] = 0 => /\ WayOf(c)' = {} /\ ~Waiting(c)'
                        /\ ~Owns(c)' /\ client'[c] = Off
  BY <1>1 DEF WayInv
<1> QED BY <1>1, <1>2, <1>3, <1>4, <1>5 DEF WayInv

(* A client whose process, bucket and ship a step leaves alone is served   *)
(* as before.                                                              *)
LEMMA StillServed ==
    ASSUME NEW c \in Client, ServedInv(c), Owns(c)' <=> Owns(c),
           \A b \in Bucket : c \in shipBucket'[b] <=> c \in shipBucket[b]
    PROVE  ServedInv(c)'
BY DEF ServedInv, Bucket

(* A started client, with the one packet that is on its way.               *)
LEMMA NowOnWay ==
    ASSUME NEW c \in Client, NEW p,
           \A x \in WayOf(c)' : x = p /\ Copies(x)' = 1,
           ~Waiting(c)', Reached(c, p)', starts'[c] # 0,
           client'[c].status # "aborted"
    PROVE  WayInv(c)'
BY DEF WayInv, Reached
-----------------------------------------------------------------------------
(* The user server.                                                        *)

(* Only an ID gives a user a ship, and only its own.                       *)
LEMMA OnlyIDsGiveShips ==
    ASSUME UserTypeOK, NEW m, UserHandler(m), NEW c \in Client,
           ~(ProcessID(m) /\ m.about = c)
    PROVE  Owns(c)' => Owns(c)
<1>0. usersInfo \in [Client -> UserInfo] /\ usersInfo[c] \in UserInfo
  BY DEF UserTypeOK
<1>1. CASE usersInfo'[c] = usersInfo[c]
  BY <1>1 DEF Owns, HasUser
<1>2. CASE ProcessAddressResponse(m)
  <2>1. usersInfo'[c] \in {usersInfo[c], Touched(c),
                           [usersInfo[c] EXCEPT !.addressed = TRUE]}
    BY <1>0, <1>2 DEF ProcessAddressResponse
  <2>2. [usersInfo[c] EXCEPT !.addressed = TRUE].id = usersInfo[c].id
        /\ [usersInfo[c] EXCEPT !.addressed = TRUE].entry = usersInfo[c].entry
    BY <1>0 DEF UserInfo
  <2>3. CASE usersInfo'[c] = Touched(c)
    BY <1>1, <2>3 DEF Touched, NullEntry, Owns, HasUser
  <2>4. CASE usersInfo'[c] = [usersInfo[c] EXCEPT !.addressed = TRUE]
    BY <2>2, <2>4 DEF Owns, HasUser
  <2> QED BY <1>1, <2>1, <2>3, <2>4
<1>3. CASE CreateUserEndpoint(m)
  <2>1. usersInfo'[c] \in {usersInfo[c], NewUser}
    BY <1>0, <1>3 DEF CreateUserEndpoint
  <2> QED BY <2>1 DEF NewUser, Owns, HasUser
<1>4. CASE Disconnect(m)
  <2>1. usersInfo'[c] \in {usersInfo[c], NoEntry}
    BY <1>0, <1>4 DEF Disconnect
  <2> QED BY <2>1 DEF NoEntry, Owns, HasUser
<1>5. CASE Use(m)
  <2>1. usersInfo'[c] \in {usersInfo[c], Touched(c)}
    BY <1>0, <1>5 DEF Use
  <2> QED BY <2>1 DEF Touched, NullEntry, Owns, HasUser
<1>6. CASE ProcessID(m) /\ m.about # c
  BY <1>0, <1>1, <1>6 DEF ProcessID
<1>7. CASE \/ AddressForNobody(m) \/ IgnoreJoin(m) \/ SendJoined(m)
           \/ SelectShip(m) \/ ForwardCommand(m)
  BY <1>1, <1>7 DEF AddressForNobody, IgnoreJoin, SendJoined, SelectShip,
     ForwardCommand, userVars
<1> QED BY <1>2, <1>3, <1>4, <1>5, <1>6, <1>7 DEF UserHandler

(* The commands of what the user server sends.                             *)
LEMMA UserPackets ==
    /\ ~OnWay(RequestServer)
    /\ \A c, id : /\ OnWay(JoinServer(c)) /\ JoinServer(c).about = c
                  /\ JoinServer(c).command = "JOIN"
                  /\ OnWay(Ready(c, id)) /\ Ready(c, id).about = c
                  /\ Ready(c, id).command = "READY"
    /\ \A to, c, id, command :
          /\ Reliable(to, command, c, id).about = c
          /\ Reliable(to, command, c, id).command = command
          /\ Plain(to, command, c, id).about = c
          /\ Plain(to, command, c, id).command = command
    /\ \A c, command : \A x \in ToGame(c, command) :
          x.about = c /\ x.command = command
BY DEF RequestServer, JoinServer, Ready, ToGame, Reliable, Plain, OnWay

LEMMA UserWay ==
    ASSUME FlightInv, FlightInv', UserTypeOK, JoinInv, Once,
           NEW m, UserHandler(m), UNCHANGED clientVars
    PROVE  WaitOnce' /\ \A c \in Client : WayInv(c)'
<1> USE DEF JoinInv
<1>1. /\ m \in ProperMessage /\ m \in InFlight /\ m.to = "user"
      /\ m.command \in {"JOIN", "JOINED", "ID", "DISCONNECT", "SELECT_SHIP",
                        "FIRE", "USE"} => m.about \in Client
      /\ m.command = "ADDRESS" => ~OnWay(m)
  <2>1. \E out : Handle(m, out)
    BY DEF UserHandler, AddressForNobody, ProcessAddressResponse,
       CreateUserEndpoint, IgnoreJoin, SendJoined, ProcessID, Disconnect,
       SelectShip, ForwardCommand, Use
  <2>2. m \in ProperMessage /\ m \in InFlight
    BY <2>1, HandleFlight DEF FlightInv
  <2> QED BY <2>2, NetworkAssumption DEF ProperMessage, UserHandler, OnWay, Server
<1>2. \A c \in Client : client'[c] = client[c] /\ starts'[c] = starts[c]
  BY DEF clientVars
<1>3. \A c \in Client : ~(ProcessID(m) /\ m.about = c) => (Owns(c)' => Owns(c))
  BY OnlyIDsGiveShips
<1>4. ASSUME NEW c \in Client, NEW out, Handle(m, out),
             \A x \in out : ~OnWay(x) \/ x.about # c,
             Waiting(c)' => Waiting(c), ~(ProcessID(m) /\ m.about = c)
      PROVE  WayInv(c)'
  <2>1. \A x \in WayOf(c)' : x \in WayOf(c) /\ Copies(x)' <= Copies(x)
    BY <1>4, StayedOn
  <2> QED BY <1>2, <1>3, <1>4, <2>1, StillOnWay
<1>5. ASSUME NEW c \in Client, NEW p, Handle(m, {p}), m \in WayOf(c),
             UNCHANGED pendingUsers, p.command \notin {"ADDRESS", "ID"},
             m.command # "ADDRESS", m.command # "READY",
             p.command = "READY" \/ ~(ProcessID(m) /\ m.about = c)
      PROVE  WayInv(c)'
  <2>1. \A x \in WayOf(c)' : x = p /\ Copies(x)' = 1
    BY <1>5, PassedOn
  <2>2. ~Waiting(c) /\ Reached(c, m) /\ starts[c] # 0 /\ client[c].status # "aborted"
    BY <1>5 DEF WayInv
  <2>3. ~Waiting(c)' /\ starts'[c] # 0 /\ client'[c].status # "aborted"
    BY <1>2, <1>5, <2>2 DEF Waiting
  <2>4. Reached(c, p)'
    BY <1>2, <1>3, <1>5, <2>2 DEF Reached, Informed, IsOn
  <2> QED BY <2>1, <2>3, <2>4, NowOnWay
<1>6. ASSUME UNCHANGED pendingUsers
      PROVE  WaitOnce' /\ \A c : Waiting(c)' <=> Waiting(c)
  BY <1>6 DEF WaitOnce, Waiting
<1>7. CASE AddressForNobody(m) \/ IgnoreJoin(m) \/ Use(m)
  <2>1. Handle(m, {}) /\ UNCHANGED pendingUsers /\ ~ProcessID(m)
    BY <1>7 DEF AddressForNobody, IgnoreJoin, Use, ProcessID, userVars
  <2> QED BY <1>4, <1>6, <2>1
<1>8. CASE ForwardCommand(m) \/ Disconnect(m)
  <2>1. UNCHANGED pendingUsers /\ ~ProcessID(m)
    BY <1>8 DEF ForwardCommand, Disconnect, ProcessID, userVars
  <2>2. \/ \E out \in SUBSET ToGame(m.about, "FIRE") : Handle(m, out)
        \/ \E out \in SUBSET ToGame(m.about, "DISCONNECT") : Handle(m, out)
    <3>1. CASE ForwardCommand(m)
      BY <3>1 DEF ForwardCommand
    <3>2. CASE Disconnect(m)
      BY <3>2 DEF Disconnect
    <3> QED BY <1>8, <3>1, <3>2
  <2>3. PICK out : /\ Handle(m, out)
                   /\ \A x \in out : x.command \in {"FIRE", "DISCONNECT"}
    BY <2>2, UserPackets
  <2>4. \A x \in out : ~OnWay(x)
    BY <2>3 DEF OnWay
  <2> QED BY <1>4, <1>6, <2>1, <2>3, <2>4
<1>9. CASE SendJoined(m)
  <2>1. UNCHANGED pendingUsers /\ ~ProcessID(m) /\ m.about \in Client
        /\ m \in WayOf(m.about)
    BY <1>1, <1>9 DEF SendJoined, ProcessID, userVars, WayOf, OnWay
  <2> DEFINE p == Reliable(m.about, "JOINED", m.about, 0)
  <2>2. CASE Handle(m, {p})
    <3>1. p.about = m.about /\ p.command = "JOINED"
      BY UserPackets
    <3> HIDE DEF p
    <3>2. WayInv(m.about)'
      BY <1>5, <1>9, <2>1, <2>2, <3>1 DEF SendJoined
    <3>3. \A c \in Client \ {m.about} : WayInv(c)'
      BY <1>4, <1>6, <2>1, <2>2, <3>1
    <3> QED BY <1>6, <2>1, <3>2, <3>3
  <2>3. CASE Handle(m, {})
    BY <1>4, <1>6, <2>1, <2>3
  <2> QED BY <1>9, <2>2, <2>3 DEF SendJoined
<1>10. CASE SelectShip(m)
  <2>1. UNCHANGED pendingUsers /\ ~ProcessID(m) /\ m.about \in Client
        /\ m \in WayOf(m.about) /\ m.command = "SELECT_SHIP"
    BY <1>1, <1>10 DEF SelectShip, ProcessID, WayOf, OnWay
  <2> DEFINE p == Reliable("game", "SELECT_SHIP", m.about, usersInfo[m.about].id)
  <2>2. CASE Handle(m, {p})
    <3>1. p.about = m.about /\ p.command = "SELECT_SHIP"
      BY UserPackets
    <3> HIDE DEF p
    <3>2. WayInv(m.about)'
      BY <1>5, <2>1, <2>2, <3>1
    <3>3. \A c \in Client \ {m.about} : WayInv(c)'
      BY <1>4, <1>6, <2>1, <2>2, <3>1
    <3> QED BY <1>6, <2>1, <3>2, <3>3
  <2>3. CASE Handle(m, {})
    BY <1>4, <1>6, <2>1, <2>3
  <2>4. Handle(m, {p}) \/ Handle(m, {})
    <3>1. Handle(m, IF HasUser(m.about) THEN ToGame(m.about, "SELECT_SHIP") ELSE {})
      BY <1>10 DEF SelectShip
    <3> QED BY <3>1 DEF ToGame
  <2> QED BY <2>2, <2>3, <2>4
<1>11. CASE ProcessID(m)
  <2>1. UNCHANGED pendingUsers /\ m.about \in Client
        /\ m \in WayOf(m.about) /\ m.command = "ID"
    BY <1>1, <1>11 DEF ProcessID, WayOf, OnWay
  <2> DEFINE p == Ready(m.about, m.id)
  <2>2. CASE Handle(m, {p})
    <3>1. p.about = m.about /\ p.command = "READY"
      BY UserPackets
    <3> HIDE DEF p
    <3>2. WayInv(m.about)'
      BY <1>5, <2>1, <2>2, <3>1
    <3>3. \A c \in Client \ {m.about} : WayInv(c)'
      BY <1>4, <1>6, <2>1, <2>2, <3>1
    <3> QED BY <1>6, <2>1, <3>2, <3>3
  <2>3. CASE ~HasUser(m.about)
    <3>1. Handle(m, {}) /\ usersInfo' = [usersInfo EXCEPT ![m.about] = Touched(m.about)]
      BY <1>11, <2>3 DEF ProcessID
    <3>2. \A c \in Client : Owns(c)' => Owns(c)
      BY <2>1, <2>3, <3>1, <1>3 DEF Touched, NullEntry, Owns, HasUser, UserTypeOK
    <3>3. ASSUME NEW c \in Client
          PROVE  \A x \in WayOf(c)' : x \in WayOf(c) /\ Copies(x)' <= Copies(x)
      BY <3>1, StayedOn
    <3> QED BY <1>2, <1>6, <2>1, <3>2, <3>3, StillOnWay
  <2> QED BY <1>11, <2>2, <2>3 DEF ProcessID
<1>12. CASE CreateUserEndpoint(m)
  <2> DEFINE c == m.about
  <2>1. /\ c \in Client /\ m \in WayOf(c) /\ ~ProcessID(m)
        /\ m.command = "JOIN" /\ Handle(m, {RequestServer})
        /\ pendingUsers' = Append(pendingUsers, c)
    BY <1>1, <1>12 DEF CreateUserEndpoint, ProcessID, WayOf, OnWay
  <2> HIDE DEF c
  <2>2. /\ DOMAIN pendingUsers = 1..Len(pendingUsers) /\ Len(pendingUsers) \in Nat
        /\ DOMAIN pendingUsers' = 1..(Len(pendingUsers) + 1)
        /\ pendingUsers'[Len(pendingUsers) + 1] = c
        /\ \A i \in 1..Len(pendingUsers) : pendingUsers'[i] = pendingUsers[i]
    <3>1. pendingUsers \in Seq(Client)
      BY DEF UserTypeOK
    <3>2. /\ Append(pendingUsers, c) \in Seq(Client)
          /\ Len(Append(pendingUsers, c)) = Len(pendingUsers) + 1
          /\ \A i \in 1..Len(pendingUsers) : Append(pendingUsers, c)[i] = pendingUsers[i]
          /\ Append(pendingUsers, c)[Len(pendingUsers) + 1] = c
      BY <2>1, <3>1, AppendProperties
    <3> QED BY <2>1, <3>1, <3>2, LenProperties
  <2>3. /\ ~Waiting(c) /\ Reached(c, m) /\ ~Owns(c)
        /\ starts[c] # 0 /\ client[c].status # "aborted"
    BY <2>1 DEF WayInv, Reached
  <2>4. WaitOnce'
    BY <2>2, <2>3 DEF WaitOnce, Waiting
  <2>5. \A d \in Client \ {c} : Waiting(d)' => Waiting(d)
    BY <2>2 DEF Waiting
  <2>6. \A d \in Client \ {c} : WayInv(d)'
    BY <1>4, <2>1, <2>5, UserPackets
  <2>7. WayOf(c)' = {}
    <3>1. \A x \in WayOf(c)' : x = RequestServer
      BY <2>1, PassedOn
    <3> QED BY <3>1, UserPackets DEF WayOf, OnWay
  <2>8. ~Owns(c)'
    BY <1>3, <2>1, <2>3
  <2>9. ~client[c].active /\ Informed(c)
    BY <2>1, <2>3 DEF Reached
  <2>10. WayInv(c)'
    BY <1>2, <2>1, <2>3, <2>7, <2>8, <2>9 DEF WayInv, Informed, IsOn
  <2> QED BY <2>4, <2>6, <2>10
<1>13. CASE ProcessAddressResponse(m)
  <2>0. PICK c : c = Head(pendingUsers)
    OBVIOUS
  <2>1. /\ c \in Client /\ ~ProcessID(m) /\ ~OnWay(m)
        /\ pendingUsers # <<>> /\ pendingUsers' = Tail(pendingUsers)
        /\ Handle(m, {JoinServer(c)}) \/ Handle(m, {})
    BY <1>1, <1>13, <2>0, HeadTailProperties
       DEF ProcessAddressResponse, OthersPending, ProcessID, UserTypeOK
  <2>2. /\ DOMAIN pendingUsers = 1..Len(pendingUsers) /\ Len(pendingUsers) \in Nat \ {0}
        /\ c = pendingUsers[1]
        /\ DOMAIN pendingUsers' = 1..(Len(pendingUsers) - 1)
        /\ \A i \in DOMAIN pendingUsers' : pendingUsers'[i] = pendingUsers[i + 1]
    <3>1. pendingUsers \in Seq(Client) /\ pendingUsers # <<>>
      BY <2>1 DEF UserTypeOK
    <3>2. /\ Tail(pendingUsers) \in Seq(Client)
          /\ Len(Tail(pendingUsers)) = Len(pendingUsers) - 1
          /\ \A i \in 1..Len(Tail(pendingUsers)) :
                Tail(pendingUsers)[i] = pendingUsers[i + 1]
      BY <3>1, HeadTailProperties
    <3> QED BY <2>0, <2>1, <3>1, <3>2, LenProperties, EmptySeq
  <2>3. \A i \in DOMAIN pendingUsers' : i + 1 \in DOMAIN pendingUsers /\ i + 1 # 1
    BY <2>2
  <2>4. WaitOnce'
    <3>1. \A i, j \in DOMAIN pendingUsers' : i # j => i + 1 # j + 1
      BY <2>2
    <3> QED BY <2>2, <2>3, <3>1 DEF WaitOnce
  <2>5. /\ Waiting(c) /\ ~Waiting(c)'
        /\ \A d : Waiting(d)' => Waiting(d)
    <3>1. 1 \in DOMAIN pendingUsers
      BY <2>2
    <3> QED BY <2>2, <2>3, <3>1 DEF WaitOnce, Waiting
  <2>6. WayOf(c) = {} /\ ~client[c].active /\ ~Owns(c) /\ Informed(c)
        /\ starts[c] # 0 /\ client[c].status # "aborted"
    BY <2>1, <2>5 DEF WayInv
  <2>7. CASE Handle(m, {JoinServer(c)})
    <3>1. \A d \in Client \ {c} : WayInv(d)'
      BY <1>4, <2>1, <2>5, <2>7, UserPackets
    <3>2. \A x \in WayOf(c)' : x = JoinServer(c) /\ Copies(x)' = 1
      BY <2>1, <2>6, <2>7, PassedOn
    <3>3. Reached(c, JoinServer(c))'
      BY <1>2, <1>3, <2>1, <2>6, UserPackets DEF Reached, Informed, IsOn
    <3>4. WayInv(c)'
      BY <1>2, <2>1, <2>5, <2>6, <3>2, <3>3, NowOnWay
    <3> QED BY <2>4, <3>1, <3>4
  <2>8. CASE Handle(m, {})
    BY <1>4, <2>1, <2>4, <2>5, <2>8
  <2> QED BY <2>1, <2>7, <2>8
<1> QED BY <1>7, <1>8, <1>9, <1>10, <1>11, <1>12, <1>13 DEF UserHandler
(* A DISCONNECT takes a ship from a user, and nothing else does.           *)
LEMMA OnlyFarewellsTakeShips ==
    ASSUME UserTypeOK, NEW m, UserHandler(m), NEW c \in Client,
           ~(ProcessID(m) /\ m.about = c), ~(Disconnect(m) /\ m.about = c)
    PROVE  Owns(c) => Owns(c)'
<1>0. usersInfo \in [Client -> UserInfo] /\ usersInfo[c] \in UserInfo
  BY DEF UserTypeOK
<1>1. CASE usersInfo'[c] = usersInfo[c]
  BY <1>1 DEF Owns, HasUser
<1>2. ASSUME usersInfo'[c] = Touched(c) PROVE Owns(c) => Owns(c)'
  BY <1>2 DEF Touched, Owns, HasUser
<1>3. CASE ProcessAddressResponse(m)
  <2>1. \/ usersInfo'[c] \in {usersInfo[c], Touched(c)}
        \/ usersInfo'[c] = [usersInfo[c] EXCEPT !.addressed = TRUE]
    BY <1>0, <1>3 DEF ProcessAddressResponse
  <2>2. CASE usersInfo'[c] = [usersInfo[c] EXCEPT !.addressed = TRUE]
    <3>1. /\ usersInfo'[c].id = usersInfo[c].id
          /\ usersInfo'[c].entry = usersInfo[c].entry
      BY <1>0, <2>2 DEF UserInfo
    <3> QED BY <3>1 DEF Owns, HasUser
  <2> QED BY <1>1, <1>2, <2>1, <2>2
<1>4. CASE CreateUserEndpoint(m)
  <2>1. usersInfo'[c] = usersInfo[c] \/ usersInfo[c].entry = "none"
    BY <1>0, <1>4 DEF CreateUserEndpoint
  <2> QED BY <1>1, <2>1 DEF Owns, HasUser
<1>5. CASE Disconnect(m) \/ ProcessID(m)
  BY <1>0, <1>1, <1>5 DEF Disconnect, ProcessID
<1>6. CASE Use(m)
  BY <1>0, <1>1, <1>2, <1>6 DEF Use
<1>7. CASE \/ AddressForNobody(m) \/ IgnoreJoin(m) \/ SendJoined(m)
           \/ SelectShip(m) \/ ForwardCommand(m)
  BY <1>1, <1>7 DEF AddressForNobody, IgnoreJoin, SendJoined, SelectShip,
     ForwardCommand, userVars
<1> QED BY <1>3, <1>4, <1>5, <1>6, <1>7 DEF UserHandler

LEMMA UserServed ==
    ASSUME FlightInv, UserTypeOK, JoinInv, NEW m, UserHandler(m)
    PROVE  /\ \A c \in Client : ServedInv(c)'
           /\ \A b \in Bucket : IsFiniteSet(shipBucket'[b])
<1> USE DEF JoinInv
<1>0. shipBucket \in [Bucket -> SUBSET Client] /\ usersInfo \in [Client -> UserInfo]
  BY DEF UserTypeOK
<1>1. ASSUME UNCHANGED shipBucket, \A c \in Client : Owns(c)' <=> Owns(c)
      PROVE  /\ \A c \in Client : ServedInv(c)'
             /\ \A b \in Bucket : IsFiniteSet(shipBucket'[b])
  BY <1>1, StillServed
<1>2. CASE ProcessID(m) /\ HasUser(m.about)
  <2>1. m \in WayOf(m.about) /\ m.about \in Client /\ m.command = "ID"
    <3>1. m \in InFlight /\ m \in ProperMessage
      BY <1>2, HandleFlight DEF ProcessID, FlightInv
    <3> QED BY <1>2, <3>1 DEF ProcessID, ProperMessage, WayOf, OnWay
  <2> DEFINE c == m.about
  <2>2. ~Owns(c) /\ m.id # 0
    BY <2>1 DEF WayInv, Reached
  <2>3. \A b \in Bucket : Size(b) \in Nat
    BY FS_CardinalityType DEF Size
  <2>4. PICK l \in Bucket : shipBucket' = [shipBucket EXCEPT ![l] = @ \cup {c}]
    BY <1>2, <2>3, LeastBucketIsLeast DEF ProcessID, WithUser
  <2>5. \A b \in Bucket : shipBucket'[b] = IF b = l THEN shipBucket[b] \cup {c}
                                                   ELSE shipBucket[b]
    BY <1>0, <2>4
  <2>6. Owns(c)' /\ \A d \in Client \ {c} : Owns(d)' <=> Owns(d)
    <3>1. usersInfo' = [usersInfo EXCEPT ![c] = [usersInfo[c] EXCEPT !.id = m.id]]
      BY <1>2 DEF ProcessID
    <3>2. /\ [usersInfo[c] EXCEPT !.id = m.id].id = m.id
          /\ [usersInfo[c] EXCEPT !.id = m.id].entry = usersInfo[c].entry
      BY <1>0, <2>1 DEF UserInfo
    <3>3. /\ usersInfo'[c].id = m.id /\ usersInfo'[c].entry = usersInfo[c].entry
          /\ \A d \in Client \ {c} : usersInfo'[d] = usersInfo[d]
      BY <1>0, <2>1, <3>1, <3>2
    <3> QED BY <1>2, <2>2, <3>3 DEF Owns, HasUser
  <2>7. \A b \in Bucket : c \notin shipBucket[b]
    BY <2>1, <2>2 DEF ServedInv
  <2>8. ServedInv(c)'
    BY <2>5, <2>6, <2>7 DEF ServedInv, Bucket
  <2>9. \A d \in Client \ {c} : ServedInv(d)'
    BY <2>5, <2>6, StillServed
  <2>10. \A b \in Bucket : IsFiniteSet(shipBucket'[b])
    <3>1. \A b \in Bucket : IsFiniteSet(shipBucket[b] \cup {c})
      BY FS_AddElement
    <3>2. \A b \in Bucket : IsFiniteSet(shipBucket[b])
      OBVIOUS
    <3> QED BY <2>5, <3>1, <3>2
  <2> QED BY <2>8, <2>9, <2>10
<1>3. CASE Disconnect(m)
  <2>1. m.about \in Client
    <3>1. m \in ProperMessage
      BY <1>3, HandleFlight DEF Disconnect, FlightInv
    <3> QED BY <1>3, <3>1 DEF Disconnect, ProperMessage
  <2> DEFINE c == m.about
  <2>2. /\ usersInfo'[c] = NoEntry /\ shipBucket' = WithoutUser(c)
        /\ \A d \in Client \ {c} : usersInfo'[d] = usersInfo[d]
    BY <1>0, <1>3, <2>1 DEF Disconnect
  <2>3. ~Owns(c)' /\ \A d \in Client \ {c} : Owns(d)' <=> Owns(d)
    BY <2>2 DEF NoEntry, Owns, HasUser
  <2>4. \A b \in Bucket :
            shipBucket'[b] = IF \A o \in Bucket : o < b => c \notin shipBucket[o]
                             THEN shipBucket[b] \ {c} ELSE shipBucket[b]
    BY <2>2 DEF WithoutUser
  <2>5. \A b \in Bucket : c \notin shipBucket'[b]
    <3>1. CASE Owns(c)
      <4>1. PICK b \in Bucket : \A o \in Bucket : c \in shipBucket[o] <=> o = b
        BY <2>1, <3>1 DEF ServedInv
      <4>2. \A o \in Bucket : o < b => c \notin shipBucket[o]
        BY <4>1, UserAssumption DEF Bucket
      <4>3. shipBucket'[b] = shipBucket[b] \ {c}
        BY <2>4, <4>1, <4>2
      <4>4. \A o \in Bucket : shipBucket'[o] \subseteq shipBucket[o]
        BY <2>4
      <4> QED BY <4>1, <4>3, <4>4
    <3>2. CASE ~Owns(c)
      BY <2>1, <2>4, <3>2 DEF ServedInv
    <3> QED BY <3>1, <3>2
  <2>6. ServedInv(c)'
    BY <2>3, <2>5 DEF ServedInv, Bucket
  <2>7. \A d \in Client \ {c} : ServedInv(d)'
    BY <2>3, <2>4, StillServed
  <2>8. \A b \in Bucket : IsFiniteSet(shipBucket'[b])
    <3>1. \A b \in Bucket : IsFiniteSet(shipBucket[b] \ {c})
      BY FS_RemoveElement
    <3>2. \A b \in Bucket : IsFiniteSet(shipBucket[b])
      OBVIOUS
    <3> QED BY <2>4, <3>1, <3>2
  <2> QED BY <2>6, <2>7, <2>8
<1>4. CASE ProcessID(m) /\ ~HasUser(m.about)
  <2>1. /\ UNCHANGED shipBucket
        /\ usersInfo' = [usersInfo EXCEPT ![m.about] = Touched(m.about)]
    BY <1>4 DEF ProcessID
  <2>2. \A c \in Client : Owns(c)' <=> Owns(c)
    <3> SUFFICES ASSUME NEW c \in Client PROVE Owns(c)' <=> Owns(c)
      OBVIOUS
    <3>1. CASE c # m.about
      BY <1>0, <2>1, <3>1 DEF Owns, HasUser
    <3>2. CASE c = m.about
      BY <1>0, <1>4, <2>1, <3>2 DEF Touched, NullEntry, Owns, HasUser
    <3> QED BY <3>1, <3>2
  <2> QED BY <1>1, <2>1, <2>2
<1>5. CASE ~ProcessID(m) /\ ~Disconnect(m)
  <2>1. UNCHANGED shipBucket
    BY <1>5 DEF UserHandler, AddressForNobody, ProcessAddressResponse,
       CreateUserEndpoint, IgnoreJoin, SendJoined, SelectShip, ForwardCommand,
       Use, userVars
  <2>2. \A c \in Client : Owns(c)' <=> Owns(c)
    BY <1>5, OnlyIDsGiveShips, OnlyFarewellsTakeShips
  <2> QED BY <1>1, <2>1, <2>2
<1> QED BY <1>2, <1>3, <1>4, <1>5
-----------------------------------------------------------------------------
(* The other processes.                                                    *)

(* What they do leaves the user server's queue, users and buckets alone.   *)
LEMMA UsersStay ==
    ASSUME UNCHANGED <<usersInfo, pendingUsers, shipBucket>>
    PROVE  /\ WaitOnce => WaitOnce'
           /\ \A c : /\ Waiting(c)' <=> Waiting(c)
                     /\ Owns(c)' <=> Owns(c)
                     /\ ServedInv(c) => ServedInv(c)'
BY DEF WaitOnce, Waiting, Owns, HasUser, ServedInv

LEMMA GameWay ==
    ASSUME FlightInv, FlightInv', GameTypeOK, JoinInv, Once,
           NEW m, GameHandler(m), UNCHANGED <<userVars, clientVars>>
    PROVE  \A c \in Client : WayInv(c)'
<1> USE DEF JoinInv
<1>1. m \in ProperMessage /\ m \in InFlight
  <2>1. \E out : Handle(m, out)
    BY DEF GameHandler, Join, TakePlace, AddPlace, KeepShip, Leave, HandleFire
  <2> QED BY <2>1, HandleFlight DEF FlightInv
<1>2. /\ \A c : (Waiting(c)' <=> Waiting(c)) /\ (Owns(c)' <=> Owns(c))
      /\ client' = client /\ starts' = starts
  BY UsersStay DEF userVars, clientVars
<1>3. ASSUME NEW c \in Client, NEW out, Handle(m, out),
             \A x \in out : ~OnWay(x) \/ x.about # c
      PROVE  WayInv(c)'
  <2>1. \A x \in WayOf(c)' : x \in WayOf(c) /\ Copies(x)' <= Copies(x)
    BY <1>3, StayedOn
  <2> QED BY <1>2, <2>1, StillOnWay
<1>4. ASSUME NEW p, Handle(m, {p}), m.command \in {"JOIN", "SELECT_SHIP"},
             p.about = m.about, p.command \in {"JOINED", "ID"},
             p.command = "ID" => p.id # 0
      PROVE  \A c \in Client : WayInv(c)'
  <2> DEFINE c == m.about
  <2>1. c \in Client /\ m \in WayOf(c)
    BY <1>1, <1>4 DEF ProperMessage, WayOf, OnWay
  <2>2. \A x \in WayOf(c)' : x = p /\ Copies(x)' = 1
    BY <1>4, <2>1, PassedOn
  <2>3. /\ ~Waiting(c) /\ Reached(c, m) /\ starts[c] # 0
        /\ client[c].status # "aborted"
    BY <2>1 DEF WayInv
  <2>4. ~Waiting(c)' /\ starts'[c] # 0 /\ client'[c].status # "aborted"
    BY <1>2, <2>3
  <2>5. Reached(c, p)'
    BY <1>2, <1>4, <2>3 DEF Reached, Informed, IsOn
  <2>6. WayInv(c)'
    BY <2>1, <2>2, <2>4, <2>5, NowOnWay
  <2>7. \A d \in Client \ {c} : WayInv(d)'
    BY <1>3, <1>4
  <2> QED BY <2>6, <2>7
<1>5. CASE Join(m)
  <2>1. /\ JoinedPacket(m.about).command = "JOINED"
        /\ JoinedPacket(m.about).about = m.about
    BY UserPackets DEF JoinedPacket
  <2> QED BY <1>4, <1>5, <2>1 DEF Join
<1>6. ASSUME NEW id \in Nat \ {0}, m.command = "SELECT_SHIP",
             Handle(m, {IDPacket(m.about, id)})
      PROVE  \A c \in Client : WayInv(c)'
  <2>1. /\ IDPacket(m.about, id).command = "ID"
        /\ IDPacket(m.about, id).about = m.about
        /\ IDPacket(m.about, id).id = id
    BY DEF IDPacket, Plain
  <2> QED BY <1>4, <1>6, <2>1
<1>7. CASE TakePlace(m)
  <2>1. /\ m.command = "SELECT_SHIP" /\ available # <<>> /\ Head(available) >= 0
        /\ Handle(m, {IDPacket(m.about, IdAt(Head(available)))})
    BY <1>7 DEF TakePlace
  <2>2. Head(available) \in -1..(MaxShip - 1)
    BY <2>1, HeadTailProperties DEF GameTypeOK
  <2>3. IdAt(Head(available)) \in Nat \ {0}
    BY <2>1, <2>2, NetworkAssumption DEF IdAt
  <2> QED BY <1>6, <2>1, <2>3
<1>8. CASE AddPlace(m)
  <2>1. IdAt(Len(entities)) \in Nat \ {0}
    BY LenProperties DEF GameTypeOK, IdAt
  <2> QED BY <1>6, <1>8, <2>1 DEF AddPlace
<1>9. CASE KeepShip(m) \/ Leave(m) \/ HandleFire(m)
  <2>1. Handle(m, {})
    BY <1>9 DEF KeepShip, Leave, HandleFire
  <2> QED BY <1>3, <2>1
<1> QED BY <1>5, <1>7, <1>8, <1>9 DEF GameHandler

LEMMA ClientWay ==
    ASSUME FlightInv, FlightInv', ClientTypeOK, JoinInv, Once,
           NEW c \in Client, NEW m, ClientHandler(c, m), UNCHANGED userVars
    PROVE  \A d \in Client : WayInv(d)'
<1> USE DEF JoinInv
<1>0. client \in [Client -> Process] /\ client[c] \in Process
  BY DEF ClientTypeOK
<1>1. /\ m \in WayOf(c) /\ IsOn(c)
      /\ starts' = starts /\ \A d \in Client \ {c} : client'[d] = client[d]
  <2>1. (\E out : Handle(m, out)) /\ m.to = c
    BY DEF ClientHandler, TakeAddress, ChooseShip, GetReady
  <2>2. m \in ProperMessage /\ m \in InFlight
    BY <2>1, HandleFlight DEF FlightInv
  <2>3. OnWay(m)
    BY <2>1 DEF ClientHandler, TakeAddress, ChooseShip, GetReady, OnWay
  <2> QED BY <1>0, <2>1, <2>2, <2>3
          DEF ProperMessage, WayOf, ClientHandler, TakeAddress, ChooseShip, GetReady
<1>2. \A d : (Waiting(d)' <=> Waiting(d)) /\ (Owns(d)' <=> Owns(d))
  BY UsersStay DEF userVars
<1>3. ASSUME NEW d \in Client, d # c, NEW out, Handle(m, out),
             \A x \in out : x.about = c
      PROVE  WayInv(d)'
  <2>1. \A x \in WayOf(d)' : x \in WayOf(d) /\ Copies(x)' <= Copies(x)
    BY <1>3, StayedOn
  <2> QED BY <1>1, <1>2, <1>3, <2>1, StillOnWay
<1>4. /\ ~Waiting(c) /\ Reached(c, m) /\ starts[c] # 0
      /\ client[c].status # "aborted"
  BY <1>1 DEF WayInv
<1>5. ASSUME NEW p, Handle(m, {p}), p.about = c, m.command # "READY",
             p.command \notin {"READY", "ID", "ADDRESS"},
             client'[c].addressed, ~client'[c].active, client'[c].status # "aborted"
      PROVE  \A d \in Client : WayInv(d)'
  <2>1. \A x \in WayOf(c)' : x = p /\ Copies(x)' = 1
    BY <1>1, <1>5, PassedOn
  <2>2. Reached(c, p)'
    BY <1>2, <1>4, <1>5 DEF Reached, Informed
  <2>3. WayInv(c)'
    BY <1>1, <1>2, <1>4, <1>5, <2>1, <2>2, NowOnWay
  <2> QED BY <1>3, <1>5, <2>3
<1>6. CASE TakeAddress(c, m)
  <2>1. /\ Handle(m, {JoinRequest(c)}) /\ m.command = "ADDRESS"
        /\ client' = [client EXCEPT ![c] = [client[c] EXCEPT !.addressed = TRUE]]
    BY <1>6 DEF TakeAddress
  <2>2. client'[c] = [client[c] EXCEPT !.addressed = TRUE]
    BY <1>0, <2>1
  <2>3. /\ client'[c].addressed /\ client'[c].active = client[c].active
        /\ client'[c].status = client[c].status
    BY <1>0, <2>2 DEF Process
  <2>4. JoinRequest(c).about = c /\ JoinRequest(c).command = "JOIN"
    BY UserPackets DEF JoinRequest
  <2> QED BY <1>4, <1>5, <2>1, <2>3, <2>4 DEF Reached
<1>7. CASE ChooseShip(c, m)
  <2>1. m.command = "JOINED" /\ client[c].addressed
    BY <1>1, <1>4, <1>7 DEF ChooseShip, Reached, Informed
  <2>2. Handle(m, {ShipRequest(c)}) /\ UNCHANGED client
    BY <1>7, <2>1 DEF ChooseShip
  <2>3. ShipRequest(c).about = c /\ ShipRequest(c).command = "SELECT_SHIP"
    BY UserPackets DEF ShipRequest
  <2> QED BY <1>4, <1>5, <2>1, <2>2, <2>3 DEF Reached
<1>8. CASE GetReady(c, m)
  <2>1. m.command = "READY" /\ Handle(m, {}) /\ ~client[c].active
        /\ client[c].addressed
    BY <1>1, <1>4, <1>8 DEF GetReady, Reached, Informed
  <2>2. client' = [client EXCEPT ![c] = [client[c] EXCEPT !.active = TRUE]]
    BY <1>8, <2>1 DEF GetReady
  <2>3. client'[c] = [client[c] EXCEPT !.active = TRUE]
    BY <1>0, <2>2
  <2>4. client'[c].addressed /\ client'[c].status = client[c].status
    BY <1>0, <2>1, <2>3 DEF Process
  <2>5. WayOf(c)' = {}
    <3>1. \A x \in WayOf(c)' : x \in {}
      BY <1>1, <2>1, PassedOn
    <3> QED BY <3>1
  <2>6. WayInv(c)'
    BY <1>1, <1>2, <1>4, <2>4, <2>5 DEF WayInv
  <2> QED BY <1>3, <2>1, <2>6
<1> QED BY <1>6, <1>7, <1>8 DEF ClientHandler
(* A step that sends nothing of the way, and that no client takes.         *)
LEMMA NobodysWay ==
    ASSUME FlightInv, FlightInv', JoinInv, Once,
           UNCHANGED <<usersInfo, pendingUsers, shipBucket, clientVars>>,
           \/ UNCHANGED net
           \/ \E m, out : Handle(m, out) /\ \A x \in out : ~OnWay(x)
           \/ \E out : Emit(out) /\ \A x \in out : ~OnWay(x)
           \/ \E m : Drop(m)
    PROVE  JoinInv'
<1> USE DEF JoinInv
<1>1. ASSUME NEW c \in Client
      PROVE  \A x \in WayOf(c)' : x \in WayOf(c) /\ Copies(x)' <= Copies(x)
  <2>1. CASE UNCHANGED net
    BY <2>1, FlightCounted DEF WayOf, OnWay, Copies, InFlight
  <2>2. CASE \E m, out : Handle(m, out) /\ \A x \in out : ~OnWay(x)
    BY <2>2, StayedOn
  <2>3. CASE \E out : Emit(out) /\ \A x \in out : ~OnWay(x)
    BY <2>3, EmitStayedOn
  <2>4. ASSUME NEW m, Drop(m)
        PROVE  \A x \in WayOf(c)' : x \in WayOf(c) /\ Copies(x)' <= Copies(x)
    <3>1. IsABag(net)
      BY DEF FlightInv
    <3>2. /\ InFlight' \subseteq InFlight
          /\ \A x : Copies(x)' <= Copies(x)
      BY <2>4, <3>1, DropFlight, FlightCounted
    <3> QED BY <3>2 DEF WayOf, OnWay
  <2> QED BY <2>1, <2>2, <2>3, <2>4
<1>2. \A c \in Client : WayInv(c)'
  BY <1>1, UsersStay, StillOnWay DEF clientVars
<1> QED BY <1>2, UsersStay
LEMMA PlayerWay ==
    ASSUME FlightInv, FlightInv', ClientTypeOK, JoinInv, Once,
           NEW c \in Client, PlayerStep(c)
    PROVE  JoinInv'
<1> USE DEF JoinInv
<1>0. /\ client \in [Client -> Process]
      /\ UNCHANGED <<usersInfo, pendingUsers, shipBucket>>
  BY DEF ClientTypeOK, PlayerStep, userVars
<1>1. CASE Interrupt(c)
  <2>1. PICK out \in SUBSET {Farewell(c)} : Emit(out)
    BY <1>1 DEF Interrupt
  <2>2. \A x \in out : ~OnWay(x)
    BY <2>1, UserPackets DEF Farewell, OnWay
  <2>3. /\ starts' = starts
        /\ \A d \in Client : client'[d] = client[d] \/ client'[d] = Off
    BY <1>0, <1>1 DEF Interrupt
  <2>4. \A d \in Client :
            \A x \in WayOf(d)' : x \in WayOf(d) /\ Copies(x)' <= Copies(x)
    BY <2>1, <2>2, EmitStayedOn
  <2>5. \A d \in Client : WayInv(d)'
    BY <1>0, <2>3, <2>4, UsersStay, StillOnWay
  <2> QED BY <1>0, <2>5, UsersStay
<1>2. ASSUME NEW command \in Sends, Move(c, command) PROVE JoinInv'
  <2>1. client[c].addressed
    BY <1>2 DEF Move, WayInv
  <2>2. /\ Emit({Reliable("user", command, c, 0)})
        /\ UNCHANGED clientVars
    BY <1>2, <2>1 DEF Move, clientVars
  <2>3. ~OnWay(Reliable("user", command, c, 0))
    BY ClientAssumption, UserPackets DEF OnWay
  <2>4. \E out : Emit(out) /\ \A x \in out : ~OnWay(x)
    BY <2>2, <2>3
  <2> QED BY <1>0, <2>2, <2>4, NobodysWay
<1> QED BY <1>1, <1>2 DEF PlayerStep

(* Nothing of a client that was never started is anywhere.                 *)
LEMMA StartWay ==
    ASSUME FlightInv, FlightInv', ClientTypeOK, JoinInv, MaxStarts <= 1,
           NEW c \in Client, StartStep(c)
    PROVE  JoinInv'
<1> USE DEF JoinInv
<1> DEFINE p == Plain(c, "ADDRESS", c, 0)
<1>1. /\ UNCHANGED <<usersInfo, pendingUsers, shipBucket>>
      /\ client \in [Client -> Process] /\ starts \in [Client -> 0..MaxStarts]
      /\ starts[c] < MaxStarts /\ starts' = [starts EXCEPT ![c] = starts[c] + 1]
      /\ client' = [client EXCEPT ![c] = Fresh]
      /\ Emit({p})
  BY DEF ClientTypeOK, StartStep, Start, Begin, userVars
<1>2. p.about = c /\ p.command = "ADDRESS"
  BY UserPackets
<1> HIDE DEF p
<1>3. starts[c] = 0
  BY <1>1, ClientAssumption
<1>4. /\ starts'[c] # 0 /\ client'[c] = Fresh
      /\ \A d \in Client \ {c} : starts'[d] = starts[d] /\ client'[d] = client[d]
  BY <1>1, <1>3
<1>5. WayOf(c) = {} /\ ~Waiting(c)' /\ ~Owns(c)'
  BY <1>1, <1>3, UsersStay DEF WayInv
<1>6. ASSUME NEW x \in WayOf(c)' PROVE x = p /\ Copies(x)' = 1
  <2>1. OnWay(x) /\ x.about = c /\ x \in InFlight' /\ IsABag(net)
    BY <1>6 DEF WayOf, OnWay, FlightInv
  <2>2. Copies(x)' = Copies(x) + (IF x = p THEN 1 ELSE 0)
    BY <1>1, <2>1, EmitFlight
  <2>3. Copies(x) = 0
    BY <1>5, <2>1, FlightCounted DEF WayOf
  <2> QED BY <2>1, <2>2, <2>3, FlightCounted
<1>7. Reached(c, p)'
  BY <1>2, <1>4, <1>5 DEF Reached, Fresh
<1>8. WayInv(c)'
  BY <1>4, <1>5, <1>6, <1>7, NowOnWay DEF Fresh
<1>9. \A d \in Client \ {c} : WayInv(d)'
  <2>1. \A d \in Client \ {c} :
            \A x \in WayOf(d)' : x \in WayOf(d) /\ Copies(x)' <= Copies(x)
    BY <1>1, <1>2, EmitStayedOn
  <2> QED BY <1>1, <1>4, <2>1, UsersStay, StillOnWay
<1> QED BY <1>1, <1>8, <1>9, UsersStay

LEMMA NextJoin ==
    ASSUME TypeInv, TypeInv', JoinInv, Once, MaxStarts <= 1, Next
    PROVE  JoinInv'
<1> USE DEF TypeInv
<1>1. CASE MasterStep
  <2>1. PICK m : MasterHandler(m)
    BY <1>1 DEF MasterStep
  <2>2. PICK out : /\ Handle(m, out)
                   /\ \A x \in out : x.command = "ADDRESS" /\ x.to \in registered
    BY <2>1 DEF MasterHandler, RegisterServer, IgnoreRequest, AnswerRequest,
       AnswerFromNothing, Plain
  <2>3. \A x \in out : ~OnWay(x)
    BY <2>2, MasterAssumption, NetworkAssumption DEF OnWay, Server, MasterTypeOK
  <2>4. UNCHANGED <<usersInfo, pendingUsers, shipBucket, clientVars>>
    BY <1>1 DEF MasterStep, userVars
  <2> QED BY <2>2, <2>3, <2>4, NobodysWay
<1>2. CASE UserStep(InFlight)
  <2>1. PICK m : UserHandler(m)
    BY <1>2 DEF UserStep
  <2> QED BY <1>2, <2>1, UserWay, UserServed DEF UserStep, JoinInv, Bucket
<1>3. CASE GameStep(InFlight)
  <2>1. \A c \in Client : WayInv(c)'
    BY <1>3, GameWay DEF GameStep
  <2> QED BY <1>3, <2>1, UsersStay DEF GameStep, userVars, JoinInv
<1>4. ASSUME NEW c \in Client, ClientStep(c) PROVE JoinInv'
  <2>1. \A d \in Client : WayInv(d)'
    BY <1>4, ClientWay DEF ClientStep
  <2> QED BY <1>4, <2>1, UsersStay DEF ClientStep, userVars, JoinInv
<1>5. CASE ShotStep \/ FrameStep
  <2>1. UNCHANGED <<net, usersInfo, pendingUsers, shipBucket, clientVars>>
    BY <1>5 DEF ShotStep, FireOnce, FrameStep, NextFrame, userVars
  <2> QED BY <2>1, NobodysWay
<1>6. CASE RetryStep
  <2>1. /\ UNCHANGED <<usersInfo, pendingUsers, shipBucket, clientVars>>
        /\ Emit({RequestServer})
    BY <1>6 DEF RetryStep, RetryRequest
  <2>2. \E out : Emit(out) /\ \A x \in out : ~OnWay(x)
    BY <2>1, UserPackets
  <2> QED BY <2>1, <2>2, NobodysWay
<1>7. CASE RestartStep
  <2>1. /\ UNCHANGED <<usersInfo, pendingUsers, shipBucket, clientVars>>
        /\ Emit(CallsOf(Running))
    BY <1>7 DEF RestartStep, RestartMaster, userVars
  <2>2. \A x \in CallsOf(Running) : ~OnWay(x)
    BY UserPackets DEF CallsOf, OnWay
  <2> QED BY <2>1, <2>2, NobodysWay
<1>8. CASE LoseStep
  <2>1. /\ UNCHANGED <<usersInfo, pendingUsers, shipBucket, clientVars>>
        /\ \E m : Drop(m)
    BY <1>8 DEF LoseStep, userVars
  <2> QED BY <2>1, NobodysWay
<1> QED BY <1>1, <1>2, <1>3, <1>4, <1>5, <1>6, <1>7, <1>8, PlayerWay, StartWay
        DEF Next, PlayStep

LEMMA JoinInvariant ==
    ASSUME Once, MaxStarts <= 1
    PROVE  Spec => []JoinInv
<1>1. Init => JoinInv
  <2> SUFFICES ASSUME Init PROVE JoinInv
    OBVIOUS
  <2>1. \A c : WayOf(c) = {}
    BY FirstFlight, UserPackets DEF Init, CallsOf, WayOf, OnWay
  <2>2. DOMAIN pendingUsers = {} /\ \A c \in Client : ~Owns(c) /\ client[c] = Off
    BY DEF Init, UserInit, ClientInit, NoEntry, Owns, HasUser
  <2>3. \A b \in Bucket : shipBucket[b] = {}
    BY DEF Init, UserInit
  <2>4. WaitOnce /\ \A c \in Client : WayInv(c)
    BY <2>1, <2>2 DEF WaitOnce, WayInv, Waiting, Off
  <2> QED BY <2>2, <2>3, <2>4, FS_EmptySet DEF JoinInv, ServedInv
<1>2. TypeInv /\ TypeInv' /\ JoinInv /\ [Next]_vars => JoinInv'
  <2>1. TypeInv /\ TypeInv' /\ JoinInv /\ UNCHANGED vars => JoinInv'
    BY NobodysWay DEF TypeInv, vars, userVars
  <2> QED BY <2>1, NextJoin
<1> QED BY <1>1, <1>2, TypeInvariant, PTL DEF Spec

(* A client that is started once hears READY once, and hears of its server *)
(* before it is asked for a ship, so its process never aborts.             *)
THEOREM ClientsDoNotAbort ==
    ASSUME Once, MaxStarts <= 1
    PROVE  Spec => []NoClientAborts
<1>1. JoinInv => NoClientAborts
  BY DEF JoinInv, WayInv, NoClientAborts
<1> QED BY <1>1, JoinInvariant, PTL

(* Whoever has a ship is served in one frame of each round, and nobody     *)
(* else in any, whatever order the packets come in and whoever leaves.     *)
THEOREM PlayersAreServedOnce ==
    ASSUME Once, MaxStarts <= 1
    PROVE  Spec => []ServedOnce
<1>1. JoinInv => ServedOnce
  <2> SUFFICES ASSUME JoinInv, NEW c \in Client
               PROVE  Cardinality({b \in Bucket : c \in shipBucket[b]})
                          = IF HasUser(c) /\ usersInfo[c].id # 0 THEN 1 ELSE 0
    BY DEF ServedOnce
  <2>1. CASE Owns(c)
    <3>1. PICK b \in Bucket : \A o \in Bucket : c \in shipBucket[o] <=> o = b
      BY <2>1 DEF JoinInv, ServedInv
    <3>2. {o \in Bucket : c \in shipBucket[o]} = {b}
      BY <3>1
    <3> QED BY <2>1, <3>2, FS_Singleton DEF Owns
  <2>2. CASE ~Owns(c)
    <3>1. {o \in Bucket : c \in shipBucket[o]} = {}
      BY <2>2 DEF JoinInv, ServedInv
    <3> QED BY <2>2, <3>1, FS_EmptySet DEF Owns
  <2> QED BY <2>1, <2>2
<1> QED BY <1>1, JoinInvariant, PTL
=============================================================================
