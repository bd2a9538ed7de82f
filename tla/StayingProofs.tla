--------------------------- MODULE StayingProofs ---------------------------
(***************************************************************************)
(* What holds while no client is interrupted: nobody says farewell, so the *)
(* frames of the user server stay in balance, and the place of a ship in   *)
(* the game server stays its own.                                          *)
(***************************************************************************)
EXTENDS SpaceQuestProofs, FiniteSetTheorems, WellFoundedInduction

NobodyLeaves == \A m \in InFlight : m.command # "DISCONNECT"

(* Whatever process handles a message, none but a DISCONNECT makes it send *)
(* one.                                                                    *)
LEMMA HandleStays ==
    ASSUME FlightInv, NobodyLeaves, NEW m, NEW out, Handle(m, out),
           \A x \in out : x.command # "DISCONNECT"
    PROVE  NobodyLeaves' /\ m.command # "DISCONNECT"
BY HandleFlight DEF FlightInv, NobodyLeaves

LEMMA EmitStays ==
    ASSUME FlightInv, NobodyLeaves, NEW out, Emit(out),
           \A x \in out : x.command # "DISCONNECT"
    PROVE  NobodyLeaves'
BY EmitFlight DEF FlightInv, NobodyLeaves

LEMMA Commands ==
    \A to, command, about, id :
        /\ Plain(to, command, about, id).command = command
        /\ Reliable(to, command, about, id).command = command
        /\ Plain(to, command, about, id).about = about
        /\ Reliable(to, command, about, id).about = about
        /\ Plain(to, command, about, id).id = id
        /\ Reliable(to, command, about, id).id = id
BY DEF Plain, Reliable

-----------------------------------------------------------------------------
(* Ships and those who steer them.                                         *)

(* The id in a user, in the packet that brings it, and in a command, is    *)
(* that of a ship made for the client.                                     *)
ShipOf(id, c) == id \in DOMAIN entities /\ entities[id] = c
ShipsInv ==
    /\ NobodyLeaves
    /\ available = <<>>
    /\ \A m \in InFlight :
          m.command \in {"ID", "FIRE"} /\ m.id # 0 => ShipOf(m.id, m.about)
    /\ \A c \in Client : Owns(c) => ShipOf(usersInfo[c].id, c)

(* A step that moves no ship and sends commands and ids of ships only.     *)
LEMMA ShipsStay ==
    ASSUME ShipsInv, NobodyLeaves', UNCHANGED available,
           \A x \in InFlight' \ InFlight :
               x.command \in {"ID", "FIRE"} /\ x.id # 0 => ShipOf(x.id, x.about)',
           \A c \in Client : Owns(c)' =>
               \/ Owns(c) /\ usersInfo'[c].id = usersInfo[c].id
               \/ ShipOf(usersInfo'[c].id, c),
           \A id \in DOMAIN entities :
               id \in DOMAIN entities' /\ entities'[id] = entities[id]
    PROVE  ShipsInv'
BY DEF ShipsInv, ShipOf

(* A user server without DISCONNECTs passes ids and commands on.           *)
LEMMA UserShips ==
    ASSUME FlightInv, UserTypeOK, ShipsInv, NEW m, UserHandler(m),
           UNCHANGED gameVars
    PROVE  ShipsInv'
<1>1. UNCHANGED <<entities, available>>
  BY DEF gameVars
<1>2. \A id, c : ShipOf(id, c)' <=> ShipOf(id, c)
  BY <1>1 DEF ShipOf
<1>3. /\ m \in InFlight /\ m \in ProperMessage
      /\ m.command # "DISCONNECT"
      /\ m.command \in {"JOIN", "JOINED", "ID", "DISCONNECT", "SELECT_SHIP",
                        "FIRE", "USE"} => m.about \in Client
  <2>1. \E out : Handle(m, out)
    BY DEF UserHandler, AddressForNobody, ProcessAddressResponse,
       CreateUserEndpoint, IgnoreJoin, SendJoined, ProcessID, Disconnect,
       SelectShip, ForwardCommand, Use
  <2>2. m \in ProperMessage /\ m \in InFlight
    BY <2>1, HandleFlight DEF FlightInv
  <2> QED BY <2>2 DEF ProperMessage, ShipsInv, NobodyLeaves
<1>4. ASSUME NEW out, Handle(m, out),
             \A x \in out : /\ x.command # "DISCONNECT"
                            /\ x.command \in {"ID", "FIRE"} /\ x.id # 0
                                 => ShipOf(x.id, x.about),
             \A c \in Client : \/ usersInfo'[c] = usersInfo[c]
                               \/ usersInfo'[c].id = 0
                               \/ /\ usersInfo'[c].id = usersInfo[c].id
                                  /\ usersInfo'[c].entry = usersInfo[c].entry
                               \/ ShipOf(usersInfo'[c].id, c)
      PROVE  ShipsInv'
  <2>1. NobodyLeaves' /\ InFlight' \subseteq InFlight \cup out
    BY <1>4, HandleStays, HandleFlight DEF ShipsInv, FlightInv
  <2>2. \A c \in Client : Owns(c)' =>
            \/ Owns(c) /\ usersInfo'[c].id = usersInfo[c].id
            \/ ShipOf(usersInfo'[c].id, c)
    BY <1>4 DEF Owns, HasUser
  <2> QED BY <1>1, <1>2, <1>4, <2>1, <2>2, ShipsStay
<1>5. ASSUME NEW c \in Client PROVE /\ usersInfo[c] \in UserInfo
                                    /\ Touched(c).id = 0 \/ Touched(c) = usersInfo[c]
  BY DEF UserTypeOK, Touched, NullEntry
<1>6. CASE AddressForNobody(m) \/ IgnoreJoin(m)
  <2>1. Handle(m, {}) /\ UNCHANGED usersInfo
    BY <1>6 DEF AddressForNobody, IgnoreJoin, userVars
  <2> QED BY <1>4, <2>1
<1>7. CASE ProcessAddressResponse(m)
  <2> DEFINE c == Head(pendingUsers)
  <2>1. CASE HasUser(c)
    <3>1. /\ Handle(m, {JoinServer(c)}) /\ JoinServer(c).command = "JOIN"
          /\ usersInfo' = [usersInfo EXCEPT
                              ![c] = [usersInfo[c] EXCEPT !.addressed = TRUE]]
      BY <1>7, <2>1, Commands DEF ProcessAddressResponse, JoinServer
    <3>2. \A e \in Client :
              LET info == [usersInfo[e] EXCEPT !.addressed = TRUE]
              IN  info.id = usersInfo[e].id /\ info.entry = usersInfo[e].entry
      BY <1>5 DEF UserInfo
    <3>3. \A e \in Client : \/ usersInfo'[e] = usersInfo[e]
                            \/ /\ usersInfo'[e].id = usersInfo[e].id
                               /\ usersInfo'[e].entry = usersInfo[e].entry
      BY <3>1, <3>2 DEF UserTypeOK
    <3> QED BY <1>4, <3>1, <3>3
  <2>2. CASE ~HasUser(c)
    <3>1. Handle(m, {}) /\ usersInfo' = [usersInfo EXCEPT ![c] = Touched(c)]
      BY <1>7, <2>2 DEF ProcessAddressResponse
    <3>2. \A e \in Client : usersInfo'[e] = usersInfo[e] \/ usersInfo'[e].id = 0
      BY <1>5, <3>1 DEF UserTypeOK
    <3> QED BY <1>4, <3>1, <3>2
  <2> QED BY <2>1, <2>2
<1>8. CASE CreateUserEndpoint(m)
  <2>1. /\ Handle(m, {RequestServer})
        /\ usersInfo' = [usersInfo EXCEPT ![m.about] = NewUser]
        /\ RequestServer.command = "REQUEST_ADDRESS" /\ NewUser.id = 0
    BY <1>8, Commands DEF CreateUserEndpoint, RequestServer, NewUser
  <2>2. \A e \in Client : usersInfo'[e] = usersInfo[e] \/ usersInfo'[e].id = 0
    BY <2>1 DEF UserTypeOK
  <2> QED BY <1>4, <2>1, <2>2
<1>9. CASE SendJoined(m)
  <2>1. PICK out \in SUBSET {Reliable(m.about, "JOINED", m.about, 0)} :
            Handle(m, out)
    BY <1>9 DEF SendJoined
  <2>2. UNCHANGED usersInfo /\ \A x \in out : x.command = "JOINED"
    BY <1>9, Commands DEF SendJoined, userVars
  <2> QED BY <1>4, <2>1, <2>2
<1>10. CASE ProcessID(m)
  <2>1. /\ m.command = "ID" /\ m.about \in Client
        /\ m.id = 0 \/ ShipOf(m.id, m.about)
    BY <1>3, <1>10 DEF ProcessID, ShipsInv
  <2>2. PICK out \in SUBSET {Ready(m.about, m.id)} : Handle(m, out)
    BY <1>10 DEF ProcessID
  <2>3. \A x \in out : x.command = "READY"
    BY <2>2, Commands DEF Ready
  <2>4. \/ usersInfo' = [usersInfo EXCEPT ![m.about] = Touched(m.about)]
        \/ usersInfo' = [usersInfo EXCEPT
                            ![m.about] = [usersInfo[m.about] EXCEPT !.id = m.id]]
    BY <1>10 DEF ProcessID
  <2>5. [usersInfo[m.about] EXCEPT !.id = m.id].id = m.id
    BY <1>5, <2>1 DEF UserInfo
  <2>6. \A e \in Client : \/ usersInfo'[e] = usersInfo[e]
                          \/ usersInfo'[e].id = 0
                          \/ ShipOf(usersInfo'[e].id, e)
    BY <1>5, <2>1, <2>4, <2>5 DEF UserTypeOK
  <2> QED BY <1>4, <2>2, <2>3, <2>6
<1>11. CASE SelectShip(m)
  <2>1. \A x \in ToGame(m.about, "SELECT_SHIP") : x.command = "SELECT_SHIP"
    BY Commands DEF ToGame
  <2>2. PICK out \in SUBSET ToGame(m.about, "SELECT_SHIP") : Handle(m, out)
    BY <1>11 DEF SelectShip
  <2>3. UNCHANGED usersInfo /\ \A x \in out : x.command = "SELECT_SHIP"
    BY <1>11, <2>1 DEF SelectShip
  <2> QED BY <1>4, <2>2, <2>3
<1>12. CASE ForwardCommand(m)
  <2>1. PICK out \in SUBSET {Reliable("game", "FIRE", m.about, usersInfo[m.about].id)} :
            Handle(m, out) /\ (out # {} => HasUser(m.about))
    BY <1>12 DEF ForwardCommand, ToGame
  <2>2. m.about \in Client /\ UNCHANGED usersInfo
    BY <1>3, <1>12 DEF ForwardCommand, userVars
  <2>3. ASSUME NEW x \in out
        PROVE  /\ x.command = "FIRE"
               /\ x.id # 0 => ShipOf(x.id, x.about)
    <3>1. x.command = "FIRE" /\ x.about = m.about /\ x.id = usersInfo[m.about].id
      BY <2>1, Commands
    <3> QED BY <2>1, <2>2, <3>1 DEF ShipsInv, Owns
  <2> QED BY <1>4, <2>1, <2>2, <2>3
<1>13. CASE Use(m)
  <2>1. /\ Handle(m, {})
        /\ usersInfo' = [usersInfo EXCEPT ![m.about] = Touched(m.about)]
    BY <1>13 DEF Use
  <2>2. \A e \in Client : usersInfo'[e] = usersInfo[e] \/ usersInfo'[e].id = 0
    BY <1>5, <2>1 DEF UserTypeOK
  <2> QED BY <1>4, <2>1, <2>2
<1> QED BY <1>3, <1>6, <1>7, <1>8, <1>9, <1>10, <1>11, <1>12, <1>13
        DEF UserHandler, Disconnect

(* The game server hands out ids of the ships it makes, and while nobody   *)
(* leaves, it makes them at the end.                                       *)
LEMMA GameShips ==
    ASSUME FlightInv, GameTypeOK, ShipsInv, NEW m, GameHandler(m),
           UNCHANGED userVars
    PROVE  ShipsInv'
<1>1. /\ m \in ProperMessage /\ m.command # "DISCONNECT"
      /\ m.command \in {"JOIN", "SELECT_SHIP", "FIRE"} => m.about \in Client
  <2>1. \E out : Handle(m, out)
    BY DEF GameHandler, Join, TakePlace, AddPlace, KeepShip, Leave, HandleFire
  <2>2. m \in ProperMessage /\ m \in InFlight
    BY <2>1, HandleFlight DEF FlightInv
  <2> QED BY <2>2 DEF ProperMessage, ShipsInv, NobodyLeaves
<1>2. available = <<>>
  BY DEF ShipsInv
<1>3. ASSUME NEW out, Handle(m, out), UNCHANGED available,
             \A x \in out : /\ x.command # "DISCONNECT"
                            /\ x.command \in {"ID", "FIRE"} /\ x.id # 0
                                 => ShipOf(x.id, x.about)',
             \A k \in DOMAIN entities : k \in DOMAIN entities' /\ entities'[k] = entities[k]
      PROVE  ShipsInv'
  <2>1. NobodyLeaves' /\ InFlight' \subseteq InFlight \cup out
    BY <1>3, HandleStays, HandleFlight DEF ShipsInv, FlightInv
  <2>2. \A c \in Client : Owns(c)' => Owns(c) /\ usersInfo'[c].id = usersInfo[c].id
    BY DEF userVars, Owns, HasUser
  <2> QED BY <1>3, <2>1, <2>2, ShipsStay
<1>4. CASE Join(m)
  <2>1. /\ Handle(m, {JoinedPacket(m.about)}) /\ UNCHANGED <<entities, available>>
        /\ JoinedPacket(m.about).command = "JOINED"
    BY <1>4, Commands DEF Join, JoinedPacket
  <2> QED BY <1>3, <2>1
<1>5. CASE AddPlace(m)
  <2> DEFINE id == Len(entities) + 1
  <2>1. /\ entities \in Seq(Entity) /\ Len(entities) \in Nat
        /\ DOMAIN entities = 1..Len(entities)
    BY LenProperties DEF GameTypeOK
  <2>2. /\ Handle(m, {IDPacket(m.about, id)}) /\ m.command = "SELECT_SHIP"
        /\ entities' = Append(entities, m.about) /\ UNCHANGED available
    BY <1>2, <1>5 DEF AddPlace, IdAt
  <2>3. m.about \in Entity
    BY <1>1, <2>2 DEF Entity
  <2>4. /\ Append(entities, m.about) \in Seq(Entity)
        /\ Len(Append(entities, m.about)) = Len(entities) + 1
        /\ \A k \in 1..Len(entities) : Append(entities, m.about)[k] = entities[k]
        /\ Append(entities, m.about)[Len(entities) + 1] = m.about
    BY <2>1, <2>3, AppendProperties
  <2>5. /\ id \in DOMAIN entities' /\ entities'[id] = m.about
        /\ \A k \in DOMAIN entities : k \in DOMAIN entities' /\ entities'[k] = entities[k]
    BY <2>1, <2>2, <2>4, LenProperties
  <2>6. /\ IDPacket(m.about, id).command = "ID"
        /\ IDPacket(m.about, id).id = id /\ IDPacket(m.about, id).about = m.about
    BY Commands DEF IDPacket
  <2>7. ASSUME NEW x, x = IDPacket(m.about, id) PROVE ShipOf(x.id, x.about)'
    BY <2>5, <2>6, <2>7 DEF ShipOf
  <2> HIDE DEF id
  <2> QED BY <1>3, <2>2, <2>5, <2>6, <2>7
<1>6. CASE KeepShip(m)
  <2>1. Handle(m, {}) /\ UNCHANGED <<entities, available>>
    BY <1>6 DEF KeepShip, gameVars
  <2> QED BY <1>3, <2>1
<1>7. CASE HandleFire(m)
  <2>1. Handle(m, {}) /\ UNCHANGED available /\ Shoot(m.id)
    BY <1>7 DEF HandleFire
  <2>2. \A k \in DOMAIN entities : k \in DOMAIN entities' /\ entities'[k] = entities[k]
    BY <2>1, ShootGrows
  <2> QED BY <1>3, <2>1, <2>2
<1> QED BY <1>1, <1>2, <1>4, <1>5, <1>6, <1>7 DEF GameHandler, TakePlace, Leave

(* The other processes know no ids.                                        *)
LEMMA OtherShips ==
    ASSUME ShipsInv, NobodyLeaves', UNCHANGED <<usersInfo, entities, available>>,
           \A x \in InFlight' \ InFlight : x.command \in {"ID", "FIRE"} => x.id = 0
    PROVE  ShipsInv'
<1>1. \A c \in Client : Owns(c)' => Owns(c) /\ usersInfo'[c].id = usersInfo[c].id
  BY DEF Owns, HasUser
<1> QED BY <1>1, ShipsStay

LEMMA NextShips ==
    ASSUME ~Interruptible, TypeInv, ShipsInv, Next
    PROVE  ShipsInv'
<1> USE DEF TypeInv
<1>1. CASE MasterStep
  <2>1. PICK m : MasterHandler(m)
    BY <1>1 DEF MasterStep
  <2>2. PICK out : Handle(m, out) /\ \A x \in out : x.command = "ADDRESS"
    BY <2>1, Commands DEF MasterHandler, RegisterServer, IgnoreRequest,
       AnswerRequest, AnswerFromNothing
  <2>3. UNCHANGED <<usersInfo, entities, available>>
    BY <1>1 DEF MasterStep, userVars, gameVars
  <2>4. NobodyLeaves' /\ InFlight' \subseteq InFlight \cup out
    BY <2>2, HandleStays, HandleFlight DEF ShipsInv, FlightInv
  <2> QED BY <2>2, <2>3, <2>4, OtherShips
<1>2. CASE UserStep(InFlight)
  BY <1>2, UserShips DEF UserStep
<1>3. CASE GameStep(InFlight)
  BY <1>3, GameShips DEF GameStep
<1>4. CASE ShotStep
  <2>1. UNCHANGED <<net, usersInfo, available>> /\ Shoot(1)
    BY <1>4 DEF ShotStep, FireOnce, userVars
  <2>2. \A k \in DOMAIN entities : k \in DOMAIN entities' /\ entities'[k] = entities[k]
    BY <2>1, ShootGrows
  <2>3. \A c \in Client : Owns(c)' => Owns(c) /\ usersInfo'[c].id = usersInfo[c].id
    BY <2>1 DEF Owns, HasUser
  <2>4. NobodyLeaves' /\ InFlight' \subseteq InFlight
    BY <2>1 DEF ShipsInv, NobodyLeaves, InFlight
  <2> QED BY <2>1, <2>2, <2>3, <2>4, ShipsStay
<1>5. ASSUME NEW c \in Client, ClientStep(c) PROVE ShipsInv'
  <2>1. PICK m : ClientHandler(c, m)
    BY <1>5 DEF ClientStep
  <2>2. PICK out : /\ Handle(m, out)
                   /\ \A x \in out : x.command \in {"JOIN", "SELECT_SHIP"}
    BY <2>1, Commands DEF ClientHandler, TakeAddress, ChooseShip, GetReady,
       JoinRequest, ShipRequest
  <2>3. UNCHANGED <<usersInfo, entities, available>>
    BY <1>5 DEF ClientStep, userVars, gameVars
  <2>4. NobodyLeaves' /\ InFlight' \subseteq InFlight \cup out
    BY <2>2, HandleStays, HandleFlight DEF ShipsInv, FlightInv
  <2> QED BY <2>2, <2>3, <2>4, OtherShips
<1>6. ASSUME NEW c \in Client, PlayerStep(c) PROVE ShipsInv'
  <2>1. PICK command \in Sends : Move(c, command)
    BY <1>6 DEF PlayerStep, Interrupt
  <2>2. UNCHANGED <<usersInfo, entities, available>>
    BY <1>6 DEF PlayerStep, userVars, gameVars
  <2>3. CASE UNCHANGED net
    <3>1. NobodyLeaves' /\ InFlight' \subseteq InFlight
      BY <2>3 DEF ShipsInv, NobodyLeaves, InFlight
    <3> QED BY <2>2, <3>1, OtherShips
  <2>4. CASE Emit({Reliable("user", command, c, 0)})
    <3> DEFINE x == Reliable("user", command, c, 0)
    <3>1. x.command \in {"FIRE", "USE"} /\ x.id = 0
      BY Commands, ClientAssumption
    <3>2. Emit({x})
      BY <2>4
    <3> HIDE DEF x
    <3>3. NobodyLeaves' /\ InFlight' \subseteq InFlight \cup {x}
      BY <3>1, <3>2, EmitStays, EmitFlight DEF ShipsInv, FlightInv
    <3> QED BY <2>2, <3>1, <3>3, OtherShips
  <2> QED BY <2>1, <2>3, <2>4 DEF Move
<1>7. CASE FrameStep
  <2>1. UNCHANGED <<net, usersInfo, entities, available>>
    BY <1>7 DEF FrameStep, NextFrame, gameVars
  <2>2. NobodyLeaves' /\ InFlight' \subseteq InFlight
    BY <2>1 DEF ShipsInv, NobodyLeaves, InFlight
  <2> QED BY <2>1, <2>2, OtherShips
<1>8. CASE RetryStep
  <2>1. UNCHANGED <<usersInfo, entities, available>> /\ Emit({RequestServer})
    BY <1>8 DEF RetryStep, RetryRequest, gameVars
  <2>2. RequestServer.command = "REQUEST_ADDRESS"
    BY Commands DEF RequestServer
  <2>3. NobodyLeaves' /\ InFlight' \subseteq InFlight \cup {RequestServer}
    BY <2>1, <2>2, EmitStays, EmitFlight DEF ShipsInv, FlightInv
  <2> QED BY <2>1, <2>2, <2>3, OtherShips
<1>9. CASE RestartStep
  <2>1. /\ Emit(CallsOf(Running))
        /\ UNCHANGED <<usersInfo, entities, available>>
    BY <1>9 DEF RestartStep, RestartMaster, userVars, gameVars
  <2>2. \A x \in CallsOf(Running) : x.command = "INITIALIZE"
    BY Commands DEF CallsOf
  <2>3. NobodyLeaves' /\ InFlight' \subseteq InFlight \cup CallsOf(Running)
    BY <2>1, <2>2, EmitStays, EmitFlight DEF ShipsInv, FlightInv
  <2> QED BY <2>1, <2>2, <2>3, OtherShips
<1>10. CASE LoseStep
  <2>1. PICK m : Drop(m)
    BY <1>10 DEF LoseStep
  <2>2. InFlight' \subseteq InFlight
    BY <2>1, DropFlight DEF FlightInv
  <2>3. NobodyLeaves' /\ InFlight' \subseteq InFlight
    BY <2>2 DEF ShipsInv, NobodyLeaves
  <2>4. UNCHANGED <<usersInfo, entities, available>>
    BY <1>10 DEF LoseStep, userVars, gameVars
  <2> QED BY <2>3, <2>4, OtherShips
<1>11. ASSUME NEW c \in Client, StartStep(c) PROVE ShipsInv'
  <2>1. PICK out : Emit(out) /\ \A x \in out : x.command = "ADDRESS"
    BY <1>11, Commands DEF StartStep, Start, Begin
  <2>2. UNCHANGED <<usersInfo, entities, available>>
    BY <1>11 DEF StartStep, userVars, gameVars
  <2>3. NobodyLeaves' /\ InFlight' \subseteq InFlight \cup out
    BY <2>1, EmitStays, EmitFlight DEF ShipsInv, FlightInv
  <2> QED BY <2>1, <2>2, <2>3, OtherShips
<1> QED BY <1>1, <1>2, <1>3, <1>4, <1>5, <1>6, <1>7, <1>8, <1>9, <1>10, <1>11
        DEF Next, PlayStep

LEMMA ShipsInvariant ==
    ASSUME ~Interruptible
    PROVE  Spec => [](TypeInv /\ ShipsInv)
<1>1. Init => ShipsInv
  <2> SUFFICES ASSUME Init PROVE ShipsInv
    OBVIOUS
  <2>1. InFlight = CallsOf(Running)
    BY FirstFlight DEF Init
  <2>2. \A x \in InFlight : x.command = "INITIALIZE"
    BY <2>1, Commands DEF CallsOf
  <2>3. \A c \in Client : ~Owns(c)
    BY DEF Init, UserInit, NoEntry, Owns, HasUser
  <2>4. available = <<>>
    BY DEF Init, GameInit
  <2> QED BY <2>2, <2>3, <2>4 DEF ShipsInv, NobodyLeaves
<1>2. TypeInv /\ ShipsInv /\ [Next]_vars => ShipsInv'
  <2>1. TypeInv /\ ShipsInv /\ UNCHANGED vars => ShipsInv'
    BY DEF vars, userVars, gameVars, ShipsInv, NobodyLeaves, ShipOf, Owns,
       HasUser, InFlight
  <2> QED BY <2>1, NextShips
<1> QED BY <1>1, <1>2, TypeInvInit, TypeInvNext, PTL DEF Spec

(* As long as nobody leaves, a command that makes a ship fire was sent by  *)
(* the client the ship was made for.                                       *)
THEOREM CommandsComeHome ==
    ASSUME ~Interruptible
    PROVE  Spec => CommandsReachTheirShip
<1>1. TypeInv /\ ShipsInv /\ [Next]_vars =>
          [\A m \in InFlight :
              HandleFire(m) /\ entities' # entities => entities[m.id] = m.about]_vars
  <2> SUFFICES ASSUME TypeInv, ShipsInv, NEW m \in InFlight, HandleFire(m),
                      entities' # entities
               PROVE  entities[m.id] = m.about
    OBVIOUS
  <2>1. m.command = "FIRE" /\ IsShip(m.id)
    BY DEF HandleFire, Shoot
  <2>2. m.id # 0
    BY <2>1, LenProperties DEF IsShip, TypeInv, GameTypeOK
  <2> QED BY <2>1, <2>2 DEF ShipsInv, ShipOf
<1> QED BY <1>1, ShipsInvariant, PTL DEF Spec, CommandsReachTheirShip

-----------------------------------------------------------------------------
(* The load of the frames.                                                 *)

LEMMA LeastNatural ==
    ASSUME NEW S \in SUBSET Nat, S # {}
    PROVE  \E x \in S : \A y \in S : x <= y
<1>1. PICK x \in S : \A y \in S : <<y, x>> \notin OpToRel(<, Nat)
  BY NatLessThanWellFounded, WFMin
<1>2. ASSUME NEW y \in S PROVE x <= y
  <2>1. ~(y < x)
    BY <1>1 DEF OpToRel
  <2> QED BY <2>1
<1> QED BY <1>2

(* The search of addUserToBucket ends with a bucket of fewest users.       *)
LEMMA LeastBucketIsLeast ==
    ASSUME \A b \in Bucket : Size(b) \in Nat
    PROVE  LeastBucket \in Bucket /\ \A o \in Bucket : Size(LeastBucket) <= Size(o)
<1> DEFINE Fewest(b) == \A o \in Bucket : Size(b) <= Size(o)
<1>1. 0 \in Bucket /\ Bucket \subseteq Nat
  BY UserAssumption DEF Bucket
<1>2. \E b \in Bucket : Fewest(b)
  <2> DEFINE sizes == {Size(b) : b \in Bucket}
  <2>1. sizes \in SUBSET Nat /\ sizes # {}
    BY <1>1
  <2>2. PICK n \in sizes : \A k \in sizes : n <= k
    BY <2>1, LeastNatural
  <2> QED BY <2>2
<1>3. PICK b \in Bucket : Fewest(b) /\ \A o \in Bucket : Fewest(o) => b <= o
  <2> DEFINE T == {b \in Bucket : Fewest(b)}
  <2>1. T \in SUBSET Nat /\ T # {}
    BY <1>1, <1>2
  <2> HIDE DEF T
  <2>2. PICK b \in T : \A k \in T : b <= k
    BY <2>1, LeastNatural
  <2> QED BY <2>2 DEF T
<1>4. \A o \in Bucket : Size(o) = Size(b) => b <= o
  BY <1>3
<1> QED BY <1>3, <1>4 DEF LeastBucket

LoadInv ==
    /\ \A b \in Bucket : IsFiniteSet(shipBucket[b])
    /\ BucketsAreBalanced

(* One more user in a bucket of fewest users.                              *)
LEMMA WithUserBalanced ==
    ASSUME UserTypeOK, LoadInv, NEW c \in Client, shipBucket' = WithUser(c)
    PROVE  LoadInv'
<1>1. \A b \in Bucket : Size(b) \in Nat
  BY FS_CardinalityType DEF LoadInv, Size
<1> DEFINE l == LeastBucket
<1>2. l \in Bucket /\ \A o \in Bucket : Size(l) <= Size(o)
  BY <1>1, LeastBucketIsLeast
<1>3. shipBucket' = [shipBucket EXCEPT ![l] = @ \cup {c}]
  BY DEF WithUser
<1> HIDE DEF l
<1>4. /\ shipBucket'[l] = shipBucket[l] \cup {c}
      /\ \A b \in Bucket : b # l => shipBucket'[b] = shipBucket[b]
  BY <1>2, <1>3 DEF UserTypeOK
<1>5. /\ IsFiniteSet(shipBucket'[l])
      /\ Cardinality(shipBucket'[l]) \in {Size(l), Size(l) + 1}
  BY <1>2, <1>4, FS_AddElement DEF LoadInv, Size
<1>6. \A b \in Bucket : IsFiniteSet(shipBucket'[b])
  BY <1>4, <1>5 DEF LoadInv
<1>7. ASSUME NEW b \in Bucket, NEW o \in Bucket
      PROVE  Cardinality(shipBucket'[b]) <= Cardinality(shipBucket'[o]) + 1
  <2>1. /\ Size(b) \in Nat /\ Size(o) \in Nat /\ Size(l) \in Nat
        /\ Size(l) <= Size(o) /\ Size(b) <= Size(o) + 1
    BY <1>1, <1>2 DEF LoadInv, BucketsAreBalanced
  <2>2. ASSUME NEW x \in Bucket, x # l PROVE Cardinality(shipBucket'[x]) = Size(x)
    BY <1>4, <2>2 DEF Size
  <2>3. CASE b = l /\ o = l
    BY <1>5, <2>1, <2>3
  <2>4. CASE b = l /\ o # l
    BY <1>5, <2>1, <2>2, <2>4
  <2>5. CASE b # l /\ o = l
    BY <1>5, <2>1, <2>2, <2>5
  <2>6. CASE b # l /\ o # l
    BY <2>1, <2>2, <2>6
  <2> QED BY <2>3, <2>4, <2>5, <2>6
<1> QED BY <1>6, <1>7 DEF LoadInv, BucketsAreBalanced, Size, Bucket

LEMMA NextBalanced ==
    ASSUME TypeInv, ShipsInv, LoadInv, Next
    PROVE  LoadInv'
<1>1. CASE UNCHANGED shipBucket
  BY <1>1 DEF LoadInv, BucketsAreBalanced, Size
<1>2. CASE UserStep(InFlight)
  <2>1. PICK m \in InFlight : UserHandler(m)
    BY <1>2 DEF UserStep
  <2>2. m.command # "DISCONNECT" /\ m \in ProperMessage
    BY <2>1 DEF ShipsInv, NobodyLeaves, TypeInv, FlightInv
  <2>3. CASE ProcessID(m)
    <3>1. m.about \in Client
      BY <2>2, <2>3 DEF ProcessID, ProperMessage
    <3>2. CASE shipBucket' = WithUser(m.about)
      BY <3>1, <3>2, WithUserBalanced DEF TypeInv
    <3> QED BY <1>1, <2>3, <3>2 DEF ProcessID
  <2>4. CASE ~ProcessID(m)
    BY <1>1, <2>1, <2>2, <2>4
       DEF UserHandler, AddressForNobody, ProcessAddressResponse,
           CreateUserEndpoint, IgnoreJoin, SendJoined, Disconnect, SelectShip,
           ForwardCommand, Use, userVars
  <2> QED BY <2>3, <2>4
<1>3. ~UserStep(InFlight) => UNCHANGED shipBucket
  BY DEF Next, PlayStep, MasterStep, GameStep, ShotStep, ClientStep, PlayerStep,
     FrameStep, NextFrame, RetryStep, RetryRequest, RestartStep, LoseStep,
     StartStep, userVars
<1> QED BY <1>1, <1>2, <1>3

(* As long as nobody leaves, however joins, answers and ids interleave, no *)
(* frame has over one user more to serve than another.                     *)
THEOREM LoadIsBalanced ==
    ASSUME ~Interruptible
    PROVE  Spec => []BucketsAreBalanced
<1>1. Init => LoadInv
  BY FS_EmptySet DEF Init, UserInit, LoadInv, BucketsAreBalanced, Size
<1>2. TypeInv /\ ShipsInv /\ LoadInv /\ [Next]_vars => LoadInv'
  <2>1. LoadInv /\ UNCHANGED vars => LoadInv'
    BY DEF vars, userVars, LoadInv, BucketsAreBalanced, Size
  <2> QED BY <2>1, NextBalanced
<1>3. LoadInv => BucketsAreBalanced
  BY DEF LoadInv
<1> QED BY <1>1, <1>2, <1>3, ShipsInvariant, PTL DEF Spec
=============================================================================
