---------------------------- MODULE LoginProofs ----------------------------
(***************************************************************************)
(* The login server, the user server and the master they ask for           *)
(* addresses: the questions and answers that are on their way between them.*)
(***************************************************************************)
EXTENDS SpaceQuestProofs, FiniteSetTheorems, FunctionTheorems

-----------------------------------------------------------------------------
(* The login server: no answer without a request.                          *)

Answer == Plain("login", "ADDRESS", "nobody", 0)

(* Nobody but the login server and the master sends what its logins need.  *)
OfOthers(x) == x.reliable \/ x.command \notin {"REQUEST_ADDRESS", "ADDRESS"}

LEMMA LoginPackets ==
    /\ RequestUserServer # Answer
    /\ \A x : OfOthers(x) => x \notin {RequestUserServer, Answer}
    /\ \A to, command, about, id :
          /\ OfOthers(Reliable(to, command, about, id))
          /\ command \notin {"REQUEST_ADDRESS", "ADDRESS"}
               => OfOthers(Plain(to, command, about, id))
BY DEF RequestUserServer, Answer, Plain, Reliable, OfOthers

LEMMA HandleUnderway ==
    ASSUME FlightInv, NEW m, NEW out, Handle(m, out),
           NEW x \in {RequestUserServer, Answer}
    PROVE  Copies(x)' = Copies(x) - (IF x = m THEN 1 ELSE 0)
                                  + (IF x \in out THEN 1 ELSE 0)
<1>1. ~x.reliable /\ IsABag(net)
  BY DEF RequestUserServer, Answer, Plain, FlightInv
<1> QED BY <1>1, HandleCopies

(* A step that sends none of it brings no answer closer.                   *)
LEMMA OthersUnderway ==
    ASSUME FlightInv, FlightInv', AnswersAreAwaited, LoginTypeOK,
           UNCHANGED requests,
           \/ UNCHANGED net
           \/ \E m, out : Handle(m, out) /\ \A x \in out : OfOthers(x)
           \/ \E out : Emit(out) /\ \A x \in out : OfOthers(x)
           \/ \E m : Drop(m)
    PROVE  AnswersAreAwaited'
<1>1. ASSUME NEW x \in {RequestUserServer, Answer}
      PROVE  Copies(x)' <= Copies(x)
  <2>0. IsABag(net)
    BY DEF FlightInv
  <2>1. CASE UNCHANGED net
    BY <2>1, FlightCounted DEF Copies, InFlight
  <2>2. ASSUME NEW m, NEW out, Handle(m, out), \A y \in out : OfOthers(y)
        PROVE  Copies(x)' <= Copies(x)
    <3>1. x \notin out
      BY <2>2, LoginPackets
    <3> QED BY <2>2, <3>1, HandleUnderway, FlightCounted
  <2>3. ASSUME NEW out, Emit(out), \A y \in out : OfOthers(y)
        PROVE  Copies(x)' <= Copies(x)
    <3>1. x \notin out
      BY <2>3, LoginPackets
    <3> QED BY <2>0, <2>3, <3>1, EmitFlight, FlightCounted
  <2>4. ASSUME NEW m, Drop(m) PROVE Copies(x)' <= Copies(x)
    BY <2>0, <2>4, DropFlight, FlightCounted
  <2> QED BY <2>1, <2>2, <2>3, <2>4
<1>2. Len(requests) \in Nat
  BY LenProperties DEF LoginTypeOK
<1>3. Underway' <= Underway /\ Underway \in Nat /\ Underway' \in Nat
  BY <1>1, FlightCounted DEF Underway, Answer
<1> QED BY <1>2, <1>3 DEF AnswersAreAwaited

(* The login server asks once for each client, and passes one address on   *)
(* for each answer.                                                        *)
LEMMA LoginPreserves ==
    ASSUME FlightInv, LoginTypeOK, AnswersAreAwaited, NEW m, LoginHandler(m)
    PROVE  FlightInv' /\ LoginTypeOK' /\ AnswersAreAwaited'
<1>1. requests \in Seq(Client) /\ Len(requests) \in Nat
  BY LenProperties DEF LoginTypeOK
<1>2. CASE QueueRequest(m)
  <2>1. FlightInv' /\ m \in ProperMessage
    <3>1. RequestUserServer \in ProperMessage
      BY NetworkAssumption
         DEF RequestUserServer, Plain, ProperMessage, Message, Server, Command
    <3> QED BY <1>2, <3>1, HandleProper DEF QueueRequest
  <2>2. m.about \in Client
    BY <1>2, <2>1 DEF QueueRequest, LoginHandler, ProperMessage
  <2>3. requests' \in Seq(Client) /\ Len(requests') = Len(requests) + 1
    <3>1. requests' = Append(requests, m.about)
      BY <1>2 DEF QueueRequest
    <3> QED BY <1>1, <2>2, <3>1, AppendProperties
  <2>4. m \notin {RequestUserServer, Answer}
    BY <1>2 DEF QueueRequest, RequestUserServer, Answer, Plain
  <2>5. /\ Copies(RequestUserServer)' = Copies(RequestUserServer) + 1
        /\ Copies(Answer)' = Copies(Answer)
    BY <1>2, <2>1, <2>4, LoginPackets, HandleUnderway, FlightCounted
       DEF QueueRequest
  <2>6. Underway' = Underway + 1 /\ Underway \in Nat
    BY <2>1, <2>5, FlightCounted DEF Underway, Answer
  <2> QED BY <1>1, <2>1, <2>3, <2>6 DEF LoginTypeOK, AnswersAreAwaited
<1>3. CASE PassAddress(m)
  <2>1. m \in InFlight /\ m \in ProperMessage
    BY <1>3, HandleFlight DEF PassAddress, FlightInv
  <2>2. m = Answer
    BY <1>3, <2>1 DEF PassAddress, LoginHandler, ProperMessage, Answer
  <2>3. requests # <<>>
    <3>1. Copies(m) > 0 /\ Copies(RequestUserServer) \in Nat /\ Copies(m) \in Nat
      BY <2>1, CopiesType DEF FlightInv
    <3>2. Len(requests) > 0
      BY <1>1, <2>2, <3>1 DEF AnswersAreAwaited, Underway, Answer
    <3> QED BY <3>2, EmptySeq
  <2> DEFINE out == {Plain(Head(requests), "ADDRESS", Head(requests), 0)}
  <2>4. Handle(m, out) /\ requests' = Tail(requests)
    BY <1>3, <2>3 DEF PassAddress, OthersWaiting
  <2>5. /\ Head(requests) \in Client
        /\ Tail(requests) \in Seq(Client)
        /\ Len(Tail(requests)) = Len(requests) - 1
    BY <1>1, <2>3, HeadTailProperties
  <2>6. FlightInv'
    BY <2>4, <2>5, HandleProper, ProperToClients, NetworkAssumption
  <2>7. RequestUserServer \notin out /\ Answer \notin out
    BY <2>5, NetworkAssumption DEF RequestUserServer, Answer, Plain, Server
  <2>8. /\ Copies(RequestUserServer)' = Copies(RequestUserServer)
        /\ Copies(Answer)' = Copies(Answer) - 1
    <3> HIDE DEF out
    <3> QED BY <2>2, <2>4, <2>6, <2>7, LoginPackets, HandleUnderway, FlightCounted
  <2>9. Underway' = Underway - 1 /\ Underway \in Nat
    BY <2>6, <2>8, FlightCounted DEF Underway, Answer
  <2>10. AnswersAreAwaited'
    BY <1>1, <2>4, <2>5, <2>9 DEF AnswersAreAwaited
  <2> QED BY <2>4, <2>5, <2>6, <2>10 DEF LoginTypeOK
<1> QED BY <1>2, <1>3 DEF LoginHandler

(* The master turns a request into its answer.                             *)
LEMMA MasterUnderway ==
    ASSUME FlightInv, FlightInv', LoginTypeOK, AnswersAreAwaited,
           NEW m, MasterHandler(m), UNCHANGED requests
    PROVE  AnswersAreAwaited'
<1>1. CASE AnswerRequest(m)
  <2>1. m \in InFlight /\ m \in ProperMessage
    BY <1>1, HandleFlight DEF AnswerRequest, FlightInv
  <2>2. CASE m.about = "login"
    <3>1. m = RequestUserServer
      BY <1>1, <2>1, <2>2
         DEF AnswerRequest, ProperMessage, RequestServer, Reliable
    <3>2. Handle(m, {Answer})
      BY <1>1, <2>2 DEF AnswerRequest, Answer
    <3>3. /\ Copies(RequestUserServer)' = Copies(RequestUserServer) - 1
          /\ Copies(Answer)' = Copies(Answer) + 1
      BY <3>1, <3>2, LoginPackets, HandleUnderway, FlightCounted
    <3>4. Underway' = Underway
      BY <3>3, FlightCounted DEF Underway, Answer
    <3> QED BY <3>4 DEF AnswersAreAwaited
  <2>3. CASE m.about # "login"
    <3> DEFINE out == {Plain(m.about, "ADDRESS", "nobody", 0)}
    <3>1. Handle(m, out) /\ Answer \notin out /\ RequestUserServer \notin out
      BY <1>1, <2>3 DEF AnswerRequest, Answer, RequestUserServer, Plain
    <3> HIDE DEF out
    <3>2. ASSUME NEW x \in {RequestUserServer, Answer}
          PROVE  Copies(x)' <= Copies(x)
      BY <3>1, <3>2, HandleUnderway, FlightCounted
    <3>3. Underway' <= Underway /\ Underway \in Nat /\ Underway' \in Nat
      BY <3>2, FlightCounted DEF Underway, Answer
    <3>4. Len(requests) \in Nat
      BY LenProperties DEF LoginTypeOK
    <3> QED BY <3>3, <3>4 DEF AnswersAreAwaited
  <2> QED BY <2>2, <2>3
<1>2. CASE ~AnswerRequest(m)
  <2>1. Handle(m, {})
    BY <1>2 DEF MasterHandler, RegisterServer, IgnoreRequest, AnswerFromNothing
  <2> QED BY <2>1, OthersUnderway
<1> QED BY <1>1, <1>2

(* The other processes, until a client logs in, send nothing of the kind,  *)
(* nor to the login server, and what they receive is for themselves.       *)
Aside(x) == OfOthers(x) /\ x.to # "login"
StepAside ==
    \/ UNCHANGED net
    \/ \E m, out : /\ Handle(m, out) /\ m.to \notin {"master", "login"}
                   /\ \A x \in out : Aside(x)
    \/ \E out : Emit(out) /\ \A x \in out : Aside(x)

LEMMA AsidePackets ==
    /\ \A to, command, about, id :
          to # "login" =>
              /\ Aside(Reliable(to, command, about, id))
              /\ command \notin {"REQUEST_ADDRESS", "ADDRESS"}
                   => Aside(Plain(to, command, about, id))
    /\ \A c \in Client : c # "login" /\ c # "master"
BY NetworkAssumption DEF Aside, OfOthers, Plain, Reliable, Server

LEMMA UserAside ==
    ASSUME FlightInv, NEW m, UserHandler(m)
    PROVE  StepAside
<1>1. m.to = "user"
  BY DEF UserHandler
<1>2. ASSUME NEW out, Handle(m, out), \A x \in out : Aside(x) PROVE StepAside
  BY <1>1, <1>2 DEF StepAside
<1>3. \A c, command : \A x \in ToGame(c, command) : Aside(x)
  BY AsidePackets DEF ToGame
<1>4. CASE Disconnect(m)
  BY <1>2, <1>3, <1>4 DEF Disconnect
<1>5. CASE SelectShip(m)
  <2>1. PICK out \in SUBSET ToGame(m.about, "SELECT_SHIP") : Handle(m, out)
    BY <1>5 DEF SelectShip
  <2> QED BY <1>2, <1>3, <2>1
<1>6. CASE ForwardCommand(m)
  BY <1>2, <1>3, <1>6 DEF ForwardCommand
<1>7. CASE ProcessAddressResponse(m)
  <2>1. PICK out \in SUBSET {JoinServer(Head(pendingUsers))} : Handle(m, out)
    BY <1>7 DEF ProcessAddressResponse
  <2> QED BY <1>2, <2>1, AsidePackets DEF JoinServer
<1>8. CASE CreateUserEndpoint(m)
  BY <1>2, <1>8, AsidePackets DEF CreateUserEndpoint, RequestServer
<1>9. CASE SendJoined(m) \/ ProcessID(m)
  <2>1. m \in ProperMessage
    BY <1>9, HandleFlight DEF SendJoined, ProcessID, FlightInv
  <2>2. m.about \in Client
    BY <1>9, <2>1 DEF SendJoined, ProcessID, ProperMessage
  <2>3. PICK out \in SUBSET {Reliable(m.about, "JOINED", m.about, 0),
                             Ready(m.about, m.id)} : Handle(m, out)
    BY <1>9 DEF SendJoined, ProcessID
  <2> QED BY <1>2, <2>2, <2>3, AsidePackets DEF Ready
<1>10. CASE AddressForNobody(m) \/ IgnoreJoin(m) \/ Use(m)
  <2>1. Handle(m, {})
    BY <1>10 DEF AddressForNobody, IgnoreJoin, Use
  <2> QED BY <1>2, <2>1
<1> QED BY <1>4, <1>5, <1>6, <1>7, <1>8, <1>9, <1>10 DEF UserHandler

LEMMA PlayAside ==
    ASSUME FlightInv, PlayStep
    PROVE  MasterStep \/ LoseStep \/ StepAside
<1>1. CASE UserStep(InFlight)
  BY <1>1, UserAside DEF UserStep
<1>2. CASE GameStep(InFlight)
  <2>1. PICK m : GameHandler(m)
    BY <1>2 DEF GameStep
  <2>2. \E out : Handle(m, out) /\ \A x \in out : Aside(x)
    BY <2>1, AsidePackets DEF GameHandler, Join, TakePlace, AddPlace, KeepShip,
       Leave, HandleFire, JoinedPacket, IDPacket
  <2> QED BY <2>1, <2>2 DEF GameHandler, StepAside
<1>3. ASSUME NEW c \in Client, ClientStep(c) PROVE StepAside
  <2>1. PICK m : ClientHandler(c, m)
    BY <1>3 DEF ClientStep
  <2>2. \E out : Handle(m, out) /\ \A x \in out : Aside(x)
    BY <2>1, AsidePackets DEF ClientHandler, TakeAddress, ChooseShip, GetReady,
       JoinRequest, ShipRequest
  <2>3. m.to \notin {"master", "login"}
    BY <2>1, AsidePackets DEF ClientHandler
  <2> QED BY <2>2, <2>3 DEF StepAside
<1>4. ASSUME NEW c \in Client, PlayerStep(c) PROVE StepAside
  <2>1. CASE Interrupt(c)
    <3>1. PICK out \in SUBSET {Farewell(c)} : Emit(out)
      BY <2>1 DEF Interrupt
    <3>2. Aside(Farewell(c))
      BY AsidePackets DEF Farewell
    <3> QED BY <3>1, <3>2 DEF StepAside
  <2>2. ASSUME NEW command \in Sends, Move(c, command) PROVE StepAside
    <3>1. UNCHANGED net \/ Emit({Reliable("user", command, c, 0)})
      BY <2>2 DEF Move
    <3> QED BY <3>1, AsidePackets DEF StepAside
  <2> QED BY <1>4, <2>1, <2>2 DEF PlayerStep
<1>5. CASE ShotStep \/ FrameStep
  BY <1>5 DEF ShotStep, FireOnce, FrameStep, NextFrame, StepAside
<1>6. CASE RetryStep
  <2>1. Emit({RequestServer}) /\ Aside(RequestServer)
    BY <1>6, AsidePackets DEF RetryStep, RetryRequest, RequestServer
  <2> QED BY <2>1 DEF StepAside
<1>7. CASE RestartStep
  <2>1. Emit(CallsOf(Running)) /\ \A x \in CallsOf(Running) : Aside(x)
    BY <1>7, AsidePackets DEF RestartStep, RestartMaster, CallsOf
  <2> QED BY <2>1 DEF StepAside
<1> QED BY <1>1, <1>2, <1>3, <1>4, <1>5, <1>6, <1>7 DEF PlayStep

LEMMA PlayUnderway ==
    ASSUME TypeInv, TypeInv', LoginTypeOK, AnswersAreAwaited,
           PlayStep \/ \E c \in Client : LogInStep(c), UNCHANGED requests
    PROVE  AnswersAreAwaited'
<1> USE DEF TypeInv
<1>1. CASE MasterStep
  BY <1>1, MasterUnderway DEF MasterStep
<1>2. CASE LoseStep
  BY <1>2, OthersUnderway DEF LoseStep
<1>3. CASE StepAside
  BY <1>3, OthersUnderway DEF StepAside, Aside
<1>4. ASSUME NEW c \in Client, LogInStep(c) PROVE AnswersAreAwaited'
  <2>1. Emit({LoginRequest(c)}) /\ OfOthers(LoginRequest(c))
    BY <1>4, LoginPackets DEF LogInStep, LogIn, Begin, LoginRequest
  <2> QED BY <2>1, OthersUnderway
<1> QED BY <1>1, <1>2, <1>3, <1>4, PlayAside

AllInv == TypeInv /\ LoginTypeOK /\ AnswersAreAwaited

LEMMA AllInvariant == SpecAll => []AllInv
<1>1. InitAll => AllInv
  <2> SUFFICES ASSUME InitAll PROVE AllInv
    OBVIOUS
  <2>1. TypeInv
    BY TypeInvInit DEF InitAll
  <2>2. LoginTypeOK /\ Len(requests) = 0
    BY EmptySeq DEF InitAll, LoginInit, LoginTypeOK
  <2>3. \A x \in InFlight : OfOthers(x)
    BY FirstFlight, LoginPackets DEF InitAll, Init, CallsOf
  <2>4. Copies(RequestUserServer) = 0 /\ Copies(Answer) = 0
    BY <2>3, LoginPackets DEF Copies
  <2>5. AnswersAreAwaited
    BY <2>2, <2>4 DEF AnswersAreAwaited, Underway, Answer
  <2> QED BY <2>1, <2>2, <2>5 DEF AllInv
<1>2. AllInv /\ [NextAll]_allVars => AllInv'
  <2> SUFFICES ASSUME AllInv, [NextAll]_allVars PROVE AllInv'
    OBVIOUS
  <2> USE DEF AllInv
  <2>1. CASE LoginStep
    <3>1. PICK m : LoginHandler(m)
      BY <2>1 DEF LoginStep
    <3>2. FlightInv' /\ LoginTypeOK' /\ AnswersAreAwaited'
      BY <3>1, LoginPreserves DEF TypeInv
    <3> QED BY <2>1, <3>2 DEF LoginStep, TypeInv, masterVars, userVars, gameVars,
            clientVars, MasterTypeOK, UserTypeOK, PendingUsersAreCovered,
            GameTypeOK, ClientTypeOK
  <2>2. CASE /\ PlayStep \/ \E c \in Client : LogInStep(c)
             /\ UNCHANGED requests
    <3>1. TypeInv'
      BY <2>2, PlayPreserves, StartPreserves
    <3>2. LoginTypeOK'
      BY <2>2 DEF LoginTypeOK
    <3> QED BY <2>2, <3>1, <3>2, PlayUnderway
  <2>3. CASE UNCHANGED allVars
    <3>1. TypeInv'
      BY <2>3, TypeInvNext DEF allVars
    <3>2. LoginTypeOK' /\ AnswersAreAwaited'
      BY <2>3 DEF allVars, vars, LoginTypeOK, AnswersAreAwaited, Underway,
         Copies, InFlight
    <3> QED BY <3>1, <3>2
  <2> QED BY <2>1, <2>2, <2>3 DEF NextAll
<1> QED BY <1>1, <1>2, PTL DEF SpecAll

(* With the login server in between the types are kept as well.            *)
THEOREM LoginTypeCorrect == SpecAll => []TypeOKAll
<1>1. AllInv => TypeOKAll
  BY DEF AllInv, TypeInv, TypeOKAll, TypeOK, FlightInv, NetworkTypeOK,
     ProperMessage
<1> QED BY <1>1, AllInvariant, PTL

(* However many clients log in, and whatever is lost, the master's answers *)
(* and the login server's questions never outnumber the clients that wait: *)
(* every address that comes back has a client to be passed on to.          *)
THEOREM LoginAnswersAreAwaited == SpecAll => []AnswersAreAwaited
<1>1. AllInv => AnswersAreAwaited
  BY DEF AllInv
<1> QED BY <1>1, AllInvariant, PTL
-----------------------------------------------------------------------------
(* The login server: no request without an answer to come.                 *)

(* As long as the master is not started again, all servers are registered  *)
(* once a client has logged in, and then it answers every question.        *)
ForLogin(m)  == m.to = "login" \/ m = RequestUserServer
NobodyLogsIn == requests = <<>> /\ \A m \in InFlight : ~ForLogin(m)
RegisteredInv == registered = Running \/ NobodyLogsIn
Settled       == Prepared /\ MaxMasterStarts = 0

LEMMA ForLoginPackets ==
    /\ ForLogin(RequestUserServer) /\ ForLogin(Answer)
    /\ \A x : Aside(x) => ~ForLogin(x)
    /\ \A x : x.to = "login" => ForLogin(x)
    /\ \A c \in Client : ~ForLogin(Plain(c, "ADDRESS", c, 0))
BY NetworkAssumption, LoginPackets
   DEF ForLogin, Aside, OfOthers, RequestUserServer, Answer, Plain, Server

LEMMA NextRegistered ==
    ASSUME AllInv, Settled, RegisteredInv, NextAll
    PROVE  RegisteredInv'
<1> USE DEF AllInv, TypeInv
<1>0. IsABag(net)
  BY DEF FlightInv
<1>1. CASE registered = Running
  <2>1. ASSUME NEW m, MasterHandler(m) PROVE registered' = Running
    <3>1. m \in InFlight /\ m.to = "master"
      BY <2>1 DEF MasterHandler, RegisterServer, IgnoreRequest, AnswerRequest,
         AnswerFromNothing, Handle
    <3>2. RegisterServer(m) => m.about \in Running
      BY <3>1 DEF RegisterServer, FlightInv, ProperMessage
    <3> QED BY <1>1, <2>1, <3>2 DEF MasterHandler, RegisterServer, IgnoreRequest,
            AnswerRequest, AnswerFromNothing, masterVars
  <2>2. ~RestartStep
    BY DEF Settled, RestartStep, RestartMaster, MasterTypeOK
  <2> QED BY <1>1, <2>1, <2>2
          DEF NextAll, PlayStep, MasterStep, LoginStep, LogInStep, UserStep,
              GameStep, ShotStep, ClientStep, PlayerStep, FrameStep, RetryStep,
              LoseStep, masterVars, RegisteredInv
<1>2. CASE NobodyLogsIn
  <2>1. ASSUME NEW m, LoginHandler(m) PROVE FALSE
    <3>1. m \in InFlight /\ m.to = "login"
      BY <2>1 DEF LoginHandler, QueueRequest, PassAddress, Handle
    <3> QED BY <1>2, <3>1 DEF NobodyLogsIn, ForLogin
  <2>2. CASE MasterStep /\ UNCHANGED requests
    <3>1. PICK m : MasterHandler(m)
      BY <2>2 DEF MasterStep
    <3>2. PICK out : /\ Handle(m, out)
                     /\ \A x \in out : /\ AnswerRequest(m)
                                       /\ x = Plain(m.about, "ADDRESS", "nobody", 0)
      BY <3>1 DEF MasterHandler, RegisterServer, IgnoreRequest, AnswerRequest,
         AnswerFromNothing
    <3>3. m \in InFlight /\ InFlight' \subseteq InFlight \cup out
      BY <1>0, <3>2, HandleFlight
    <3>4. AnswerRequest(m) => m.about = "user"
      BY <1>2, <3>3 DEF AnswerRequest, FlightInv, ProperMessage, NobodyLogsIn,
         ForLogin, RequestServer, Reliable
    <3>5. \A x \in out : ~ForLogin(x)
      BY <3>2, <3>4 DEF ForLogin, RequestUserServer, Plain
    <3> QED BY <1>2, <2>2, <3>3, <3>5 DEF NobodyLogsIn, RegisteredInv
  <2>3. CASE LoseStep /\ UNCHANGED requests
    BY <1>0, <1>2, <2>3, DropFlight DEF LoseStep, NobodyLogsIn, RegisteredInv
  <2>4. CASE StepAside /\ UNCHANGED requests
    <3>1. \A x \in InFlight' : x \in InFlight \/ Aside(x)
      BY <1>0, <2>4, HandleFlight, EmitFlight DEF StepAside, InFlight
    <3> QED BY <1>2, <2>4, <3>1, ForLoginPackets DEF NobodyLogsIn, RegisteredInv
  <2>5. ASSUME NEW c \in Client, LogInStep(c) PROVE registered' = Running
    BY <2>5 DEF LogInStep, MayStart, Settled, masterVars
  <2> QED BY <2>1, <2>2, <2>3, <2>4, <2>5, PlayAside
          DEF NextAll, LoginStep, RegisteredInv
<1> QED BY <1>1, <1>2 DEF RegisteredInv

LEMMA RegisteredInvariant ==
    ASSUME Settled
    PROVE  SpecAll => []RegisteredInv
<1>1. InitAll => RegisteredInv
  <2>1. InitAll => \A x \in InFlight : OfOthers(x) /\ x.to = "master"
    BY FirstFlight, LoginPackets DEF InitAll, Init, CallsOf, Plain
  <2> QED BY <2>1, LoginPackets
          DEF InitAll, LoginInit, RegisteredInv, NobodyLogsIn, ForLogin
<1>2. AllInv /\ RegisteredInv /\ [NextAll]_allVars => RegisteredInv'
  <2>1. RegisteredInv /\ UNCHANGED allVars => RegisteredInv'
    BY DEF allVars, vars, masterVars, RegisteredInv, NobodyLogsIn, InFlight
  <2> QED BY <2>1, NextRegistered
<1> QED BY <1>1, <1>2, AllInvariant, PTL DEF SpecAll

(* Neither does the network lose packets, nor is a server missing.         *)
Reachable  == ~Lossy /\ Settled /\ {"login", "user"} \subseteq Running
MatchedInv == Underway = Len(requests)

(* A step that has nothing to do with logins.                              *)
LEMMA AsideMatched ==
    ASSUME FlightInv, FlightInv', MatchedInv, StepAside, UNCHANGED requests
    PROVE  MatchedInv'
<1>1. ASSUME NEW x \in {RequestUserServer, Answer}
      PROVE  Copies(x)' = Copies(x)
  <2>0. IsABag(net) /\ x.to \in {"master", "login"} /\ ~Aside(x)
    BY LoginPackets
       DEF FlightInv, RequestUserServer, Answer, Plain, Aside, OfOthers
  <2>1. CASE UNCHANGED net
    BY <2>1 DEF Copies, InFlight
  <2>2. ASSUME NEW m, NEW out, Handle(m, out), m.to \notin {"master", "login"},
               \A y \in out : Aside(y)
        PROVE  Copies(x)' = Copies(x)
    <3>1. x # m /\ x \notin out
      BY <2>0, <2>2
    <3> QED BY <2>2, <3>1, HandleUnderway, FlightCounted
  <2>3. ASSUME NEW out, Emit(out), \A y \in out : Aside(y)
        PROVE  Copies(x)' = Copies(x)
    BY <2>0, <2>3, EmitFlight, FlightCounted
  <2> QED BY <2>1, <2>2, <2>3 DEF StepAside
<1> QED BY <1>1 DEF MatchedInv, Underway, Answer

(* The login server asks for each client, and answers one for each answer. *)
LEMMA LoginMatched ==
    ASSUME FlightInv, FlightInv', LoginTypeOK, AnswersAreAwaited, MatchedInv,
           NEW m, LoginHandler(m)
    PROVE  MatchedInv'
<1>1. requests \in Seq(Client) /\ Len(requests) \in Nat
  BY LenProperties DEF LoginTypeOK
<1>2. m \in InFlight /\ m \in ProperMessage /\ m.to = "login"
  BY HandleFlight DEF LoginHandler, QueueRequest, PassAddress, FlightInv
<1>3. CASE QueueRequest(m)
  <2>1. m \notin {RequestUserServer, Answer}
    BY <1>3 DEF QueueRequest, RequestUserServer, Answer, Plain
  <2>2. m.about \in Client
    BY <1>2, <1>3 DEF QueueRequest, ProperMessage
  <2>3. Len(requests') = Len(requests) + 1
    BY <1>1, <1>3, <2>2, AppendProperties DEF QueueRequest
  <2>4. /\ Copies(RequestUserServer)' = Copies(RequestUserServer) + 1
        /\ Copies(Answer)' = Copies(Answer)
    BY <1>3, <2>1, LoginPackets, HandleUnderway, FlightCounted DEF QueueRequest
  <2>5. Underway' = Underway + 1
    BY <2>4, FlightCounted DEF Underway, Answer
  <2> QED BY <2>3, <2>5 DEF MatchedInv
<1>4. CASE PassAddress(m)
  <2>1. m = Answer
    BY <1>2, <1>4 DEF PassAddress, ProperMessage, Answer
  <2>2. Copies(Answer) > 0 /\ Copies(RequestUserServer) \in Nat /\ Copies(Answer) \in Nat
    BY <1>2, <2>1, FlightCounted
  <2>3. requests # <<>>
    BY <1>1, <2>2, EmptySeq DEF AnswersAreAwaited, Underway, Answer
  <2> DEFINE out == {Plain(Head(requests), "ADDRESS", Head(requests), 0)}
  <2>4. Handle(m, out) /\ requests' = Tail(requests)
    BY <1>4, <2>3 DEF PassAddress, OthersWaiting
  <2>5. Head(requests) \in Client /\ Len(Tail(requests)) = Len(requests) - 1
    BY <1>1, <2>3, HeadTailProperties
  <2>6. RequestUserServer \notin out /\ Answer \notin out
    BY <2>5, ForLoginPackets
  <2>7. /\ Copies(RequestUserServer)' = Copies(RequestUserServer)
        /\ Copies(Answer)' = Copies(Answer) - 1
    <3> HIDE DEF out
    <3> QED BY <2>1, <2>4, <2>6, LoginPackets, HandleUnderway, FlightCounted
  <2>8. Underway' = Underway - 1
    BY <2>7, FlightCounted DEF Underway, Answer
  <2> QED BY <2>4, <2>5, <2>8 DEF MatchedInv
<1> QED BY <1>3, <1>4 DEF LoginHandler

(* The master answers the login server: both servers are registered.       *)
LEMMA MasterMatched ==
    ASSUME FlightInv, FlightInv', Reachable, RegisteredInv, MatchedInv,
           NEW m, MasterHandler(m), UNCHANGED requests
    PROVE  MatchedInv'
<1>1. PICK out \in SUBSET {Plain(m.about, "ADDRESS", "nobody", 0)} :
          Handle(m, out) /\ (out # {} => AnswerRequest(m))
  BY DEF MasterHandler, RegisterServer, IgnoreRequest, AnswerRequest, AnswerFromNothing
<1>2. m \in InFlight /\ m \in ProperMessage
  BY <1>1, HandleFlight DEF FlightInv
<1>3. CASE m = RequestUserServer
  <2>1. m.command = "REQUEST_ADDRESS" /\ m.about = "login"
    BY <1>3 DEF RequestUserServer, Plain
  <2>2. registered = Running /\ {m.about, Wanted(m.about)} \subseteq registered
    BY <1>2, <1>3, <2>1, ForLoginPackets
       DEF RegisteredInv, NobodyLogsIn, Reachable, Wanted
  <2>3. AnswerRequest(m)
    BY <2>1, <2>2 DEF MasterHandler, RegisterServer, IgnoreRequest, AnswerFromNothing
  <2>4. Handle(m, {Answer})
    BY <2>1, <2>3 DEF AnswerRequest, Answer
  <2>5. /\ Copies(RequestUserServer)' = Copies(RequestUserServer) - 1
        /\ Copies(Answer)' = Copies(Answer) + 1
    BY <1>3, <2>4, LoginPackets, HandleUnderway, FlightCounted
  <2>6. Underway' = Underway
    BY <2>5, FlightCounted DEF Underway, Answer
  <2> QED BY <2>6 DEF MatchedInv
<1>4. CASE m # RequestUserServer
  <2>1. m # Answer
    BY DEF MasterHandler, Answer, Plain
  <2>2. \A x \in out : x # RequestUserServer /\ x # Answer
    <3>1. CASE AnswerRequest(m)
      <4>1. m = RequestServer
        BY <1>2, <1>4, <3>1 DEF AnswerRequest, ProperMessage
      <4>2. \A x \in out : x = Plain("user", "ADDRESS", "nobody", 0)
        BY <1>1, <4>1 DEF RequestServer, Reliable
      <4> QED BY <4>2 DEF Answer, RequestUserServer, Plain
    <3> QED BY <1>1, <3>1
  <2>3. ASSUME NEW x \in {RequestUserServer, Answer} PROVE Copies(x)' = Copies(x)
    BY <1>1, <1>4, <2>1, <2>2, HandleUnderway, FlightCounted
  <2>4. Underway' = Underway
    BY <2>3 DEF Underway, Answer
  <2> QED BY <2>4 DEF MatchedInv
<1> QED BY <1>3, <1>4

LEMMA NextMatched ==
    ASSUME AllInv, AllInv', Reachable, RegisteredInv, MatchedInv, NextAll
    PROVE  MatchedInv'
<1> USE DEF AllInv, TypeInv
<1>1. CASE LoginStep
  BY <1>1, LoginMatched DEF LoginStep
<1>2. CASE MasterStep /\ UNCHANGED requests
  BY <1>2, MasterMatched DEF MasterStep
<1>3. ASSUME NEW c \in Client, LogInStep(c), UNCHANGED requests PROVE MatchedInv'
  <2>1. Emit({LoginRequest(c)}) /\ LoginRequest(c) \notin {RequestUserServer, Answer}
    BY <1>3, LoginPackets DEF LogInStep, LogIn, Begin, LoginRequest
  <2>2. ASSUME NEW x \in {RequestUserServer, Answer} PROVE Copies(x)' = Copies(x)
    BY <2>1, EmitFlight, FlightCounted DEF FlightInv
  <2>3. Underway' = Underway
    BY <2>2 DEF Underway, Answer
  <2> QED BY <1>3, <2>3 DEF MatchedInv
<1>4. CASE PlayStep /\ UNCHANGED requests /\ ~MasterStep
  <2>1. StepAside
    BY <1>4, PlayAside DEF Reachable, LoseStep
  <2> QED BY <1>4, <2>1, AsideMatched
<1> QED BY <1>1, <1>2, <1>3, <1>4 DEF NextAll

(* While no packet is lost, and all servers are there before the first     *)
(* client logs in, for every client that waits at the login server exactly *)
(* one question to the master, or its answer, is on its way.               *)
THEOREM LoginsAreAnswered ==
    ASSUME MaxMasterStarts = 0, {"login", "user"} \subseteq Running
    PROVE  SpecAll => []LoginsAreUnderway
<1>1. CASE ~Lossy /\ Prepared
  <2>1. Reachable /\ Settled
    BY <1>1 DEF Reachable, Settled
  <2>2. InitAll => MatchedInv
    <3> SUFFICES ASSUME InitAll PROVE MatchedInv
      OBVIOUS
    <3>1. Len(requests) = 0
      BY EmptySeq DEF InitAll, LoginInit
    <3>2. \A x \in InFlight : OfOthers(x)
      BY FirstFlight, LoginPackets DEF InitAll, Init, CallsOf
    <3>3. Copies(RequestUserServer) = 0 /\ Copies(Answer) = 0
      BY <3>2, LoginPackets DEF Copies
    <3> QED BY <3>1, <3>3 DEF MatchedInv, Underway, Answer
  <2>3. AllInv /\ AllInv' /\ RegisteredInv /\ MatchedInv /\ [NextAll]_allVars
            => MatchedInv'
    <3>1. MatchedInv /\ UNCHANGED allVars => MatchedInv'
      BY DEF allVars, vars, MatchedInv, Underway, Copies, InFlight
    <3> QED BY <2>1, <3>1, NextMatched
  <2>4. AllInv /\ MatchedInv => LoginsAreUnderway
    BY DEF AllInv, MatchedInv, LoginsAreUnderway
  <2>5. SpecAll => []RegisteredInv
    BY <2>1, RegisteredInvariant
  <2> QED BY <2>2, <2>3, <2>4, <2>5, AllInvariant, PTL DEF SpecAll
<1>2. CASE ~(~Lossy /\ Prepared)
  <2>1. AllInv => LoginsAreUnderway
    BY <1>2 DEF AllInv, LoginsAreUnderway
  <2> QED BY <2>1, AllInvariant, PTL
<1> QED BY <1>1, <1>2

-----------------------------------------------------------------------------
(* The questions of the user server, with the login server and without.    *)

(* A question that comes to the master once is answered once at most.      *)
Questions == {RequestServer, GameAddress}
AskedOnce == "REQUEST_ADDRESS" \notin Redelivered

LEMMA QuestionPackets ==
    /\ RequestServer # GameAddress
    /\ \A to, command, about, id :
          command \notin {"REQUEST_ADDRESS", "ADDRESS"} =>
              /\ Reliable(to, command, about, id) \notin Questions
              /\ Plain(to, command, about, id) \notin Questions
    /\ \A c \in Client : Plain(c, "ADDRESS", c, 0) \notin Questions
    /\ RequestUserServer \notin Questions
    /\ Plain("login", "ADDRESS", "nobody", 0) \notin Questions
BY NetworkAssumption
   DEF Questions, RequestServer, GameAddress, RequestUserServer, Plain, Reliable,
       Server

LEMMA HandleQuestions ==
    ASSUME FlightInv, AskedOnce, NEW m, NEW out, Handle(m, out),
           NEW x \in Questions
    PROVE  Copies(x)' = Copies(x) - (IF x = m THEN 1 ELSE 0)
                                  + (IF x \in out THEN 1 ELSE 0)
<1>1. ~(x.reliable /\ x.command \in Redelivered) /\ IsABag(net)
  BY DEF Questions, RequestServer, GameAddress, Plain, Reliable, AskedOnce,
     FlightInv
<1> QED BY <1>1, HandleCopies

LEMMA RequestsAreNatural == ASSUME UserTypeOK PROVE pendingRequests \in Nat
<1>1. pendingRequests \in 0..MaxRequests
  BY DEF UserTypeOK
<1>2. MaxRequests \in Nat
  BY UserAssumption
<1> QED BY <1>1, <1>2

(* A step that asks nothing and answers nothing.                           *)
LEMMA NothingAsked ==
    ASSUME FlightInv, FlightInv', UserTypeOK, AskedOnce, AnswersAreCounted,
           UNCHANGED pendingRequests,
           \/ UNCHANGED net
           \/ \E m, out : Handle(m, out) /\ \A x \in out : x \notin Questions
           \/ \E out : Emit(out) /\ \A x \in out : x \notin Questions
           \/ \E m : Drop(m)
    PROVE  AnswersAreCounted'
<1>1. ASSUME NEW x \in Questions PROVE Copies(x)' <= Copies(x)
  <2>0. IsABag(net)
    BY DEF FlightInv
  <2>1. CASE UNCHANGED net
    BY <2>1, FlightCounted DEF Copies, InFlight
  <2>2. ASSUME NEW m, NEW out, Handle(m, out), \A y \in out : y \notin Questions
        PROVE  Copies(x)' <= Copies(x)
    BY <2>2, HandleQuestions, FlightCounted
  <2>3. ASSUME NEW out, Emit(out), \A y \in out : y \notin Questions
        PROVE  Copies(x)' <= Copies(x)
    BY <2>0, <2>3, EmitFlight, FlightCounted
  <2>4. ASSUME NEW m, Drop(m) PROVE Copies(x)' <= Copies(x)
    BY <2>0, <2>4, DropFlight, FlightCounted
  <2> QED BY <2>1, <2>2, <2>3, <2>4
<1>2. pendingRequests \in Nat
  BY RequestsAreNatural
<1>3. /\ Copies(RequestServer)' <= Copies(RequestServer)
      /\ Copies(GameAddress)' <= Copies(GameAddress)
  BY <1>1 DEF Questions
<1> QED BY <1>2, <1>3, FlightCounted DEF AnswersAreCounted

(* The user server asks for each new user, and uncounts a request for each *)
(* answer.                                                                 *)
LEMMA UserAsks ==
    ASSUME FlightInv, FlightInv', UserTypeOK, AskedOnce, AnswersAreCounted,
           NEW m, UserHandler(m)
    PROVE  AnswersAreCounted'
<1>1. /\ pendingRequests \in Nat
      /\ \A x \in Questions : Copies(x) \in Nat /\ Copies(x)' \in Nat
  BY RequestsAreNatural, FlightCounted
<1>2. m \in ProperMessage /\ m \in InFlight /\ m.to = "user"
  <2>1. \E out : Handle(m, out)
    BY DEF UserHandler, AddressForNobody, ProcessAddressResponse,
       CreateUserEndpoint, IgnoreJoin, SendJoined, ProcessID, Disconnect,
       SelectShip, ForwardCommand, Use
  <2> QED BY <2>1, HandleFlight DEF FlightInv, UserHandler
<1>3. CASE ProcessAddressResponse(m)
  <2>1. m = GameAddress
    BY <1>2, <1>3 DEF ProcessAddressResponse, ProperMessage, GameAddress
  <2>2. PICK out \in SUBSET {JoinServer(Head(pendingUsers))} : Handle(m, out)
    BY <1>3 DEF ProcessAddressResponse
  <2>3. \A x \in out : x \notin Questions
    BY QuestionPackets DEF JoinServer
  <2>4. /\ Copies(RequestServer)' = Copies(RequestServer)
        /\ Copies(GameAddress)' = Copies(GameAddress) - 1
    BY <1>1, <2>1, <2>2, <2>3, QuestionPackets, HandleQuestions DEF Questions
  <2>5. pendingRequests' = pendingRequests - 1
    BY <1>3 DEF ProcessAddressResponse
  <2> QED BY <1>1, <2>4, <2>5 DEF AnswersAreCounted, Questions
<1>4. CASE CreateUserEndpoint(m)
  <2>1. m \notin Questions
    BY <1>4 DEF CreateUserEndpoint, Questions, RequestServer, GameAddress, Plain,
       Reliable
  <2>2. Handle(m, {RequestServer}) /\ pendingRequests' = pendingRequests + 1
    BY <1>4 DEF CreateUserEndpoint
  <2>3. /\ Copies(RequestServer)' = Copies(RequestServer) + 1
        /\ Copies(GameAddress)' = Copies(GameAddress)
    BY <1>1, <2>1, <2>2, QuestionPackets, HandleQuestions DEF Questions
  <2> QED BY <1>1, <2>2, <2>3 DEF AnswersAreCounted, Questions
<1>5. CASE ~ProcessAddressResponse(m) /\ ~CreateUserEndpoint(m)
  <2>1. UNCHANGED pendingRequests
    BY <1>5 DEF UserHandler, AddressForNobody, IgnoreJoin, SendJoined, ProcessID,
       Disconnect, SelectShip, ForwardCommand, Use, userVars
  <2>2. \E out : Handle(m, out) /\ \A x \in out : x \notin Questions
    <3>1. \A c : \A command \in {"DISCONNECT", "SELECT_SHIP", "FIRE"} :
              \A x \in ToGame(c, command) : x \notin Questions
      BY QuestionPackets DEF ToGame
    <3>2. CASE SelectShip(m)
      <4>1. PICK out \in SUBSET ToGame(m.about, "SELECT_SHIP") : Handle(m, out)
        BY <3>2 DEF SelectShip
      <4> QED BY <3>1, <4>1
    <3>3. CASE Disconnect(m)
      BY <3>1, <3>3 DEF Disconnect
    <3>4. CASE ForwardCommand(m)
      BY <3>1, <3>4 DEF ForwardCommand
    <3>5. CASE SendJoined(m) \/ ProcessID(m)
      BY <3>5, QuestionPackets DEF SendJoined, ProcessID, Ready
    <3>6. CASE AddressForNobody(m) \/ IgnoreJoin(m) \/ Use(m)
      <4>1. Handle(m, {})
        BY <3>6 DEF AddressForNobody, IgnoreJoin, Use
      <4> QED BY <4>1
    <3> QED BY <1>5, <3>2, <3>3, <3>4, <3>5, <3>6 DEF UserHandler
  <2> QED BY <2>1, <2>2, NothingAsked
<1> QED BY <1>3, <1>4, <1>5

(* The request daemon asks again, and counts what it asks.                 *)
LEMMA DaemonAsks ==
    ASSUME FlightInv, FlightInv', UserTypeOK, AnswersAreCounted, RetryRequest
    PROVE  AnswersAreCounted'
<1>1. /\ pendingRequests \in Nat
      /\ \A x \in Questions : Copies(x) \in Nat /\ Copies(x)' \in Nat
  BY RequestsAreNatural, FlightCounted
<1>2. Emit({RequestServer}) /\ pendingRequests' = pendingRequests + 1
  BY DEF RetryRequest, Repeated
<1>3. \A x : Copies(x)' = Copies(x) + (IF x = RequestServer THEN 1 ELSE 0)
  BY <1>2, EmitFlight DEF FlightInv
<1>4. /\ Copies(RequestServer)' = Copies(RequestServer) + 1
      /\ Copies(GameAddress)' = Copies(GameAddress)
  BY <1>1, <1>3, QuestionPackets DEF Questions
<1> QED BY <1>1, <1>2, <1>4 DEF AnswersAreCounted, Questions

(* The master turns a question into its answer.                            *)
LEMMA MasterAnswersOnce ==
    ASSUME FlightInv, FlightInv', UserTypeOK, AskedOnce, AnswersAreCounted,
           NEW m, MasterHandler(m), UNCHANGED pendingRequests
    PROVE  AnswersAreCounted'
<1>1. CASE AnswerRequest(m)
  <2>1. m \in InFlight /\ m \in ProperMessage
    BY <1>1, HandleFlight DEF AnswerRequest, FlightInv
  <2>2. m \in {RequestServer, RequestUserServer}
    BY <1>1, <2>1 DEF AnswerRequest, ProperMessage
  <2>3. CASE m = RequestServer
    <3>1. Handle(m, {GameAddress})
      BY <1>1, <2>3 DEF AnswerRequest, RequestServer, GameAddress, Reliable
    <3>2. /\ Copies(RequestServer)' = Copies(RequestServer) - 1
          /\ Copies(GameAddress)' = Copies(GameAddress) + 1
      BY <2>3, <3>1, QuestionPackets, HandleQuestions, FlightCounted DEF Questions
    <3> QED BY <3>2, FlightCounted DEF AnswersAreCounted
  <2>4. CASE m = RequestUserServer
    <3>1. Handle(m, {Plain("login", "ADDRESS", "nobody", 0)})
      BY <1>1, <2>4 DEF AnswerRequest, RequestUserServer, Plain
    <3> QED BY <3>1, QuestionPackets, NothingAsked
  <2> QED BY <2>2, <2>3, <2>4
<1>2. CASE ~AnswerRequest(m)
  <2>1. Handle(m, {})
    BY <1>2 DEF MasterHandler, RegisterServer, IgnoreRequest, AnswerFromNothing
  <2> QED BY <2>1, NothingAsked
<1> QED BY <1>1, <1>2

LEMMA LoginAsksNothing ==
    ASSUME FlightInv, FlightInv', UserTypeOK, LoginTypeOK, AskedOnce,
           AnswersAreCounted, NEW m, LoginHandler(m), UNCHANGED userVars
    PROVE  AnswersAreCounted'
<1>1. UNCHANGED pendingRequests
  BY DEF userVars
<1>2. CASE QueueRequest(m)
  BY <1>1, <1>2, QuestionPackets, NothingAsked DEF QueueRequest
<1>3. CASE PassAddress(m) /\ requests = <<>>
  <2>1. Handle(m, {})
    BY <1>3 DEF PassAddress
  <2> QED BY <1>1, <2>1, NothingAsked
<1>4. CASE PassAddress(m) /\ requests # <<>>
  <2>1. Handle(m, {Plain(Head(requests), "ADDRESS", Head(requests), 0)})
    BY <1>4 DEF PassAddress
  <2>2. Head(requests) \in Client
    BY <1>4, HeadTailProperties DEF LoginTypeOK
  <2> QED BY <1>1, <2>1, <2>2, QuestionPackets, NothingAsked
<1> QED BY <1>2, <1>3, <1>4 DEF LoginHandler

LEMMA PlayAsks ==
    ASSUME TypeInv, TypeInv', AskedOnce, AnswersAreCounted,
           \/ PlayStep
           \/ \E c \in Client : StartStep(c) \/ LogInStep(c)
    PROVE  AnswersAreCounted'
<1> USE DEF TypeInv
<1>1. UserStep(InFlight) \/ RetryStep \/ UNCHANGED pendingRequests
  BY DEF PlayStep, MasterStep, GameStep, ShotStep, ClientStep, PlayerStep,
     FrameStep, NextFrame, RestartStep, LoseStep, StartStep, LogInStep, userVars
<1>2. CASE UserStep(InFlight)
  BY <1>2, UserAsks DEF UserStep
<1>3. CASE RetryStep
  BY <1>3, DaemonAsks DEF RetryStep
<1> SUFFICES ASSUME UNCHANGED pendingRequests, ~RetryStep
             PROVE  AnswersAreCounted'
  BY <1>1, <1>2, <1>3
<1>4. CASE MasterStep
  BY <1>4, MasterAnswersOnce DEF MasterStep
<1>5. CASE GameStep(InFlight)
  <2>1. PICK m : GameHandler(m)
    BY <1>5 DEF GameStep
  <2>2. \E out : Handle(m, out) /\ \A x \in out : x \notin Questions
    BY <2>1, QuestionPackets DEF GameHandler, Join, TakePlace, AddPlace, KeepShip,
       Leave, HandleFire, JoinedPacket, IDPacket
  <2> QED BY <2>2, NothingAsked
<1>6. CASE ShotStep \/ FrameStep
  <2>1. UNCHANGED net
    BY <1>6 DEF ShotStep, FireOnce, FrameStep, NextFrame
  <2> QED BY <2>1, NothingAsked
<1>7. ASSUME NEW c \in Client, ClientStep(c) PROVE AnswersAreCounted'
  <2>1. PICK m : ClientHandler(c, m)
    BY <1>7 DEF ClientStep
  <2>2. \E out : Handle(m, out) /\ \A x \in out : x \notin Questions
    BY <2>1, QuestionPackets DEF ClientHandler, TakeAddress, ChooseShip, GetReady,
       JoinRequest, ShipRequest
  <2> QED BY <2>2, NothingAsked
<1>8. ASSUME NEW c \in Client, PlayerStep(c) PROVE AnswersAreCounted'
  <2>1. CASE Interrupt(c)
    <3>1. PICK out \in SUBSET {Farewell(c)} : Emit(out)
      BY <2>1 DEF Interrupt
    <3>2. Farewell(c) \notin Questions
      BY QuestionPackets DEF Farewell
    <3> QED BY <3>1, <3>2, NothingAsked
  <2>2. ASSUME NEW command \in Sends, Move(c, command)
        PROVE  AnswersAreCounted'
    <3>1. UNCHANGED net \/ Emit({Reliable("user", command, c, 0)})
      BY <2>2 DEF Move
    <3>2. Reliable("user", command, c, 0) \notin Questions
      BY QuestionPackets, ClientAssumption
    <3> QED BY <3>1, <3>2, NothingAsked
  <2> QED BY <1>8, <2>1, <2>2 DEF PlayerStep
<1>9. CASE RestartStep
  <2>1. Emit(CallsOf(Running)) /\ \A x \in CallsOf(Running) : x \notin Questions
    BY <1>9, QuestionPackets DEF RestartStep, RestartMaster, CallsOf
  <2> QED BY <2>1, NothingAsked
<1>10. CASE LoseStep
  <2>1. \E m : Drop(m)
    BY <1>10 DEF LoseStep
  <2> QED BY <2>1, NothingAsked
<1>11. ASSUME NEW c \in Client, StartStep(c) \/ LogInStep(c)
       PROVE  AnswersAreCounted'
  <2>1. PICK x \in {Plain(c, "ADDRESS", c, 0), LoginRequest(c)} : Emit({x})
    BY <1>11 DEF StartStep, Start, LogInStep, LogIn, Begin
  <2>2. x \notin Questions
    BY <2>1, QuestionPackets DEF LoginRequest
  <2> QED BY <2>1, <2>2, NothingAsked
<1> QED BY <1>2, <1>4, <1>5, <1>6, <1>7, <1>8, <1>9, <1>10, <1>11 DEF PlayStep

LEMMA FirstQuestions == Init => AnswersAreCounted
<1> SUFFICES ASSUME Init PROVE AnswersAreCounted
  OBVIOUS
<1>1. \A x \in InFlight : x \notin Questions
  BY FirstFlight, QuestionPackets DEF Init, CallsOf
<1>2. Copies(RequestServer) = 0 /\ Copies(GameAddress) = 0
  BY <1>1 DEF Copies, Questions
<1>3. pendingRequests = 0
  BY DEF Init, UserInit
<1> QED BY <1>2, <1>3 DEF AnswersAreCounted

(* An address that comes to the user server finds the request it answers   *)
(* still counted, so that pendingRequests is never popped when empty:      *)
(* whatever the request daemon repeats, whatever is lost or late, whoever  *)
(* leaves, and however often the master is started again, if no question   *)
(* is delivered twice.  (That it finds a user is another matter.)          *)
THEOREM QuestionsAreCounted ==
    ASSUME AskedOnce
    PROVE  Spec => []AnswersAreCounted
<1>1. TypeInv /\ TypeInv' /\ AnswersAreCounted /\ [Next]_vars
          => AnswersAreCounted'
  <2>1. TypeInv /\ TypeInv' /\ AnswersAreCounted /\ UNCHANGED vars
            => AnswersAreCounted'
    <3>1. UNCHANGED vars => UNCHANGED <<net, pendingRequests>>
      BY DEF vars, userVars
    <3> QED BY <3>1, NothingAsked DEF TypeInv
  <2> QED BY <2>1, PlayAsks DEF Next
<1> QED BY <1>1, FirstQuestions, TypeInvariant, PTL DEF Spec

(* The same with the login server in between, whose own exchange with the  *)
(* master is answered by packets of the same kind.                         *)
THEOREM LoginQuestionsAreCounted ==
    ASSUME AskedOnce
    PROVE  SpecAll => []AnswersAreCounted
<1>1. AllInv /\ AllInv' /\ AnswersAreCounted /\ [NextAll]_allVars
          => AnswersAreCounted'
  <2> SUFFICES ASSUME AllInv, AllInv', AnswersAreCounted, [NextAll]_allVars
               PROVE  AnswersAreCounted'
    OBVIOUS
  <2> USE DEF AllInv
  <2>1. CASE LoginStep
    BY <2>1, LoginAsksNothing DEF LoginStep, TypeInv
  <2>2. CASE PlayStep \/ \E c \in Client : LogInStep(c)
    BY <2>2, PlayAsks
  <2>3. CASE UNCHANGED allVars
    <3>1. UNCHANGED <<net, pendingRequests>>
      BY <2>3 DEF allVars, vars, userVars
    <3> QED BY <3>1, NothingAsked DEF TypeInv
  <2> QED BY <2>1, <2>2, <2>3 DEF NextAll
<1> QED BY <1>1, FirstQuestions, AllInvariant, PTL DEF SpecAll, InitAll
-----------------------------------------------------------------------------
(* What SpaceQuest sees of the network.                                    *)

(* Bags are the same that hold the same number of everything.              *)
Number(x, bag) == IF x \in DOMAIN bag THEN bag[x] ELSE 0

LEMMA SameBag ==
    ASSUME NEW B, NEW C, IsABag(B), IsABag(C), \A x : Number(x, B) = Number(x, C)
    PROVE  B = C
<1>1. DOMAIN B = DOMAIN C
  <2>1. \A x \in DOMAIN B : x \in DOMAIN C
    BY DEF Number, IsABag
  <2>2. \A x \in DOMAIN C : x \in DOMAIN B
    BY DEF Number, IsABag
  <2> QED BY <2>1, <2>2
<1>2. \A x \in DOMAIN B : B[x] = C[x]
  BY <1>1 DEF Number
<1> QED BY <1>1, <1>2 DEF IsABag

LEMMA BagSums ==
    ASSUME NEW B, NEW C, IsABag(B), IsABag(C)
    PROVE  /\ IsABag(B (+) C)
           /\ \A x : /\ Number(x, B (+) C) = Number(x, B) + Number(x, C)
                     /\ Number(x, B) \in Nat
                     /\ x \in DOMAIN B <=> Number(x, B) > 0
BY DEF IsABag, (+), Number

LEMMA SetBags ==
    ASSUME NEW S
    PROVE  /\ IsABag(SetToBag(S))
           /\ \A x : Number(x, SetToBag(S)) = IF x \in S THEN 1 ELSE 0
BY DEF IsABag, SetToBag, Number

LEMMA OneFewer ==
    ASSUME NEW B, IsABag(B), NEW m \in DOMAIN B
    PROVE  /\ IsABag(B (-) SetToBag({m}))
           /\ \A x : Number(x, B (-) SetToBag({m}))
                        = Number(x, B) - (IF x = m THEN 1 ELSE 0)
<1> DEFINE C == B (-) SetToBag({m})
<1>1. /\ DOMAIN C = {d \in DOMAIN B : (IF d = m THEN B[d] - 1 ELSE B[d]) > 0}
      /\ \A d \in DOMAIN C : C[d] = IF d = m THEN B[d] - 1 ELSE B[d]
  BY DEF SetToBag, (-)
<1>2. C = [d \in DOMAIN C |-> C[d]]
  BY DEF (-)
<1>3. \A d \in DOMAIN B : B[d] \in Nat /\ B[d] > 0
  BY DEF IsABag
<1> HIDE DEF C
<1>4. IsABag(C)
  BY <1>1, <1>2, <1>3 DEF IsABag
<1>5. ASSUME NEW x PROVE Number(x, C) = Number(x, B) - (IF x = m THEN 1 ELSE 0)
  BY <1>1, <1>3 DEF Number
<1> QED BY <1>4, <1>5 DEF C

(* How often a value is in a sequence that gets one more, or loses its     *)
(* first.                                                                  *)
Places(s, c) == {i \in DOMAIN s : s[i] = c}

LEMMA PlacesFinite ==
    ASSUME NEW S, NEW s \in Seq(S), NEW c
    PROVE  IsFiniteSet(Places(s, c)) /\ Cardinality(Places(s, c)) \in Nat
<1>1. Len(s) \in Nat /\ DOMAIN s = 1..Len(s)
  BY LenProperties
<1>2. IsFiniteSet(1..Len(s)) /\ Places(s, c) \subseteq 1..Len(s)
  BY <1>1, FS_Interval DEF Places
<1> QED BY <1>2, FS_Subset, FS_CardinalityType

LEMMA PlacesOfAppend ==
    ASSUME NEW S, NEW s \in Seq(S), NEW d \in S, NEW c
    PROVE  Cardinality(Places(Append(s, d), c))
               = Cardinality(Places(s, c)) + (IF d = c THEN 1 ELSE 0)
<1>1. /\ Append(s, d) \in Seq(S) /\ Len(s) \in Nat /\ DOMAIN s = 1..Len(s)
      /\ DOMAIN Append(s, d) = 1..(Len(s) + 1)
      /\ \A i \in 1..Len(s) : Append(s, d)[i] = s[i]
      /\ Append(s, d)[Len(s) + 1] = d
  BY AppendProperties, LenProperties
<1>2. Places(Append(s, d), c)
          = IF d = c THEN Places(s, c) \cup {Len(s) + 1} ELSE Places(s, c)
  BY <1>1 DEF Places
<1>3. Len(s) + 1 \notin Places(s, c)
  BY <1>1 DEF Places
<1>4. IsFiniteSet(Places(s, c)) /\ Cardinality(Places(s, c)) \in Nat
  BY PlacesFinite
<1>5. Cardinality(Places(s, c) \cup {Len(s) + 1}) = Cardinality(Places(s, c)) + 1
  BY <1>3, <1>4, FS_AddElement
<1> QED BY <1>2, <1>4, <1>5

LEMMA PlacesOfTail ==
    ASSUME NEW S, NEW s \in Seq(S), s # <<>>, NEW c
    PROVE  Cardinality(Places(Tail(s), c))
               = Cardinality(Places(s, c)) - (IF Head(s) = c THEN 1 ELSE 0)
<1>1. /\ Len(s) \in Nat /\ Len(s) # 0 /\ DOMAIN s = 1..Len(s) /\ Head(s) = s[1]
      /\ Tail(s) \in Seq(S) /\ DOMAIN Tail(s) = 1..(Len(s) - 1)
      /\ \A i \in 1..(Len(s) - 1) : Tail(s)[i] = s[i + 1]
  BY EmptySeq, HeadTailProperties, LenProperties
<1> DEFINE T == Places(s, c) \ {1}
           f == [i \in T |-> i - 1]
<1>2. f \in Bijection(T, Places(Tail(s), c))
  <2>1. T \subseteq 2..Len(s)
    BY <1>1 DEF Places
  <2>2. \A i \in T : i - 1 \in Places(Tail(s), c)
    BY <1>1, <2>1 DEF Places
  <2>3. \A j \in Places(Tail(s), c) : j + 1 \in T /\ (j + 1) - 1 = j
    BY <1>1 DEF Places
  <2>4. \A i, j \in T : i - 1 = j - 1 => i = j
    BY <2>1
  <2> HIDE DEF T
  <2>5. f \in [T -> Places(Tail(s), c)]
    BY <2>2
  <2>6. \A j \in Places(Tail(s), c) : \E i \in T : f[i] = j
    BY <2>3
  <2>7. \A i, j \in T : f[i] = f[j] => i = j
    BY <2>4
  <2> QED BY <2>5, <2>6, <2>7, Fun_IsBij
<1>3. IsFiniteSet(Places(s, c)) /\ Cardinality(Places(s, c)) \in Nat
  BY PlacesFinite
<1>4. /\ IsFiniteSet(T)
      /\ Cardinality(T) = Cardinality(Places(s, c))
                              - (IF 1 \in Places(s, c) THEN 1 ELSE 0)
  BY <1>3, FS_RemoveElement
<1>5. Cardinality(Places(Tail(s), c)) = Cardinality(T)
  BY <1>2, <1>4, FS_Bijection DEF ExistsBijection
<1>6. 1 \in Places(s, c) <=> Head(s) = c
  BY <1>1 DEF Places
<1> QED BY <1>4, <1>5, <1>6

(* How many copies of a message SpaceQuest sees: none of what the login    *)
(* server exchanges, and an address for each login that is not answered.   *)
AddressOf(c) == Plain(c, "ADDRESS", c, 0)
Unanswered(x) == IF x \in {AddressOf(c) : c \in Client} THEN Logins(x.to) ELSE 0
Seen(x)       == (IF OfLogin(x) THEN 0 ELSE Copies(x)) + Unanswered(x)

SeenInv == /\ IsABag(NetWithoutLogin)
           /\ \A x : Number(x, NetWithoutLogin) = Seen(x)
           /\ \A c : Logins(c) \in Nat

LEMMA LoginsOf ==
    \A c : Logins(c) = Copies(LoginRequest(c)) + Cardinality(Places(requests, c))
BY DEF Logins, Places

LEMMA NumbersSeen == FlightInv /\ LoginTypeOK => SeenInv
<1> SUFFICES ASSUME FlightInv, LoginTypeOK PROVE SeenInv
  OBVIOUS
<1>1. \A c : Logins(c) \in Nat
  BY LoginsOf, PlacesFinite, CopiesType DEF FlightInv, LoginTypeOK
<1> DEFINE B == [m \in {n \in InFlight : ~OfLogin(n)} |-> net[m]]
<1>2. IsABag(B) /\ \A x : Number(x, B) = IF OfLogin(x) THEN 0 ELSE Copies(x)
  BY DEF FlightInv, IsABag, InFlight, BagToSet, Number, Copies
<1>3. \A c : AddressOf(c).to = c
  BY DEF AddressOf, Plain
<1>4. IsABag(Answers) /\ \A x : Number(x, Answers) = Unanswered(x)
  <2>1. DOMAIN Answers = {AddressOf(c) : c \in {d \in Client : Logins(d) > 0}}
    BY DEF Answers, AddressOf
  <2>2. \A x \in DOMAIN Answers : Answers[x] = Logins(x.to)
    BY DEF Answers
  <2>3. \A x \in DOMAIN Answers : Logins(x.to) \in Nat /\ Logins(x.to) > 0
    BY <1>1, <1>3, <2>1
  <2>4. IsABag(Answers)
    BY <2>2, <2>3 DEF IsABag, Answers
  <2>5. ASSUME NEW x PROVE Number(x, Answers) = Unanswered(x)
    <3>1. CASE x \in DOMAIN Answers
      BY <2>1, <2>2, <3>1 DEF Number, Unanswered
    <3>2. CASE x \notin DOMAIN Answers /\ x \in {AddressOf(c) : c \in Client}
      BY <1>1, <1>3, <2>1, <3>2 DEF Number, Unanswered
    <3>3. CASE x \notin {AddressOf(c) : c \in Client}
      BY <2>1, <3>3 DEF Number, Unanswered
    <3> QED BY <3>1, <3>2, <3>3
  <2> QED BY <2>4, <2>5
<1>5. NetWithoutLogin = B (+) Answers
  BY DEF NetWithoutLogin
<1> HIDE DEF B
<1> QED BY <1>1, <1>2, <1>4, <1>5, BagSums DEF SeenInv, Seen

LEMMA NumbersSeenNext == (FlightInv /\ LoginTypeOK)' => SeenInv'
BY NumbersSeen, PTL

LEMMA SeenPackets ==
    /\ \A c \in Client : ~OfLogin(AddressOf(c)) /\ AddressOf(c).to = c
    /\ \A c : OfLogin(LoginRequest(c))
    /\ \A x : x.reliable => x \notin {AddressOf(c) : c \in Client}
BY NetworkAssumption
   DEF OfLogin, AddressOf, LoginRequest, Plain, Reliable, Server

(* A step in whose eyes nothing changes.                                   *)
LEMMA SameSeen ==
    ASSUME FlightInv, FlightInv', LoginTypeOK, LoginTypeOK', \A x : Seen(x)' = Seen(x)
    PROVE  UNCHANGED NetWithoutLogin
<1>1. SeenInv /\ SeenInv'
  BY NumbersSeen, NumbersSeenNext
<1> QED BY <1>1, SameBag DEF SeenInv

(* As long as the requests of the login server stay, a step's copies are   *)
(* seen to change as they do.                                              *)
LEMMA SeenChange ==
    ASSUME FlightInv, FlightInv', UNCHANGED requests,
           \A c \in Client : Copies(LoginRequest(c))' = Copies(LoginRequest(c)),
           NEW x, ~OfLogin(x)
    PROVE  /\ Seen(x) = Copies(x) + Unanswered(x)
           /\ Seen(x)' = Copies(x)' + Unanswered(x)
<1>1. \A c \in Client : Logins(c)' = Logins(c)
  BY DEF Logins
<1>2. Unanswered(x)' = Unanswered(x)
  BY <1>1, SeenPackets DEF Unanswered
<1> QED BY <1>2 DEF Seen

(* What a step sends that passes the login server by.                      *)
Visible(out) == \A x \in out : ~OfLogin(x) /\ x \notin {AddressOf(c) : c \in Client}

(* The operators on bags are those of the bags of SpaceQuest.              *)
LEMMA BagsSeen ==
    /\ \A S : WithoutLogin!SetToBag(S) = SetToBag(S)
    /\ \A B : WithoutLogin!BagToSet(B) = BagToSet(B)
    /\ \A B, C : WithoutLogin!(+)(B, C) = B (+) C
    /\ \A B, C : WithoutLogin!(-)(B, C) = B (-) C
BY DEF SetToBag, WithoutLogin!SetToBag, BagToSet, WithoutLogin!BagToSet,
       (+), WithoutLogin!(+), (-), WithoutLogin!(-)

(* SpaceQuest sees a handler receive and send the same packets.            *)
LEMMA HandleSeen ==
    ASSUME FlightInv, FlightInv', LoginTypeOK, LoginTypeOK', UNCHANGED requests,
           NEW m, NEW out, Handle(m, out), ~OfLogin(m), Visible(out)
    PROVE  WithoutLogin!Handle(m, out)
<1>1. SeenInv /\ SeenInv' /\ IsABag(net) /\ IsABag(net')
  BY NumbersSeen, NumbersSeenNext DEF FlightInv
<1>2. \A x : /\ Copies(x) = Number(x, net) /\ Copies(x)' = Number(x, net')
            /\ Copies(x) \in Nat /\ Unanswered(x) \in Nat
  BY <1>1, FlightCounted DEF Copies, InFlight, BagToSet, Number, Unanswered, SeenInv
<1>3. m \in DOMAIN net /\ RoomFor(out)
  BY DEF Handle, InFlight, BagToSet
<1>4. \A x \in out : Number(x, NetWithoutLogin) = Copies(x)
  BY <1>1, <1>2 DEF SeenInv, Seen, Visible, Unanswered
<1>5. WithoutLogin!RoomFor(out)
  BY <1>3, <1>4, BagsSeen
     DEF RoomFor, WithoutLogin!RoomFor, WithoutLogin!Copies,
         WithoutLogin!InFlight, BagToSet, Number
<1>6. m \in DOMAIN NetWithoutLogin /\ m \in WithoutLogin!InFlight
  <2>1. Number(m, net) > 0
    BY <1>1, <1>3 DEF IsABag, Number
  <2>2. Number(m, NetWithoutLogin) > 0
    BY <1>1, <1>2, <2>1 DEF SeenInv, Seen
  <2> QED BY <2>2, BagsSeen DEF Number, WithoutLogin!InFlight, BagToSet
<1>7. ASSUME NEW rest, IsABag(rest), net' = rest (+) SetToBag(out),
             NEW mine \in WithoutLogin!AfterReceiving(m), IsABag(mine),
             NEW k \in {0, 1},
             \A x : Number(x, rest) = Number(x, net) - (IF x = m THEN k ELSE 0),
             \A x : Number(x, mine)
                        = Number(x, NetWithoutLogin) - (IF x = m THEN k ELSE 0)
      PROVE  WithoutLogin!Handle(m, out)
  <2>1. /\ IsABag(mine (+) SetToBag(out))
        /\ \A x : /\ Number(x, net') = Number(x, rest) + (IF x \in out THEN 1 ELSE 0)
                  /\ Number(x, mine (+) SetToBag(out))
                         = Number(x, mine) + (IF x \in out THEN 1 ELSE 0)
    BY <1>7, BagSums, SetBags
  <2>2. ASSUME NEW x, OfLogin(x)
        PROVE  /\ Copies(x)' = Copies(x)
               /\ Number(x, NetWithoutLogin') = Number(x, mine (+) SetToBag(out))
    <3>1. x # m /\ x \notin out /\ Unanswered(x) = 0 /\ Unanswered(x)' = 0
      BY <2>2, SeenPackets DEF Visible, Unanswered
    <3>2. Seen(x) = 0 /\ Seen(x)' = 0
      BY <2>2, <3>1 DEF Seen
    <3> QED BY <1>1, <1>2, <1>7, <2>1, <3>1, <3>2 DEF SeenInv
  <2>3. ASSUME NEW x, ~OfLogin(x)
        PROVE  Number(x, NetWithoutLogin') = Number(x, mine (+) SetToBag(out))
    <3>1. Seen(x) = Copies(x) + Unanswered(x) /\ Seen(x)' = Copies(x)' + Unanswered(x)
      BY <2>2, <2>3, SeenPackets, SeenChange
    <3> QED BY <1>1, <1>2, <1>7, <2>1, <3>1 DEF SeenInv
  <2>4. NetWithoutLogin' = mine (+) SetToBag(out)
    BY <1>1, <2>1, <2>2, <2>3, SameBag DEF SeenInv
  <2> QED BY <1>5, <1>6, <1>7, <2>4, BagsSeen DEF WithoutLogin!Handle
<1>8. PICK rest \in AfterReceiving(m) : net' = rest (+) SetToBag(out)
  BY DEF Handle
<1>9. CASE rest = net (-) SetToBag({m})
  <2>1. NetWithoutLogin (-) SetToBag({m}) \in WithoutLogin!AfterReceiving(m)
    BY BagsSeen DEF WithoutLogin!AfterReceiving
  <2> QED BY <1>1, <1>3, <1>6, <1>7, <1>8, <1>9, <2>1, OneFewer DEF SeenInv
<1>10. CASE rest = net /\ m.reliable /\ m.command \in Redelivered
  <2>1. NetWithoutLogin \in WithoutLogin!AfterReceiving(m)
    BY <1>10 DEF WithoutLogin!AfterReceiving
  <2>2. \A x : Number(x, net) = Number(x, net) - (IF x = m THEN 0 ELSE 0)
    BY <1>2
  <2>3. \A x : Number(x, NetWithoutLogin)
                   = Number(x, NetWithoutLogin) - (IF x = m THEN 0 ELSE 0)
    BY <1>1, BagSums DEF SeenInv
  <2> QED BY <1>1, <1>7, <1>8, <1>10, <2>1, <2>2, <2>3 DEF SeenInv
<1> QED BY <1>8, <1>9, <1>10 DEF AfterReceiving

(* The same for a process that sends of its own accord, and for a loss.    *)
LEMMA EmitSeen ==
    ASSUME FlightInv, FlightInv', LoginTypeOK, LoginTypeOK', UNCHANGED requests,
           NEW out, Emit(out), Visible(out)
    PROVE  WithoutLogin!Emit(out)
<1>1. SeenInv /\ SeenInv' /\ IsABag(net)
  BY NumbersSeen, NumbersSeenNext DEF FlightInv
<1>2. \A x : Copies(x)' = Copies(x) + (IF x \in out THEN 1 ELSE 0)
  BY <1>1, EmitFlight
<1>3. \A x : Copies(x) \in Nat /\ Unanswered(x) \in Nat
  BY <1>1, FlightCounted DEF Unanswered, SeenInv
<1>4. \A x \in out : Number(x, NetWithoutLogin) = Copies(x)
  BY <1>1, <1>3 DEF SeenInv, Seen, Visible, Unanswered
<1>5. WithoutLogin!RoomFor(out)
  BY <1>4, BagsSeen DEF Emit, RoomFor, WithoutLogin!RoomFor,
     WithoutLogin!Copies, WithoutLogin!InFlight, BagToSet, Number
<1>6. ASSUME NEW x
      PROVE  Number(x, NetWithoutLogin')
                 = Number(x, NetWithoutLogin) + (IF x \in out THEN 1 ELSE 0)
  <2>1. CASE OfLogin(x)
    <3>1. x \notin out /\ Unanswered(x) = 0 /\ Unanswered(x)' = 0
      BY <2>1, SeenPackets DEF Visible, Unanswered
    <3>2. Seen(x) = 0 /\ Seen(x)' = 0
      BY <2>1, <3>1 DEF Seen
    <3> QED BY <1>1, <3>1, <3>2 DEF SeenInv
  <2>2. CASE ~OfLogin(x)
    <3>1. \A c : LoginRequest(c) \notin out
      BY SeenPackets DEF Visible
    <3>2. \A c : Copies(LoginRequest(c))' = Copies(LoginRequest(c))
      BY <1>2, <1>3, <3>1
    <3>3. Seen(x) = Copies(x) + Unanswered(x) /\ Seen(x)' = Copies(x)' + Unanswered(x)
      BY <2>2, <3>2, SeenChange
    <3> QED BY <1>1, <1>2, <1>3, <3>3 DEF SeenInv
  <2> QED BY <2>1, <2>2
<1>7. NetWithoutLogin' = NetWithoutLogin (+) SetToBag(out)
  BY <1>1, <1>6, BagSums, SetBags, SameBag DEF SeenInv
<1> QED BY <1>5, <1>7, BagsSeen DEF WithoutLogin!Emit

LEMMA DropSeen ==
    ASSUME FlightInv, FlightInv', LoginTypeOK, LoginTypeOK', UNCHANGED requests,
           NEW m, Drop(m), \A c : m # LoginRequest(c)
    PROVE  IF OfLogin(m) THEN UNCHANGED NetWithoutLogin ELSE WithoutLogin!Drop(m)
<1>1. SeenInv /\ SeenInv' /\ IsABag(net)
  BY NumbersSeen, NumbersSeenNext DEF FlightInv
<1>2. \A x : Copies(x)' = Copies(x) - (IF x = m THEN 1 ELSE 0)
  BY <1>1, DropFlight
<1>3. \A x : Copies(x) \in Nat /\ Unanswered(x) \in Nat
  BY <1>1, FlightCounted DEF Unanswered, SeenInv
<1>4. \A c : Copies(LoginRequest(c))' = Copies(LoginRequest(c))
  BY <1>2, <1>3
<1>5. ASSUME NEW x
      PROVE  /\ Seen(x) \in Nat
             /\ x = m /\ ~OfLogin(m) => Seen(x)' = Seen(x) - 1
             /\ x # m \/ OfLogin(m) => Seen(x)' = Seen(x)
  <2>1. CASE OfLogin(x)
    <3>1. Unanswered(x) = 0 /\ Unanswered(x)' = 0
      BY <2>1, SeenPackets DEF Unanswered
    <3>2. Seen(x) = 0 /\ Seen(x)' = 0
      BY <2>1, <3>1 DEF Seen
    <3> QED BY <2>1, <3>2
  <2>2. CASE ~OfLogin(x)
    <3>1. Seen(x) = Copies(x) + Unanswered(x) /\ Seen(x)' = Copies(x)' + Unanswered(x)
      BY <1>4, <2>2, SeenChange
    <3> QED BY <1>2, <1>3, <2>2, <3>1
  <2> QED BY <2>1, <2>2
<1>6. CASE OfLogin(m)
  BY <1>5, <1>6, SameSeen
<1>7. CASE ~OfLogin(m)
  <2>1. m \in DOMAIN NetWithoutLogin
    <3>1. Number(m, NetWithoutLogin) > 0
      <4>1. Copies(m) > 0
        BY FlightCounted DEF Drop
      <4> QED BY <1>1, <1>3, <1>7, <4>1 DEF SeenInv, Seen
    <3> QED BY <3>1 DEF Number
  <2>2. NetWithoutLogin' = NetWithoutLogin (-) SetToBag({m})
    BY <1>1, <1>5, <1>7, <2>1, OneFewer, SameBag DEF SeenInv
  <2> QED BY <1>7, <2>1, <2>2, BagsSeen
          DEF WithoutLogin!Drop, WithoutLogin!InFlight, BagToSet
<1> QED BY <1>6, <1>7

-----------------------------------------------------------------------------
(* Every step of SpaceQuestLogin is one of SpaceQuest, or none.            *)

(* The packets of the one are the packets of the other.                    *)
LEMMA PacketsSeen ==
    \A to, command, about, id :
       /\ WithoutLogin!Plain(to, command, about, id) = Plain(to, command, about, id)
       /\ WithoutLogin!Reliable(to, command, about, id)
              = Reliable(to, command, about, id)
BY DEF Plain, WithoutLogin!Plain, Reliable, WithoutLogin!Reliable

LEMMA VisiblePackets ==
    /\ Visible({})
    /\ \A to, command, about, id :
          to # "login" /\ about # "login" =>
              /\ Visible({Reliable(to, command, about, id)})
              /\ command # "ADDRESS" \/ to \notin Client
                   => Visible({Plain(to, command, about, id)})
    /\ \A c \in Client : c # "login"
<1>1. \A x : ~OfLogin(x) /\ x.reliable => Visible({x})
  BY DEF Visible, AddressOf, Plain
<1>2. \A x : ~OfLogin(x) /\ (x.command # "ADDRESS" \/ x.to \notin Client)
                => Visible({x})
  BY DEF Visible, AddressOf, Plain
<1>3. \A c \in Client : c # "login"
  BY NetworkAssumption DEF Server
<1>4. \A to, command, about, id :
         to # "login" /\ about # "login" =>
             ~OfLogin(Plain(to, command, about, id))
                 /\ ~OfLogin(Reliable(to, command, about, id))
  BY DEF OfLogin, Plain, Reliable
<1> QED BY <1>1, <1>2, <1>3, <1>4 DEF Visible, Plain, Reliable

(* A step of a process that has nothing to do with the login server.       *)
SeenStep == /\ FlightInv /\ FlightInv' /\ LoginTypeOK /\ LoginTypeOK'
            /\ UNCHANGED requests

LEMMA NotForLogin ==
    ASSUME SeenStep, NEW m, NEW out, Handle(m, out),
           m.to \notin {"master", "login"}, m.command # "INITIALIZE"
    PROVE  /\ ~OfLogin(m)
           /\ m.to \in Client => m.about = m.to
           /\ m.command \in {"JOIN", "JOINED", "ID", "DISCONNECT", "SELECT_SHIP",
                             "FIRE", "USE"} => m.about \in Client
<1>1. m \in ProperMessage
  BY HandleFlight DEF SeenStep, FlightInv
<1>2. m.command \in Command
  BY <1>1, ProperFields
<1>3. m.command # "REQUEST_ADDRESS"
  BY <1>1 DEF ProperMessage, RequestServer, RequestUserServer, Plain, Reliable
<1>4. CASE m.command = "ADDRESS"
  BY <1>1, <1>4, NetworkAssumption DEF ProperMessage, OfLogin, Plain, Server
<1>5. CASE m.command # "ADDRESS"
  <2>1. m.about \in Client
    BY <1>1, <1>2, <1>3, <1>5 DEF ProperMessage, Command
  <2> QED BY <1>1, <1>5, <2>1, VisiblePackets DEF OfLogin, ProperMessage
<1> QED BY <1>4, <1>5

LEMMA ClientSeen ==
    ASSUME SeenStep, NEW c \in Client, NEW m, ClientHandler(c, m)
    PROVE  WithoutLogin!ClientHandler(c, m)
<1>1. ASSUME NEW out \in {{}, {JoinRequest(c)}, {ShipRequest(c)}}, Handle(m, out),
             m.command # "INITIALIZE"
      PROVE  WithoutLogin!Handle(m, out)
  <2>1. Visible({}) /\ Visible({JoinRequest(c)}) /\ Visible({ShipRequest(c)})
    BY VisiblePackets DEF JoinRequest, ShipRequest
  <2>2. ~OfLogin(m)
    BY <1>1, NotForLogin, NetworkAssumption DEF ClientHandler, Server
  <2> QED BY <1>1, <2>1, <2>2, HandleSeen DEF SeenStep
<1>2. TakeAddress(c, m) => WithoutLogin!TakeAddress(c, m)
  BY <1>1, PacketsSeen
     DEF TakeAddress, WithoutLogin!TakeAddress, JoinRequest, WithoutLogin!JoinRequest
<1>3. ChooseShip(c, m) => WithoutLogin!ChooseShip(c, m)
  BY <1>1, PacketsSeen
     DEF ChooseShip, WithoutLogin!ChooseShip, ShipRequest,
         WithoutLogin!ShipRequest, Aborted, WithoutLogin!Aborted
<1>4. GetReady(c, m) => WithoutLogin!GetReady(c, m)
  BY <1>1 DEF GetReady, WithoutLogin!GetReady, Aborted, WithoutLogin!Aborted
<1> QED BY <1>2, <1>3, <1>4
        DEF ClientHandler, WithoutLogin!ClientHandler, IsOn, WithoutLogin!IsOn

LEMMA UserWordsSeen ==
    /\ WithoutLogin!LeastBucket = LeastBucket
    /\ WithoutLogin!OthersPending = OthersPending
    /\ WithoutLogin!RequestServer = RequestServer
    /\ \A c : /\ WithoutLogin!WithUser(c) = WithUser(c)
              /\ WithoutLogin!WithoutUser(c) = WithoutUser(c)
              /\ WithoutLogin!HasUser(c) = HasUser(c)
              /\ WithoutLogin!Touched(c) = Touched(c)
              /\ WithoutLogin!JoinServer(c) = JoinServer(c)
              /\ \A id : WithoutLogin!Ready(c, id) = Ready(c, id)
              /\ \A command : WithoutLogin!ToGame(c, command) = ToGame(c, command)
<1>1. \A b : WithoutLogin!Size(b) = Size(b)
  BY DEF Size, WithoutLogin!Size, Cardinality, WithoutLogin!Cardinality
<1>2. WithoutLogin!LeastBucket = LeastBucket
  BY <1>1 DEF LeastBucket, WithoutLogin!LeastBucket, Bucket, WithoutLogin!Bucket
<1>3. WithoutLogin!OthersPending = OthersPending
  BY DEF OthersPending, WithoutLogin!OthersPending
<1>4. \A c : /\ WithoutLogin!WithUser(c) = WithUser(c)
             /\ WithoutLogin!WithoutUser(c) = WithoutUser(c)
  BY <1>2 DEF WithUser, WithoutLogin!WithUser, WithoutUser,
     WithoutLogin!WithoutUser, Bucket, WithoutLogin!Bucket
<1>5. \A c : /\ WithoutLogin!HasUser(c) = HasUser(c)
             /\ WithoutLogin!Touched(c) = Touched(c)
             /\ WithoutLogin!JoinServer(c) = JoinServer(c)
             /\ \A id : WithoutLogin!Ready(c, id) = Ready(c, id)
             /\ \A command : WithoutLogin!ToGame(c, command) = ToGame(c, command)
             /\ WithoutLogin!RequestServer = RequestServer
  BY PacketsSeen
     DEF HasUser, WithoutLogin!HasUser, Touched, WithoutLogin!Touched, NullEntry,
         WithoutLogin!NullEntry, JoinServer, WithoutLogin!JoinServer, Ready,
         WithoutLogin!Ready, ToGame, WithoutLogin!ToGame, RequestServer,
         WithoutLogin!RequestServer
<1> QED BY <1>2, <1>3, <1>4, <1>5

LEMMA UserSeen ==
    ASSUME SeenStep, TypeInv, NEW m, UserHandler(m)
    PROVE  WithoutLogin!UserHandler(m)
<1>1. ASSUME NEW out, Handle(m, out), Visible(out), m.command # "INITIALIZE"
      PROVE  WithoutLogin!Handle(m, out)
  <2>1. ~OfLogin(m)
    BY <1>1, NotForLogin DEF UserHandler
  <2> QED BY <1>1, <2>1, HandleSeen DEF SeenStep
<1>2. ASSUME NEW out, Handle(m, out),
             m.command \in {"JOIN", "JOINED", "ID", "DISCONNECT", "SELECT_SHIP",
                            "FIRE", "USE"}
      PROVE  m.about \in Client /\ m.about # "login"
  BY <1>2, NotForLogin, VisiblePackets DEF UserHandler
<1>3. \A c, command : c # "login" => Visible(ToGame(c, command))
  BY VisiblePackets DEF ToGame
<1>4. AddressForNobody(m) => WithoutLogin!AddressForNobody(m)
  BY <1>1, VisiblePackets DEF AddressForNobody, WithoutLogin!AddressForNobody
<1>5. ProcessAddressResponse(m) => WithoutLogin!ProcessAddressResponse(m)
  <2>1. pendingUsers # <<>> => Visible({JoinServer(Head(pendingUsers))})
    <3>1. pendingUsers # <<>> => Head(pendingUsers) \in Client
      BY HeadTailProperties DEF TypeInv, UserTypeOK
    <3> QED BY <3>1, VisiblePackets DEF JoinServer
  <2> QED BY <1>1, <2>1, VisiblePackets, UserWordsSeen
          DEF ProcessAddressResponse, WithoutLogin!ProcessAddressResponse
<1>6. CreateUserEndpoint(m) => WithoutLogin!CreateUserEndpoint(m)
  BY <1>1, VisiblePackets, UserWordsSeen
     DEF CreateUserEndpoint, WithoutLogin!CreateUserEndpoint, NewUser,
         WithoutLogin!NewUser, RequestServer
<1>7. IgnoreJoin(m) => WithoutLogin!IgnoreJoin(m)
  BY <1>1, VisiblePackets
     DEF IgnoreJoin, WithoutLogin!IgnoreJoin, userVars, WithoutLogin!userVars
<1>8. SendJoined(m) => WithoutLogin!SendJoined(m)
  BY <1>1, <1>2, VisiblePackets, PacketsSeen, UserWordsSeen
     DEF SendJoined, WithoutLogin!SendJoined, userVars, WithoutLogin!userVars
<1>9. ProcessID(m) => WithoutLogin!ProcessID(m)
  BY <1>1, <1>2, VisiblePackets, UserWordsSeen
     DEF ProcessID, WithoutLogin!ProcessID, Ready
<1>10. Disconnect(m) => WithoutLogin!Disconnect(m)
  BY <1>1, <1>2, <1>3, VisiblePackets, UserWordsSeen
     DEF Disconnect, WithoutLogin!Disconnect, NoEntry, WithoutLogin!NoEntry
<1>11. SelectShip(m) => WithoutLogin!SelectShip(m)
  BY <1>1, <1>2, <1>3, VisiblePackets, UserWordsSeen
     DEF SelectShip, WithoutLogin!SelectShip
<1>12. ForwardCommand(m) => WithoutLogin!ForwardCommand(m)
  BY <1>1, <1>2, <1>3, VisiblePackets, UserWordsSeen
     DEF ForwardCommand, WithoutLogin!ForwardCommand, userVars,
         WithoutLogin!userVars
<1>13. Use(m) => WithoutLogin!Use(m)
  BY <1>1, VisiblePackets, UserWordsSeen DEF Use, WithoutLogin!Use
<1> QED BY <1>4, <1>5, <1>6, <1>7, <1>8, <1>9, <1>10, <1>11, <1>12, <1>13, Zenon
        DEF UserHandler, WithoutLogin!UserHandler

LEMMA GameWordsSeen ==
    /\ WithoutLogin!OthersAvailable = OthersAvailable
    /\ \A id : /\ WithoutLogin!Place(id) = Place(id)
               /\ WithoutLogin!IdAt(id) = IdAt(id)
               /\ WithoutLogin!Shoot(id) <=> Shoot(id)
    /\ \A c : /\ WithoutLogin!JoinedPacket(c) = JoinedPacket(c)
              /\ \A id : WithoutLogin!IDPacket(c, id) = IDPacket(c, id)
BY PacketsSeen
   DEF OthersAvailable, WithoutLogin!OthersAvailable, Place, WithoutLogin!Place,
       IdAt, WithoutLogin!IdAt, JoinedPacket, WithoutLogin!JoinedPacket,
       IDPacket, WithoutLogin!IDPacket, Shoot, WithoutLogin!Shoot, IsShip,
       WithoutLogin!IsShip, Cardinality, WithoutLogin!Cardinality

LEMMA GameSeen ==
    ASSUME SeenStep, NEW m, GameHandler(m)
    PROVE  WithoutLogin!GameHandler(m)
<1>1. ASSUME NEW out, Handle(m, out), Visible(out), m.command # "INITIALIZE"
      PROVE  WithoutLogin!Handle(m, out)
  <2>1. ~OfLogin(m)
    BY <1>1, NotForLogin DEF GameHandler
  <2> QED BY <1>1, <2>1, HandleSeen DEF SeenStep
<1>2. ASSUME NEW out, Handle(m, out), m.command \in {"JOIN", "SELECT_SHIP"}
      PROVE  /\ Visible({JoinedPacket(m.about)})
             /\ \A id : Visible({IDPacket(m.about, id)})
  <2>1. m.about # "login"
    BY <1>2, NotForLogin, VisiblePackets DEF GameHandler
  <2> QED BY <2>1, VisiblePackets DEF JoinedPacket, IDPacket
<1>3. Join(m) => WithoutLogin!Join(m)
  BY <1>1, <1>2, GameWordsSeen DEF Join, WithoutLogin!Join
<1>4. TakePlace(m) => WithoutLogin!TakePlace(m)
  BY <1>1, <1>2, GameWordsSeen DEF TakePlace, WithoutLogin!TakePlace
<1>5. AddPlace(m) => WithoutLogin!AddPlace(m)
  BY <1>1, <1>2, GameWordsSeen DEF AddPlace, WithoutLogin!AddPlace
<1>6. KeepShip(m) => WithoutLogin!KeepShip(m)
  BY <1>1, VisiblePackets
     DEF KeepShip, WithoutLogin!KeepShip, gameVars, WithoutLogin!gameVars
<1>7. Leave(m) => WithoutLogin!Leave(m)
  BY <1>1, VisiblePackets, GameWordsSeen DEF Leave, WithoutLogin!Leave
<1>8. HandleFire(m) => WithoutLogin!HandleFire(m)
  BY <1>1, VisiblePackets, GameWordsSeen DEF HandleFire, WithoutLogin!HandleFire
<1> QED BY <1>3, <1>4, <1>5, <1>6, <1>7, <1>8, Zenon
        DEF GameHandler, WithoutLogin!GameHandler

(* What is exchanged for the login server alone is not seen.               *)
LEMMA LoginHidden ==
    ASSUME SeenStep, NEW m, NEW out, Handle(m, out), OfLogin(m),
           \A x \in out : OfLogin(x),
           \A c : m # LoginRequest(c) /\ LoginRequest(c) \notin out
    PROVE  UNCHANGED NetWithoutLogin
<1>1. IsABag(net)
  BY DEF SeenStep, FlightInv
<1>2. \A x : x # m /\ x \notin out => Copies(x)' = Copies(x)
  BY <1>1, HandleCopies, CopiesType
<1>3. ASSUME NEW x PROVE Seen(x)' = Seen(x)
  <2>1. CASE OfLogin(x)
    BY <2>1, SeenPackets DEF Seen, Unanswered
  <2>2. CASE ~OfLogin(x)
    <3>1. Copies(x)' = Copies(x)
      BY <1>2, <2>2
    <3>2. Seen(x) = Copies(x) + Unanswered(x) /\ Seen(x)' = Copies(x)' + Unanswered(x)
      BY <1>2, <2>2, SeenChange DEF SeenStep
    <3> QED BY <3>1, <3>2
  <2> QED BY <2>1, <2>2
<1> QED BY <1>3, SameSeen DEF SeenStep

(* When SpaceQuestLogin is seen as SpaceQuest: the master keeps what is     *)
(* registered, so that it answers the login server; a login is delivered   *)
(* once; and MaxCopies leaves room for an address for each start.          *)
Abstractable == /\ Settled
                /\ "user" \in Running
                /\ "INITIALIZE" \notin Redelivered
                /\ MaxStarts <= MaxCopies

(* The master: for the login server, and for the user server.              *)
LEMMA MasterSeen ==
    ASSUME Abstractable, SeenStep, TypeInv, RegisteredInv, NEW m, MasterHandler(m)
    PROVE  \/ WithoutLogin!MasterHandler(m)
           \/ /\ UNCHANGED NetWithoutLogin
              /\ UNCHANGED (registered \ {"login"})
              /\ UNCHANGED masterFault
              /\ UNCHANGED masterStarts
<1>0. m \in InFlight /\ m \in ProperMessage /\ m.to = "master"
  <2>1. \E out : Handle(m, out) /\ m.to = "master"
    BY DEF MasterHandler, RegisterServer, IgnoreRequest, AnswerRequest,
       AnswerFromNothing
  <2> QED BY <2>1, HandleFlight DEF SeenStep, FlightInv
<1>1. CASE m.about = "login"
  <2>1. \A c : m # LoginRequest(c)
    BY <1>0 DEF LoginRequest, Reliable
  <2>2. ASSUME NEW out \in SUBSET {Answer}, Handle(m, out)
        PROVE  UNCHANGED NetWithoutLogin
    <3>1. OfLogin(m) /\ OfLogin(Answer) /\ \A c : LoginRequest(c) # Answer
      BY <1>1 DEF OfLogin, Answer, Plain, LoginRequest, Reliable
    <3> QED BY <2>1, <2>2, <3>1, LoginHidden
  <2>3. CASE RegisterServer(m)
    <3>1. UNCHANGED NetWithoutLogin
      BY <2>2, <2>3 DEF RegisterServer
    <3> QED BY <1>1, <2>3, <3>1 DEF RegisterServer
  <2>4. CASE IgnoreRequest(m) \/ AnswerRequest(m)
    <3>1. UNCHANGED NetWithoutLogin
      BY <1>1, <2>2, <2>4 DEF IgnoreRequest, AnswerRequest, Answer
    <3> QED BY <2>4, <3>1 DEF IgnoreRequest, AnswerRequest, masterVars
  <2>5. CASE AnswerFromNothing(m)
    <3>1. m = RequestUserServer
      BY <1>0, <1>1, <2>5
         DEF AnswerFromNothing, ProperMessage, RequestServer, Reliable
    <3>2. registered = Running
      BY <1>0, <3>1, ForLoginPackets DEF RegisteredInv, NobodyLogsIn
    <3> QED BY <1>1, <2>5, <3>2 DEF AnswerFromNothing, Wanted, Abstractable
  <2> QED BY <2>3, <2>4, <2>5 DEF MasterHandler
<1>2. CASE m.about # "login"
  <2>1. ~OfLogin(m)
    BY <1>0, <1>2 DEF OfLogin
  <2>2. ASSUME NEW out, Handle(m, out), Visible(out)
        PROVE  WithoutLogin!Handle(m, out)
    BY <2>1, <2>2, HandleSeen DEF SeenStep
  <2>3. WithoutLogin!Wanted(m.about) = Wanted(m.about) /\ Wanted(m.about) = "game"
    BY <1>2 DEF Wanted, WithoutLogin!Wanted
  <2>4. RegisterServer(m) => WithoutLogin!RegisterServer(m)
    BY <1>2, <2>2, VisiblePackets DEF RegisterServer, WithoutLogin!RegisterServer
  <2>5. IgnoreRequest(m) => WithoutLogin!IgnoreRequest(m)
    BY <2>2, VisiblePackets
       DEF IgnoreRequest, WithoutLogin!IgnoreRequest, masterVars,
           WithoutLogin!masterVars
  <2>6. AnswerRequest(m) => WithoutLogin!AnswerRequest(m)
    <3>1. AnswerRequest(m) => m.about = "user"
      BY <1>0, <1>2 DEF AnswerRequest, ProperMessage, RequestServer,
         RequestUserServer, Plain, Reliable
    <3>2. AnswerRequest(m) => Visible({Plain(m.about, "ADDRESS", "nobody", 0)})
      BY <3>1, VisiblePackets, NetworkAssumption DEF Server
    <3> QED BY <1>2, <2>2, <2>3, <3>2, PacketsSeen
            DEF AnswerRequest, WithoutLogin!AnswerRequest, masterVars,
                WithoutLogin!masterVars
  <2>7. AnswerFromNothing(m) => WithoutLogin!AnswerFromNothing(m)
    BY <1>2, <2>2, <2>3, VisiblePackets
       DEF AnswerFromNothing, WithoutLogin!AnswerFromNothing
  <2> QED BY <2>4, <2>5, <2>6, <2>7, Zenon
          DEF MasterHandler, WithoutLogin!MasterHandler
<1> QED BY <1>1, <1>2

(* The login server turns a login that is on its way into one that waits,  *)
(* and that into an address.                                               *)
LEMMA LoginSeen ==
    ASSUME FlightInv, FlightInv', LoginTypeOK, LoginTypeOK', Abstractable,
           NEW m, LoginHandler(m)
    PROVE  UNCHANGED NetWithoutLogin
<1>0. IsABag(net) /\ requests \in Seq(Client)
  BY DEF FlightInv, LoginTypeOK
<1>1. CASE QueueRequest(m)
  <2>1. m \in ProperMessage
    BY <1>1, HandleFlight DEF QueueRequest, FlightInv
  <2>2. m = LoginRequest(m.about) /\ m.about \in Client
    BY <1>1, <2>1 DEF LoginHandler, QueueRequest, ProperMessage
  <2>3. \A x : Copies(x)' = Copies(x) - (IF x = m THEN 1 ELSE 0)
                               + (IF x = RequestUserServer THEN 1 ELSE 0)
    BY <1>0, <1>1, HandleCopies DEF QueueRequest, Abstractable
  <2>4. requests' = Append(requests, m.about)
    BY <1>1 DEF QueueRequest
  <2>5. \A c : /\ LoginRequest(c) # RequestUserServer
               /\ LoginRequest(c) = m <=> c = m.about
    BY <2>2 DEF LoginRequest, RequestUserServer, Reliable, Plain
  <2>6. ASSUME NEW c PROVE Logins(c)' = Logins(c)
    <3>1. Cardinality(Places(requests, c))'
              = Cardinality(Places(requests, c)) + (IF m.about = c THEN 1 ELSE 0)
      BY <1>0, <2>2, <2>4, PlacesOfAppend
    <3>2. Copies(LoginRequest(c))'
              = Copies(LoginRequest(c)) - (IF c = m.about THEN 1 ELSE 0)
      BY <1>0, <2>3, <2>5, CopiesType
    <3>3. /\ Copies(LoginRequest(c)) \in Nat
          /\ Cardinality(Places(requests, c)) \in Nat
      BY <1>0, CopiesType, PlacesFinite
    <3>4. Logins(c) = Copies(LoginRequest(c)) + Cardinality(Places(requests, c))
      BY LoginsOf
    <3>5. Logins(c)' = Copies(LoginRequest(c))' + Cardinality(Places(requests, c))'
      BY DEF Logins, Places
    <3> QED BY <3>1, <3>2, <3>3, <3>4, <3>5
  <2>7. OfLogin(m) /\ OfLogin(RequestUserServer)
    BY <1>1 DEF LoginHandler, OfLogin, RequestUserServer, Plain
  <2>8. ASSUME NEW x PROVE Seen(x)' = Seen(x)
    <3>1. ~OfLogin(x) => Copies(x)' = Copies(x)
      BY <1>0, <2>3, <2>7, CopiesType
    <3>2. Unanswered(x)' = Unanswered(x)
      BY <2>6 DEF Unanswered
    <3> QED BY <3>1, <3>2 DEF Seen
  <2> QED BY <2>8, SameSeen
<1>2. CASE PassAddress(m)
  <2>1. m \in ProperMessage
    BY <1>2, HandleFlight DEF PassAddress, FlightInv
  <2>2. m = Answer
    BY <1>2, <2>1 DEF LoginHandler, PassAddress, ProperMessage, Answer
  <2>3. /\ OfLogin(m) /\ \A c : LoginRequest(c) # m
        /\ ~m.reliable
    BY <2>2 DEF OfLogin, Answer, Plain, LoginRequest, Reliable
  <2>4. CASE requests = <<>>
    BY <1>2, <2>3, <2>4, LoginHidden DEF PassAddress, SeenStep
  <2>5. CASE requests # <<>>
    <3>1. PICK h : h = Head(requests)
      OBVIOUS
    <3>2. h \in Client
      BY <1>0, <2>5, <3>1, HeadTailProperties
    <3>3. Handle(m, {AddressOf(h)}) /\ requests' = Tail(requests)
      BY <1>2, <2>5, <3>1 DEF PassAddress, OthersWaiting, AddressOf
    <3>4. \A x : Copies(x)' = Copies(x) - (IF x = m THEN 1 ELSE 0)
                                 + (IF x = AddressOf(h) THEN 1 ELSE 0)
      BY <1>0, <2>3, <3>3, HandleCopies
    <3>5. ASSUME NEW c PROVE Logins(c)' = Logins(c) - (IF c = h THEN 1 ELSE 0)
      <4>1. Cardinality(Places(requests, c))'
                = Cardinality(Places(requests, c)) - (IF h = c THEN 1 ELSE 0)
        BY <1>0, <2>5, <3>1, <3>3, PlacesOfTail
      <4>2. LoginRequest(c) # AddressOf(h) /\ LoginRequest(c) # m
        BY <2>3 DEF LoginRequest, AddressOf, Plain, Reliable
      <4>3. Copies(LoginRequest(c))' = Copies(LoginRequest(c))
        BY <1>0, <3>4, <4>2, CopiesType
      <4>4. /\ Copies(LoginRequest(c)) \in Nat
            /\ Cardinality(Places(requests, c)) \in Nat
        BY <1>0, CopiesType, PlacesFinite
      <4>5. Logins(c) = Copies(LoginRequest(c)) + Cardinality(Places(requests, c))
        BY LoginsOf
      <4>6. Logins(c)' = Copies(LoginRequest(c))' + Cardinality(Places(requests, c))'
        BY DEF Logins, Places
      <4> QED BY <4>1, <4>3, <4>4, <4>5, <4>6
    <3>6. ASSUME NEW x PROVE Seen(x)' = Seen(x)
      <4>0. Copies(x) \in Nat /\ \A c : Logins(c) \in Nat
        BY <1>0, CopiesType, NumbersSeen DEF SeenInv
      <4>1. CASE x = AddressOf(h)
        <5>1. Copies(x)' = Copies(x) + 1 /\ ~OfLogin(x)
          BY <2>3, <3>2, <3>4, <4>0, <4>1, SeenPackets
        <5>2. Unanswered(x) = Logins(h) /\ Unanswered(x)' = Logins(h)'
          BY <3>2, <4>1, SeenPackets DEF Unanswered
        <5>3. Unanswered(x)' = Unanswered(x) - 1 /\ Unanswered(x) \in Nat
          BY <3>5, <4>0, <5>2
        <5> QED BY <4>0, <5>1, <5>3 DEF Seen
      <4>2. CASE x # AddressOf(h)
        <5>1. ~OfLogin(x) => Copies(x)' = Copies(x)
          BY <2>3, <3>4, <4>0, <4>2
        <5>2. \A c \in Client : x = AddressOf(c) => c # h
          BY <4>2
        <5>3. Unanswered(x)' = Unanswered(x)
          BY <3>5, <4>0, <5>2, SeenPackets DEF Unanswered
        <5> QED BY <5>1, <5>3 DEF Seen
      <4> QED BY <4>1, <4>2
    <3> QED BY <3>6, SameSeen
  <2> QED BY <2>4, <2>5
<1> QED BY <1>1, <1>2 DEF LoginHandler

(* A client has at most one address on its way, or to come, for each of    *)
(* its starts: the network that SpaceQuest sees has room for the next.     *)
RoomInv == \A c \in Client : Seen(AddressOf(c)) <= starts[c]

LEMMA NextRoom ==
    ASSUME AllInv, AllInv', Abstractable, RoomInv, NextAll
    PROVE  RoomInv'
<1> USE DEF AllInv, TypeInv
<1>0. /\ IsABag(net)
      /\ \A x : Copies(x) \in Nat /\ Copies(x)' \in Nat
      /\ \A c \in Client : starts[c] \in Nat /\ starts'[c] \in Nat
  <2>1. starts \in [Client -> Nat] /\ starts' \in [Client -> Nat]
    BY DEF ClientTypeOK
  <2> QED BY <2>1, FlightCounted DEF FlightInv
<1>1. \A c \in Client :
         /\ Seen(AddressOf(c)) = Copies(AddressOf(c)) + Copies(LoginRequest(c))
                                     + Cardinality(Places(requests, c))
         /\ Seen(AddressOf(c))' = Copies(AddressOf(c))' + Copies(LoginRequest(c))'
                                     + Cardinality(Places(requests, c))'
         /\ Cardinality(Places(requests, c)) \in Nat
         /\ Cardinality(Places(requests, c))' \in Nat
  <2> TAKE c \in Client
  <2>1. requests \in Seq(Client) /\ requests' \in Seq(Client)
    BY DEF LoginTypeOK
  <2>2. /\ Cardinality(Places(requests, c)) \in Nat
        /\ Cardinality(Places(requests, c))' \in Nat
    BY <2>1, PlacesFinite DEF Places
  <2>3. /\ Seen(AddressOf(c)) = Copies(AddressOf(c)) + Logins(c)
        /\ Seen(AddressOf(c))' = Copies(AddressOf(c))' + Logins(c)'
    BY SeenPackets DEF Seen, Unanswered
  <2> QED BY <1>0, <2>2, <2>3 DEF Logins, Places
<1>2. ASSUME UNCHANGED requests, UNCHANGED starts,
             \A c \in Client :
                 \A x \in {AddressOf(c), LoginRequest(c)} : Copies(x)' <= Copies(x)
      PROVE  RoomInv'
  <2> SUFFICES ASSUME NEW c \in Client PROVE Seen(AddressOf(c))' <= starts'[c]
    BY DEF RoomInv
  <2>1. /\ Copies(AddressOf(c))' <= Copies(AddressOf(c))
        /\ Copies(LoginRequest(c))' <= Copies(LoginRequest(c))
        /\ Cardinality(Places(requests, c))' = Cardinality(Places(requests, c))
    BY <1>2 DEF Places
  <2> QED BY <1>0, <1>1, <1>2, <2>1 DEF RoomInv
<1>3. ASSUME NEW m, NEW out, Handle(m, out), NEW x, x \notin out
      PROVE  Copies(x)' <= Copies(x)
  BY <1>0, <1>3, HandleCopies
<1>4. CASE LoginStep
  <2>1. UNCHANGED NetWithoutLogin
    BY <1>4, LoginSeen DEF LoginStep
  <2>2. \A x : Seen(x)' = Seen(x)
    BY <2>1, NumbersSeen, NumbersSeenNext DEF SeenInv, Number
  <2> QED BY <1>4, <2>2 DEF LoginStep, clientVars, RoomInv
<1>5. CASE PlayStep /\ UNCHANGED requests
  <2>1. UNCHANGED starts
    BY <1>5 DEF PlayStep, MasterStep, UserStep, GameStep, ShotStep, ClientStep,
       PlayerStep, FrameStep, RetryStep, RestartStep, LoseStep, clientVars,
       ClientHandler, TakeAddress, ChooseShip, GetReady, Interrupt, Move
  <2>2. CASE MasterStep
    <3>1. PICK m, out :
             /\ Handle(m, out)
             /\ out # {} => /\ m.command = "REQUEST_ADDRESS"
                           /\ out = {Plain(m.about, "ADDRESS", "nobody", 0)}
      BY <2>2 DEF MasterStep, MasterHandler, RegisterServer, IgnoreRequest,
         AnswerRequest, AnswerFromNothing
    <3>2. out # {} => m.about \in {"login", "user"}
      BY <1>0, <3>1, HandleFlight
         DEF FlightInv, ProperMessage, RequestServer, RequestUserServer, Plain,
             Reliable
    <3>3. ASSUME NEW c \in Client
          PROVE  AddressOf(c) \notin out /\ LoginRequest(c) \notin out
      BY <3>1, <3>2, NetworkAssumption
         DEF AddressOf, LoginRequest, Plain, Reliable, Server
    <3> QED BY <1>2, <1>3, <1>5, <2>1, <3>1, <3>3
  <2>3. CASE LoseStep
    BY <1>0, <1>2, <1>5, <2>1, <2>3, DropFlight DEF LoseStep
  <2>4. CASE StepAside
    <3>1. \A c \in Client : ~Aside(AddressOf(c)) /\ ~Aside(LoginRequest(c))
      BY DEF Aside, OfOthers, AddressOf, LoginRequest, Plain, Reliable
    <3>2. CASE UNCHANGED net
      BY <1>0, <1>2, <1>5, <2>1, <3>2 DEF Copies, InFlight
    <3>3. CASE \E m, out : Handle(m, out) /\ \A x \in out : Aside(x)
      BY <1>2, <1>3, <1>5, <2>1, <3>1, <3>3
    <3>4. CASE \E out : Emit(out) /\ \A x \in out : Aside(x)
      BY <1>0, <1>2, <1>5, <2>1, <3>1, <3>4, EmitFlight
    <3> QED BY <2>4, <3>2, <3>3, <3>4 DEF StepAside
  <2> QED BY <1>5, <2>2, <2>3, <2>4, PlayAside
<1>6. ASSUME NEW c \in Client, LogInStep(c), UNCHANGED requests PROVE RoomInv'
  <2>1. Emit({LoginRequest(c)}) /\ starts' = [starts EXCEPT ![c] = @ + 1]
    BY <1>6 DEF LogInStep, LogIn, Begin
  <2>2. \A d \in Client : /\ AddressOf(d) # LoginRequest(c)
                          /\ LoginRequest(d) = LoginRequest(c) <=> d = c
    BY DEF AddressOf, LoginRequest, Plain, Reliable
  <2> SUFFICES ASSUME NEW d \in Client PROVE Seen(AddressOf(d))' <= starts'[d]
    BY DEF RoomInv
  <2>3. /\ Copies(AddressOf(d))' = Copies(AddressOf(d))
        /\ Copies(LoginRequest(d))'
               = Copies(LoginRequest(d)) + (IF d = c THEN 1 ELSE 0)
    BY <1>0, <2>1, <2>2, EmitFlight
  <2>4. Cardinality(Places(requests, d))' = Cardinality(Places(requests, d))
    BY <1>6 DEF Places
  <2>5. starts'[d] = starts[d] + (IF d = c THEN 1 ELSE 0)
    BY <1>0, <2>1 DEF ClientTypeOK
  <2> QED BY <1>0, <1>1, <2>3, <2>4, <2>5 DEF RoomInv
<1> QED BY <1>4, <1>5, <1>6 DEF NextAll

(* The start of a client that logs in.                                     *)
LEMMA StartSeen ==
    ASSUME SeenStep, RoomInv, Abstractable, ClientTypeOK, NEW c \in Client,
           LogInStep(c)
    PROVE  WithoutLogin!StartStep(c)
<1>1. SeenInv /\ SeenInv' /\ IsABag(net)
  BY NumbersSeen, NumbersSeenNext DEF FlightInv, SeenStep
<1>2. /\ Emit({LoginRequest(c)}) /\ ~IsOn(c) /\ starts[c] < MaxStarts
      /\ starts' = [starts EXCEPT ![c] = @ + 1]
      /\ client' = [client EXCEPT ![c] = Fresh]
  BY DEF LogInStep, LogIn, Begin
<1>3. \A x : Copies(x) \in Nat /\ \A d : Logins(d) \in Nat
  BY <1>1, CopiesType DEF SeenInv
<1>4. \A x : Copies(x)' = Copies(x) + (IF x = LoginRequest(c) THEN 1 ELSE 0)
  BY <1>1, <1>2, EmitFlight
<1>5. ASSUME NEW d PROVE Logins(d)' = Logins(d) + (IF d = c THEN 1 ELSE 0)
  <2>1. LoginRequest(d) = LoginRequest(c) <=> d = c
    BY DEF LoginRequest, Reliable
  <2>2. Copies(LoginRequest(d))'
            = Copies(LoginRequest(d)) + (IF d = c THEN 1 ELSE 0)
    BY <1>4, <2>1
  <2>3. requests \in Seq(Client)
    BY DEF SeenStep, LoginTypeOK
  <2>4. Cardinality(Places(requests, d)) \in Nat
    BY <2>3, PlacesFinite
  <2>5. Cardinality(Places(requests, d))' = Cardinality(Places(requests, d))
    BY DEF SeenStep, Places
  <2>6. Logins(d) = Copies(LoginRequest(d)) + Cardinality(Places(requests, d))
    BY LoginsOf
  <2>7. Logins(d)' = Copies(LoginRequest(d))' + Cardinality(Places(requests, d))'
    BY DEF Logins, Places
  <2> QED BY <1>3, <2>2, <2>4, <2>5, <2>6, <2>7
<1>6. ASSUME NEW x
      PROVE  Seen(x)' = Seen(x) + (IF x = AddressOf(c) THEN 1 ELSE 0)
  <2>1. ~OfLogin(x) => Copies(x)' = Copies(x)
    BY <1>3, <1>4, SeenPackets
  <2>2. CASE x = AddressOf(c)
    <3>1. Unanswered(x) = Logins(c) /\ Unanswered(x)' = Logins(c)'
      BY <2>2, SeenPackets DEF Unanswered
    <3>2. ~OfLogin(x)
      BY <2>2, SeenPackets
    <3> QED BY <1>3, <1>5, <2>1, <2>2, <3>1, <3>2 DEF Seen
  <2>3. CASE x # AddressOf(c)
    <3>1. Unanswered(x)' = Unanswered(x) /\ Unanswered(x) \in Nat
      BY <1>3, <1>5, <2>3, SeenPackets DEF Unanswered
    <3> QED BY <1>3, <2>1, <2>3, <3>1 DEF Seen
  <2> QED BY <2>2, <2>3
<1>7. NetWithoutLogin' = NetWithoutLogin (+) SetToBag({AddressOf(c)})
  BY <1>1, <1>6, BagSums, SetBags, SameBag DEF SeenInv
<1>8. Number(AddressOf(c), NetWithoutLogin) < MaxCopies
  <2>1. Seen(AddressOf(c)) <= starts[c] /\ starts[c] \in Nat
    BY DEF RoomInv, ClientTypeOK
  <2>2. Seen(AddressOf(c)) \in Nat
    BY <1>3 DEF Seen, Unanswered
  <2>3. MaxStarts \in Nat /\ MaxCopies \in Nat
    BY ClientAssumption, NetworkAssumption
  <2> QED BY <1>1, <1>2, <2>1, <2>2, <2>3 DEF Abstractable, SeenInv
<1>9. WithoutLogin!Emit({AddressOf(c)})
  BY <1>7, <1>8, BagsSeen
     DEF WithoutLogin!Emit, WithoutLogin!RoomFor, WithoutLogin!Copies,
         WithoutLogin!InFlight, BagToSet, Number
<1>10. WithoutLogin!MayStart
  BY DEF LogInStep, MayStart, WithoutLogin!MayStart
<1> QED BY <1>2, <1>9, <1>10, PacketsSeen
        DEF WithoutLogin!StartStep, WithoutLogin!Start, WithoutLogin!Begin,
            IsOn, WithoutLogin!IsOn, Fresh, WithoutLogin!Fresh, AddressOf,
            LogInStep, masterVars, WithoutLogin!masterVars, userVars,
            WithoutLogin!userVars, gameVars, WithoutLogin!gameVars

(* All but the logins, and the login server's own steps.                   *)
LEMMA PlaySeen ==
    ASSUME Abstractable, SeenStep, TypeInv, RegisteredInv, PlayStep
    PROVE  WithoutLogin!PlayStep \/ UNCHANGED WithoutLogin!vars
<1> USE DEF WithoutLogin!vars, masterVars, WithoutLogin!masterVars, userVars,
            WithoutLogin!userVars, gameVars, WithoutLogin!gameVars,
            clientVars, WithoutLogin!clientVars
<1>0. /\ IsABag(net)
      /\ \A x : x \in InFlight /\ ~OfLogin(x) => x \in WithoutLogin!InFlight
  <2>1. SeenInv /\ IsABag(net)
    BY NumbersSeen DEF FlightInv, SeenStep
  <2>2. ASSUME NEW x \in InFlight, ~OfLogin(x) PROVE Number(x, NetWithoutLogin) > 0
    <3>1. Copies(x) > 0 /\ Copies(x) \in Nat /\ Unanswered(x) \in Nat
      BY <2>1, CopiesType DEF SeenInv, Unanswered
    <3> QED BY <2>1, <2>2, <3>1 DEF SeenInv, Seen
  <2>3. \A x : x \in InFlight /\ ~OfLogin(x) => x \in DOMAIN NetWithoutLogin
    BY <2>2 DEF Number
  <2> QED BY <2>1, <2>3, BagsSeen DEF WithoutLogin!InFlight, BagToSet
<1>1. CASE MasterStep
  <2>1. PICK m \in InFlight : MasterHandler(m)
    BY <1>1 DEF MasterStep
  <2>2. CASE WithoutLogin!MasterHandler(m)
    <3>1. m \in WithoutLogin!InFlight
      BY <2>2 DEF WithoutLogin!MasterHandler, WithoutLogin!RegisterServer,
         WithoutLogin!IgnoreRequest, WithoutLogin!AnswerRequest,
         WithoutLogin!AnswerFromNothing, WithoutLogin!Handle
    <3> QED BY <1>1, <2>2, <3>1
            DEF MasterStep, WithoutLogin!MasterStep, WithoutLogin!PlayStep
  <2>3. CASE ~WithoutLogin!MasterHandler(m)
    BY <1>1, <2>1, <2>3, MasterSeen DEF MasterStep
  <2> QED BY <2>2, <2>3
<1>2. CASE UserStep(InFlight)
  <2>1. PICK m \in InFlight : UserHandler(m)
    BY <1>2 DEF UserStep
  <2>2. WithoutLogin!UserHandler(m)
    BY <2>1, UserSeen
  <2>3. m \in WithoutLogin!InFlight
    BY <2>2 DEF WithoutLogin!UserHandler, WithoutLogin!AddressForNobody,
       WithoutLogin!ProcessAddressResponse, WithoutLogin!CreateUserEndpoint,
       WithoutLogin!IgnoreJoin, WithoutLogin!SendJoined, WithoutLogin!ProcessID,
       WithoutLogin!Disconnect, WithoutLogin!SelectShip,
       WithoutLogin!ForwardCommand, WithoutLogin!Use, WithoutLogin!Handle
  <2> QED BY <1>2, <2>2, <2>3 DEF UserStep, WithoutLogin!UserStep, WithoutLogin!PlayStep
<1>3. CASE GameStep(InFlight)
  <2>1. PICK m \in InFlight : GameHandler(m)
    BY <1>3 DEF GameStep
  <2>2. WithoutLogin!GameHandler(m)
    BY <2>1, GameSeen
  <2>3. m \in WithoutLogin!InFlight
    BY <2>2 DEF WithoutLogin!GameHandler, WithoutLogin!Join, WithoutLogin!TakePlace,
       WithoutLogin!AddPlace, WithoutLogin!KeepShip, WithoutLogin!Leave,
       WithoutLogin!HandleFire, WithoutLogin!Handle
  <2> QED BY <1>3, <2>2, <2>3 DEF GameStep, WithoutLogin!GameStep, WithoutLogin!PlayStep
<1>4. ASSUME NEW c \in Client, ClientStep(c) PROVE WithoutLogin!PlayStep
  <2>1. PICK m \in InFlight : ClientHandler(c, m)
    BY <1>4 DEF ClientStep
  <2>2. WithoutLogin!ClientHandler(c, m)
    BY <2>1, ClientSeen
  <2>3. m \in WithoutLogin!InFlight
    BY <2>2 DEF WithoutLogin!ClientHandler, WithoutLogin!TakeAddress,
       WithoutLogin!ChooseShip, WithoutLogin!GetReady, WithoutLogin!Handle
  <2> QED BY <1>4, <2>2, <2>3 DEF ClientStep, WithoutLogin!ClientStep, WithoutLogin!PlayStep
<1>5. ASSUME NEW c \in Client, PlayerStep(c) PROVE WithoutLogin!PlayStep
  <2>1. ASSUME NEW out, Emit(out), Visible(out) PROVE WithoutLogin!Emit(out)
    BY <2>1, EmitSeen DEF SeenStep
  <2>2. Interrupt(c) => WithoutLogin!Interrupt(c)
    <3>1. Visible({}) /\ Visible({Farewell(c)})
      BY VisiblePackets DEF Farewell
    <3> QED BY <2>1, <3>1, PacketsSeen
            DEF Interrupt, WithoutLogin!Interrupt, IsOn, WithoutLogin!IsOn,
                Off, WithoutLogin!Off, Farewell, WithoutLogin!Farewell
  <2>3. ASSUME NEW command \in Sends, Move(c, command)
        PROVE  WithoutLogin!Move(c, command)
    <3>1. Visible({Reliable("user", command, c, 0)})
      BY VisiblePackets
    <3>2. UNCHANGED net => UNCHANGED NetWithoutLogin
      BY DEF NetWithoutLogin, Answers, Logins, Copies, InFlight, SeenStep
    <3> QED BY <2>1, <2>3, <3>1, <3>2, PacketsSeen
            DEF Move, WithoutLogin!Move, IsOn, WithoutLogin!IsOn, Aborted,
                WithoutLogin!Aborted
  <2> QED BY <1>5, <2>2, <2>3
          DEF PlayerStep, WithoutLogin!PlayerStep, WithoutLogin!PlayStep
<1>6. UNCHANGED net => UNCHANGED NetWithoutLogin
  BY DEF NetWithoutLogin, Answers, Logins, Copies, InFlight, SeenStep
<1>7. CASE ShotStep
  BY <1>6, <1>7, GameWordsSeen
     DEF ShotStep, WithoutLogin!ShotStep, FireOnce, WithoutLogin!FireOnce,
         WithoutLogin!PlayStep
<1>8. CASE FrameStep
  <2>1. WithoutLogin!NextBucket(frame) = NextBucket(frame)
    BY DEF NextBucket, WithoutLogin!NextBucket
  <2> QED BY <1>6, <1>8, <2>1
          DEF FrameStep, WithoutLogin!FrameStep, NextFrame,
              WithoutLogin!NextFrame, WithoutLogin!PlayStep
<1>9. CASE RetryStep
  <2>1. Emit({RequestServer}) /\ Visible({RequestServer})
    BY <1>9, VisiblePackets DEF RetryStep, RetryRequest, RequestServer
  <2>2. WithoutLogin!Emit({RequestServer})
    BY <2>1, EmitSeen DEF SeenStep
  <2> QED BY <1>9, <2>2, UserWordsSeen
          DEF RetryStep, WithoutLogin!RetryStep, RetryRequest,
              WithoutLogin!RetryRequest, Repeated, WithoutLogin!Repeated,
              WithoutLogin!PlayStep
<1>10. ~RestartStep
  BY DEF Abstractable, Settled, RestartStep, RestartMaster, TypeInv, MasterTypeOK
<1>11. CASE LoseStep
  <2>1. PICK m \in InFlight : (~m.reliable \/ Orphaned(m)) /\ Drop(m)
    BY <1>11 DEF LoseStep
  <2>2. \A c : m # LoginRequest(c)
    BY <2>1 DEF Orphaned, LoginRequest, Reliable
  <2>3. IF OfLogin(m) THEN UNCHANGED NetWithoutLogin ELSE WithoutLogin!Drop(m)
    BY <2>1, <2>2, DropSeen DEF SeenStep
  <2>4. CASE OfLogin(m)
    BY <1>11, <2>3, <2>4 DEF LoseStep
  <2>5. CASE ~OfLogin(m)
    <3>1. WithoutLogin!Orphaned(m) <=> Orphaned(m)
      BY DEF Orphaned, WithoutLogin!Orphaned, IsOn, WithoutLogin!IsOn
    <3>2. m \in WithoutLogin!InFlight
      BY <1>0, <2>1, <2>5
    <3> QED BY <1>11, <2>1, <2>3, <2>5, <3>1, <3>2
            DEF LoseStep, WithoutLogin!LoseStep, WithoutLogin!PlayStep
  <2> QED BY <2>4, <2>5
<1> QED BY <1>1, <1>2, <1>3, <1>4, <1>5, <1>7, <1>8, <1>9, <1>10, <1>11 DEF PlayStep

(* The calls of the servers are seen, but for the login server's.          *)
LEMMA FirstSeen == InitAll => WithoutLogin!Init
<1> SUFFICES ASSUME InitAll PROVE WithoutLogin!Init
  OBVIOUS
<1>1. TypeInv /\ LoginTypeOK /\ requests = <<>>
  BY TypeInvInit, EmptySeq DEF InitAll, LoginInit, LoginTypeOK
<1>2. SeenInv
  BY <1>1, NumbersSeen DEF TypeInv
<1>3. \A x : Copies(x) = IF x \in CallsOf(Running) THEN 1 ELSE 0
  BY DEF InitAll, Init, Copies, InFlight, BagToSet, SetToBag
<1>4. \A c : LoginRequest(c) \notin CallsOf(Running)
  BY DEF CallsOf, LoginRequest, Plain, Reliable
<1>5. \A c : Logins(c) = 0
  <2>1. \A c : Places(requests, c) = {}
    BY <1>1 DEF Places
  <2> QED BY <1>3, <1>4, <2>1, LoginsOf, FS_EmptySet
<1>6. \A x : x \in CallsOf(Running) /\ ~OfLogin(x) <=> x \in CallsOf(Running \ {"login"})
  BY DEF CallsOf, OfLogin, Plain
<1>7. \A x : Number(x, NetWithoutLogin)
                 = IF x \in CallsOf(Running \ {"login"}) THEN 1 ELSE 0
  <2> TAKE x
  <2>1. Number(x, NetWithoutLogin)
            = (IF OfLogin(x) THEN 0 ELSE Copies(x)) + Unanswered(x)
    BY <1>2 DEF SeenInv, Seen
  <2>2. Unanswered(x) = 0
    BY <1>5 DEF Unanswered
  <2>3. OfLogin(x) => x \notin CallsOf(Running \ {"login"})
    BY <1>6
  <2>4. ~OfLogin(x) => Copies(x) = IF x \in CallsOf(Running \ {"login"}) THEN 1 ELSE 0
    BY <1>3, <1>6
  <2> QED BY <2>1, <2>2, <2>3, <2>4
<1>8. NetWithoutLogin = SetToBag(CallsOf(Running \ {"login"}))
  BY <1>2, <1>7, SetBags, SameBag DEF SeenInv
<1>9. WithoutLogin!CallsOf(Running \ {"login"}) = CallsOf(Running \ {"login"})
  BY PacketsSeen DEF CallsOf, WithoutLogin!CallsOf
<1> QED BY <1>8, <1>9, BagsSeen
        DEF InitAll, Init, WithoutLogin!Init, MasterInit, WithoutLogin!MasterInit,
            UserInit, WithoutLogin!UserInit, NoEntry, WithoutLogin!NoEntry,
            Bucket, WithoutLogin!Bucket, GameInit, WithoutLogin!GameInit,
            ClientInit, WithoutLogin!ClientInit, Off, WithoutLogin!Off

(* Clients cannot tell the login server and its exchange with the master   *)
(* from an address that is sent at once: a run of the whole system is, for *)
(* everybody else, a run of SpaceQuest.                                    *)
THEOREM LoginImplementsSpaceQuest ==
    ASSUME Abstractable
    PROVE  SpecAll => ImplementsSpaceQuest
<1>1. ASSUME AllInv, AllInv', RegisteredInv, RoomInv, [NextAll]_allVars
      PROVE  [WithoutLogin!Next]_WithoutLogin!vars
  <2>1. CASE LoginStep
    <3>1. UNCHANGED NetWithoutLogin
      BY <1>1, <2>1, LoginSeen DEF LoginStep, AllInv, TypeInv
    <3> QED BY <2>1, <3>1
            DEF LoginStep, WithoutLogin!vars, masterVars,
                WithoutLogin!masterVars, userVars, WithoutLogin!userVars,
                gameVars, WithoutLogin!gameVars, clientVars,
                WithoutLogin!clientVars
  <2>2. CASE PlayStep /\ UNCHANGED requests
    <3>1. SeenStep
      BY <1>1, <2>2 DEF SeenStep, AllInv, TypeInv
    <3> QED BY <1>1, <2>2, <3>1, PlaySeen DEF AllInv, WithoutLogin!Next
  <2>3. ASSUME NEW c \in Client, LogInStep(c), UNCHANGED requests
        PROVE  WithoutLogin!Next
    <3>1. SeenStep
      BY <1>1, <2>3 DEF SeenStep, AllInv, TypeInv
    <3> QED BY <1>1, <2>3, <3>1, StartSeen DEF AllInv, TypeInv, WithoutLogin!Next
  <2>4. CASE UNCHANGED allVars
    BY <2>4 DEF allVars, vars, NetWithoutLogin, Answers, Logins, Copies, InFlight,
       WithoutLogin!vars, masterVars, WithoutLogin!masterVars, userVars,
       WithoutLogin!userVars, gameVars, WithoutLogin!gameVars, clientVars,
       WithoutLogin!clientVars
  <2> QED BY <1>1, <2>1, <2>2, <2>3, <2>4 DEF NextAll
<1>2. InitAll => RoomInv
  <2> SUFFICES ASSUME InitAll, NEW c \in Client PROVE Seen(AddressOf(c)) <= starts[c]
    BY DEF RoomInv
  <2>1. SeenInv /\ WithoutLogin!Init
    BY NumbersSeen, TypeInvInit, FirstSeen, EmptySeq
       DEF InitAll, LoginInit, LoginTypeOK, TypeInv
  <2>2. AddressOf(c) \notin CallsOf(Running \ {"login"})
    BY DEF AddressOf, CallsOf, Plain
  <2>3. Number(AddressOf(c), NetWithoutLogin) = 0
    <3>1. NetWithoutLogin = SetToBag(CallsOf(Running \ {"login"}))
      BY <2>1, BagsSeen, PacketsSeen DEF WithoutLogin!Init, CallsOf, WithoutLogin!CallsOf
    <3> QED BY <2>2, <3>1, SetBags
  <2> QED BY <2>1, <2>3 DEF SeenInv, InitAll, Init, ClientInit
<1>3. AllInv /\ AllInv' /\ RoomInv /\ [NextAll]_allVars => RoomInv'
  <2>1. RoomInv /\ UNCHANGED allVars => RoomInv'
    BY DEF allVars, vars, clientVars, RoomInv, Seen, Unanswered, Logins, Copies, InFlight
  <2> QED BY <2>1, NextRoom
<1>4. Settled
  BY DEF Abstractable
<1> QED BY <1>1, <1>2, <1>3, <1>4, FirstSeen, AllInvariant, RegisteredInvariant, PTL
        DEF SpecAll, ImplementsSpaceQuest, WithoutLogin!Spec
=============================================================================
