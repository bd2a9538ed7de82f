--------------------------- MODULE SpaceQuestLogin ---------------------------
(***************************************************************************)
(* SpaceQuest with the login server in between: a client that starts sends *)
(* it a request, and its address takes the way over the master.  Shown to  *)
(* implement SpaceQuest, where the address is there at once.               *)
(***************************************************************************)
EXTENDS SpaceQuest, LoginServer

allVars == <<vars, requests>>

InitAll == Init /\ LoginInit

LoginStep == /\ \E m \in InFlight : LoginHandler(m)
             /\ UNCHANGED <<masterVars, userVars, gameVars, clientVars>>

(* sendLogin, in the place of its answer. *)
LogInStep(c) == /\ MayStart
                /\ LogIn(c)
                /\ UNCHANGED <<masterVars, userVars, gameVars>>

NextAll == \/ LoginStep
           \/ /\ PlayStep \/ \E c \in Client : LogInStep(c)
              /\ UNCHANGED requests

SpecAll == InitAll /\ [][NextAll]_allVars

(* The login server polls its socket too. *)
FairSpecAll ==
    /\ SpecAll
    /\ WF_allVars(MasterStep /\ UNCHANGED requests)
    /\ WF_allVars(LoginStep)
    /\ WF_allVars(UserStep(Joining) /\ UNCHANGED requests)
    /\ WF_allVars(UserStep(Playing) /\ UNCHANGED requests)
    /\ WF_allVars(GameStep(Joining) /\ UNCHANGED requests)
    /\ WF_allVars(GameStep(Playing) /\ UNCHANGED requests)
    /\ WF_allVars(FrameStep /\ UNCHANGED requests)
    /\ \A c \in Client : WF_allVars(ClientStep(c) /\ UNCHANGED requests)

-----------------------------------------------------------------------------
(* Properties. *)

TypeOKAll == TypeOK /\ LoginTypeOK

(* What is on its way for the requests of the login server: its questions  *)
(* to the master, and the answers.                                         *)
Underway == Copies(RequestUserServer)
                + Copies(Plain("login", "ADDRESS", "nobody", 0))

(* Requests and answers are matched by order alone, and neither is sent    *)
(* twice: there is never an answer that nobody waits for                   *)
(* (sendRequestServer, and requests.pop() in main).                        *)
AnswersAreAwaited == Underway <= Len(requests)

(* And as long as nothing is lost, nobody waits for an answer that will    *)
(* not come.                                                               *)
LoginsAreUnderway ==
    /\ AnswersAreAwaited
    /\ ~Lossy /\ Prepared => Underway = Len(requests)

(* The network and the master without the login server: each login that is *)
(* on its way, or waits, is an address on its way to the client.           *)
OfLogin(m) == "login" \in {m.to, m.about}
Logins(c)  == Copies(LoginRequest(c))
                  + Cardinality({i \in DOMAIN requests : requests[i] = c})
Answers    == [m \in {Plain(c, "ADDRESS", c, 0) :
                          c \in {d \in Client : Logins(d) > 0}} |-> Logins(m.to)]
NetWithoutLogin ==
    [m \in {n \in InFlight : ~OfLogin(n)} |-> net[m]] (+) Answers

WithoutLogin == INSTANCE SpaceQuest
                    WITH net <- NetWithoutLogin,
                         registered <- registered \ {"login"},
                         Running <- Running \ {"login"}

(* Clients cannot tell the login server and its exchange with the master   *)
(* from an address sent at once: every step is one of SpaceQuest, or none. *)
ImplementsSpaceQuest == WithoutLogin!Spec
=============================================================================
