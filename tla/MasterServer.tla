---------------------------- MODULE MasterServer ----------------------------
(***************************************************************************)
(* The master server (src/server-master.cpp): servers register with it,    *)
(* and it tells a login server where a user server is, and a user server   *)
(* where a game server is.  At most one server of each kind runs; the      *)
(* master may be started again, empty, and then the servers register anew. *)
(***************************************************************************)
EXTENDS Network

CONSTANTS Running,          \* the servers that run beside it
          MaxMasterStarts   \* bound: how often the master is started again

ASSUME MasterAssumption == /\ Running \subseteq {"login", "user", "game"}
                           /\ MaxMasterStarts \in Nat

VARIABLES registered,      \* loginServers, userServers and gameServers
          masterFault,     \* has the master run into undefined behaviour?
          masterStarts     \* how often it was started again

masterVars == <<registered, masterFault, masterStarts>>

MasterTypeOK ==
    /\ registered \subseteq Running
    /\ masterFault \in BOOLEAN
    /\ masterStarts \in 0..MaxMasterStarts

MasterInit == registered = {} /\ masterFault = FALSE /\ masterStarts = 0

(* sendNotifyActive: the servers call home. *)
CallsOf(servers) == {Plain("master", "INITIALIZE", s, 0) : s \in servers}

(* The kind of server that one of the other kind may ask for. *)
Wanted(asking) == IF asking = "login" THEN "user" ELSE "game"

(* processNewServer: a server tells that it is there. *)
RegisterServer(m) ==
    /\ m.command = "INITIALIZE"
    /\ Handle(m, {})
    /\ registered' = registered \cup {m.about}
    /\ UNCHANGED <<masterFault, masterStarts>>

(* A request from a server that is not registered is dropped. *)
IgnoreRequest(m) ==
    /\ m.command = "REQUEST_ADDRESS"
    /\ m.about \notin registered
    /\ Handle(m, {})
    /\ UNCHANGED masterVars

AnswerRequest(m) ==
    /\ m.command = "REQUEST_ADDRESS"
    /\ {m.about, Wanted(m.about)} \subseteq registered
    /\ Handle(m, {Plain(m.about, "ADDRESS", "nobody", 0)})
    /\ UNCHANGED masterVars

(* begin() of userServers or gameServers is dereferenced although it is    *)
(* empty.                                                                  *)
AnswerFromNothing(m) ==
    /\ m.command = "REQUEST_ADDRESS"
    /\ m.about \in registered /\ Wanted(m.about) \notin registered
    /\ Handle(m, {})
    /\ masterFault' = TRUE
    /\ UNCHANGED <<registered, masterStarts>>

MasterHandler(m) ==
    /\ ~masterFault
    /\ m.to = "master"
    /\ \/ RegisterServer(m)
       \/ IgnoreRequest(m)
       \/ AnswerRequest(m)
       \/ AnswerFromNothing(m)

(* A new master publishes that it started, and the servers call home. *)
RestartMaster ==
    /\ masterStarts < MaxMasterStarts
    /\ masterStarts' = masterStarts + 1
    /\ registered' = {}
    /\ masterFault' = FALSE
    /\ Emit(CallsOf(Running))
=============================================================================
