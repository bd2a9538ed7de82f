----------------------------- MODULE ServerLife -----------------------------
(***************************************************************************)
(* The life of a server process, from its start to SIGINT: the main thread *)
(* with its socket (SocketThreads), the threads main starts, the callbacks *)
(* of Redis, and the signal handler, which interrupts the main thread      *)
(* wherever it is.  The four servers (server-master.cpp, server-login.cpp, *)
(* server-user.cpp, server-game.cpp) differ in the order of what they do   *)
(* at the start and at the end.                                            *)
(***************************************************************************)
EXTENDS SocketThreads, Sequences

CONSTANT Kinds    \* the servers considered

ASSUME KindsAssumption == Kinds \subseteq {"master", "login", "user", "game"}

VARIABLES kind,         \* which server this is
          started,      \* how many steps of its start are done
          cleaned,      \* how many steps of cleanUp are done, or -1 before it
          connection,   \* the socket: none yet, live, or deleted
          exiting,      \* the flag of the server's own threads
          helper,       \* per thread that main starts: where it is
          late,         \* packets the threads sent through a deleted socket
          misuse,       \* pointers used that were null or freed
          status        \* running, exited, or crashed

lifeVars == <<kind, started, cleaned, connection, exiting, helper, late,
              misuse, status>>
allLifeVars == <<threadVars, lifeVars>>

Helper   == {"reporter", "requester"}
HelperAt == {"unborn", "check", "asleep", "send", "ended"}

(* The variables have their types, and two threads never change the table  *)
(* of received packets at the same time.                                   *)
LifeTypeOK ==
    /\ ThreadsTypeOK
    /\ HoldersOnly
    /\ kind \in Kinds
    /\ started \in 0..5
    /\ cleaned \in -1..7
    /\ connection \in {"none", "live", "deleted"}
    /\ exiting \in BOOLEAN
    /\ helper \in [Helper -> HelperAt]
    /\ late \in 0..2
    /\ misuse \subseteq {"nullConnection", "deletedConnection", "nullThread"}
    /\ status \in {"running", "exited", "crashed"}

LifeInit ==
    /\ ThreadsInit
    /\ kind \in Kinds
    /\ started = 0 /\ cleaned = -1
    /\ connection = "none"
    /\ exiting = FALSE
    /\ helper = [h \in Helper |-> "unborn"]
    /\ late = 0 /\ misuse = {}
    /\ status = "running"

-----------------------------------------------------------------------------
(* initialize and main, up to the loop. *)
StartUp ==
    CASE kind = "master" -> <<"handler", "socket", "redis">>
      [] kind = "login"  -> <<"redis", "handler", "socket", "reporter">>
      [] kind = "user"   -> <<"redis", "socket", "handler", "reporter", "requester">>
      [] kind = "game"   -> <<"socket", "redis", "handler", "reporter">>

(* cleanUp; "kill" is Kill, which joins the daemon, and exit(0) follows. *)
MutCleanUpFlagLast ==
    CASE kind = "master" -> <<"flag", "kill", "joinDaemon", "delete", "exit">>
      [] kind = "user"   -> <<"kill", "joinDaemon", "delete", "joinReporter",
                              "joinRequester", "flag", "exit">>
      [] OTHER           -> <<"kill", "joinDaemon", "delete", "flag",
                              "joinReporter", "exit">>
MutCleanUpNoJoin ==
    CASE kind = "master" -> <<"flag", "kill", "delete", "exit">>
      [] kind = "user"   -> <<"kill", "delete", "flag", "joinReporter",
                              "joinRequester", "exit">>
      [] OTHER           -> <<"flag", "kill", "delete", "joinReporter", "exit">>
CleanUp ==
    CASE kind = "master" -> <<"flag", "kill", "joinDaemon", "delete", "exit">>
      [] kind = "user"   -> <<"kill", "joinDaemon", "delete", "flag",
                              "joinReporter", "joinRequester", "exit">>
      [] OTHER           -> <<"flag", "kill", "joinDaemon", "delete",
                              "joinReporter", "exit">>

Running      == status = "running"
Interrupted  == cleaned >= 0
Did(step)    == \E i \in 1..started : StartUp[i] = step
InLoop       == started = Len(StartUp) /\ ~Interrupted
DaemonLives  == connection # "none"

Crash(what) == misuse' = misuse \cup {what} /\ status' = "crashed"

(* connection->Send, by a thread or a callback. *)
SendThrough ==
    CASE connection = "none" -> Crash("nullConnection")
      [] connection = "live" -> UNCHANGED <<misuse, status>>
      [] OTHER -> misuse' = misuse \cup {"deletedConnection"} /\ UNCHANGED status

-----------------------------------------------------------------------------
(* The main thread. *)
Start(step) ==
    /\ ~Interrupted
    /\ started < Len(StartUp) /\ StartUp[started + 1] = step
    /\ started' = started + 1
    /\ connection' = IF step = "socket" THEN "live" ELSE connection
    /\ helper' = IF step \in Helper THEN [helper EXCEPT ![step] = "check"]
                                    ELSE helper
    /\ UNCHANGED <<threadVars, kind, cleaned, exiting, late, misuse, status>>

GetPacket == /\ InLoop
             /\ OwnerStep
             /\ UNCHANGED <<now, killed, daemon, lifeVars>>

(* The daemon lives from the constructor of the socket to Kill. *)
Daemon == /\ DaemonLives
          /\ DaemonStep
          /\ UNCHANGED <<now, killed, owner, lifeVars>>

(* SIGTERM, and SIGINT before the handler is there, end the process.       *)
Terminate == /\ ~Interrupted
             /\ status' = "exited"
             /\ UNCHANGED <<threadVars, kind, started, cleaned, connection,
                            exiting, helper, late, misuse>>

(* SIGINT. *)
Interrupt == /\ ~Interrupted
             /\ Did("handler")
             /\ cleaned' = 0
             /\ UNCHANGED <<threadVars, kind, started, connection, exiting,
                            helper, late, misuse, status>>

(* The next step of cleanUp. *)
Cleaning(step) == /\ Interrupted /\ cleaned < Len(CleanUp)
                  /\ CleanUp[cleaned + 1] = step
                  /\ cleaned' = cleaned + 1
                  /\ UNCHANGED <<kind, started, helper, late>>

SetFlag == /\ Cleaning("flag")
           /\ exiting' = TRUE
           /\ UNCHANGED <<threadVars, connection, misuse, status>>

Kill == /\ Cleaning("kill")
        /\ IF connection = "none"
           THEN Crash("nullConnection") /\ UNCHANGED killed
           ELSE killed' = TRUE /\ UNCHANGED <<misuse, status>>
        /\ UNCHANGED <<keys, stamp, mtx, now, owner, daemon, connection, exiting>>

JoinDaemon == /\ Cleaning("joinDaemon")
              /\ daemon.at = "ended"
              /\ UNCHANGED <<threadVars, connection, exiting, misuse, status>>

Delete == /\ Cleaning("delete")
          /\ connection' = "deleted"
          /\ UNCHANGED <<threadVars, exiting, misuse, status>>

(* The pointer to a thread that main has not started yet is null. *)
Join(h) == /\ Cleaning(IF h = "reporter" THEN "joinReporter" ELSE "joinRequester")
           /\ IF helper[h] = "unborn"
              THEN Crash("nullThread")
              ELSE helper[h] = "ended" /\ UNCHANGED <<misuse, status>>
           /\ UNCHANGED <<threadVars, connection, exiting>>

Exit == /\ Cleaning("exit")
        /\ status' = "exited"
        /\ UNCHANGED <<threadVars, connection, exiting, misuse>>

CleanUpStep == \/ SetFlag
               \/ Kill
               \/ JoinDaemon
               \/ Delete
               \/ \E h \in Helper : Join(h)
               \/ Exit

-----------------------------------------------------------------------------
(* reporterDaemon and requestDaemon: a look at the flag, a sleep, and then *)
(* perhaps a packet.  The game server's reporter looks at the flag again;  *)
(* the reporters of the login and the user server never send, one because  *)
(* its Send is a comment, the other because nothing sets initialized.      *)
MaySend(h) == IF h = "reporter" THEN kind = "game" /\ ~exiting
                                ELSE kind = "user"

HelperGoes(h, from, to) == /\ helper[h] = from
                           /\ helper' = [helper EXCEPT ![h] = to]

CheckFlag(h) == /\ HelperGoes(h, "check", IF exiting THEN "ended" ELSE "asleep")
                /\ UNCHANGED <<late, misuse, status>>

WakeUp(h) == /\ \/ HelperGoes(h, "asleep", "check")
                \/ MaySend(h) /\ HelperGoes(h, "asleep", "send")
             /\ UNCHANGED <<late, misuse, status>>

HelperSends(h) == /\ HelperGoes(h, "send", "check")
                  /\ SendThrough
                  /\ late' = IF connection = "deleted" /\ late < 2
                             THEN late + 1 ELSE late

HelperStep(h) == /\ CheckFlag(h) \/ WakeUp(h) \/ HelperSends(h)
                 /\ UNCHANGED <<threadVars, kind, started, cleaned, connection,
                                exiting>>

(* A message of a new master, in a thread of Redis: sendNotifyActive.  The *)
(* master's own callback sends nothing.                                    *)
CallHome == /\ Did("redis") /\ kind # "master"
            /\ SendThrough
            /\ UNCHANGED <<threadVars, kind, started, cleaned, connection,
                           exiting, helper, late>>

Time == Tick /\ UNCHANGED <<keys, stamp, mtx, killed, owner, daemon, lifeVars>>

LifeNext ==
    /\ Running
    /\ \/ \E step \in {"handler", "socket", "redis"} \cup Helper : Start(step)
       \/ GetPacket
       \/ Daemon
       \/ Terminate
       \/ Interrupt
       \/ CleanUpStep
       \/ \E h \in Helper : HelperStep(h)
       \/ CallHome
       \/ Time

LifeSpec == LifeInit /\ [][LifeNext]_allLifeVars

(* Every thread goes on when it can; one that waits for mtx gets it in the *)
(* end, since the daemon sleeps between its sweeps.                        *)
LifeFairness ==
    /\ WF_allLifeVars(Running /\ InLoop /\ OwnerGoesOn
                          /\ UNCHANGED <<now, killed, daemon, lifeVars>>)
    /\ SF_allLifeVars(Running /\ InLoop /\ OwnerGetsMutex
                          /\ UNCHANGED <<now, killed, daemon, lifeVars>>)
    /\ WF_allLifeVars(Running /\ DaemonLives /\ DaemonGoesOn
                          /\ UNCHANGED <<now, killed, owner, lifeVars>>)
    /\ SF_allLifeVars(Running /\ DaemonLives /\ DaemonGetsMutex
                          /\ UNCHANGED <<now, killed, owner, lifeVars>>)
    /\ WF_allLifeVars(Running /\ CleanUpStep)
    /\ \A h \in Helper : WF_allLifeVars(Running /\ HelperStep(h))

FairLifeSpec == LifeSpec /\ LifeFairness

-----------------------------------------------------------------------------
(* Properties. *)

(* The daemon is joined before the socket it works on is freed.            *)
DaemonEndsFirst ==
    connection = "deleted" => daemon.at = "ended"

(* The game server creates its socket before Redis can call it back, and   *)
(* only it does; the master's callback sends nothing.                      *)
GameHasConnection ==
    kind = "game" => "nullConnection" \notin misuse

(* Where exiting is set before the socket is freed, a thread of the server *)
(* that looked at it too early sends one packet through the freed socket,  *)
(* and no more (cleanUp, reporterDaemon).  The callbacks of Redis, which   *)
(* look at no flag and may call home at any time, are not counted.         *)
OneLateSend == kind # "user" => late <= 1

(* getPacket returns, whatever the daemon does, unless SIGINT ends it.     *)
PacketsAreDecided ==
    owner.at = "findKey"
        ~> \/ owner.at \in {"accepted", "dropped"}
           \/ Interrupted \/ ~Running

(* SIGINT ends the process, unless the main thread was interrupted while   *)
(* it held mtx: then the daemon it joins may wait for mtx for ever.        *)
InterruptEnds ==
    Interrupted /\ mtx # "owner" ~> ~Running
=============================================================================
