-------------------------- MODULE ServerLifeProofs --------------------------
(***************************************************************************)
(* Proofs about ServerLife, for each kind of server, any senders, ids and  *)
(* moments: the socket's threads keep to their table through the start and *)
(* the end of their process, no packet of the daemon goes through a freed  *)
(* socket, and the reporter sends at most one.                             *)
(***************************************************************************)
EXTENDS ServerLife, SocketThreadsProofs

(* The places in cleanUp. *)
FlagAt   == IF kind = "user" THEN 4 ELSE 1
JoinAt   == IF kind = "user" THEN 2 ELSE 3

(* The types of the variables that main and its threads keep. *)
LifeTypes ==
    /\ kind \in Kinds
    /\ started \in 0..5
    /\ cleaned \in -1..7
    /\ connection \in {"none", "live", "deleted"}
    /\ exiting \in BOOLEAN
    /\ helper \in [Helper -> HelperAt]
    /\ late \in 0..2
    /\ misuse \subseteq {"nullConnection", "deletedConnection", "nullThread"}
    /\ status \in {"running", "exited", "crashed"}

(* How far cleanUp must have come for what it has done. *)
EndInv ==
    /\ cleaned >= JoinAt => daemon.at = "ended"
    /\ connection = "deleted" => cleaned > JoinAt
    /\ cleaned >= FlagAt => exiting

(* Nothing happens in a game server before it has its socket. *)
GameInv ==
    kind = "game" =>
        /\ connection = "none" => /\ started = 0
                                  /\ cleaned = -1
                                  /\ \A h \in Helper : helper[h] = "unborn"
        /\ "nullConnection" \notin misuse

(* A reporter about to send has not sent late, and will see the flag next. *)
ReporterInv ==
    kind # "user" =>
        /\ helper["requester"] = "unborn"
        /\ late > 0 => exiting
        /\ helper["reporter"] = "send" => late = 0
        /\ late <= 1

LifeInv == ThreadsInv /\ LifeTypes /\ EndInv /\ GameInv /\ ReporterInv

-----------------------------------------------------------------------------
(* What the order of cleanUp is. *)
LEMMA CleanUpOrder ==
    ASSUME kind \in Kinds
    PROVE  /\ Len(CleanUp) \in 5..7
           /\ \A i \in 1..Len(CleanUp) :
                 /\ CleanUp[i] = "joinDaemon" <=> i = JoinAt
                 /\ CleanUp[i] = "delete" <=> i = JoinAt + 1
                 /\ CleanUp[i] = "flag" <=> i = FlagAt
<1>1. CASE kind = "master"
  BY <1>1 DEF CleanUp, JoinAt, FlagAt
<1>2. CASE kind = "user"
  BY <1>2 DEF CleanUp, JoinAt, FlagAt
<1>3. CASE kind \in {"login", "game"}
  BY <1>3 DEF CleanUp, JoinAt, FlagAt
<1> QED BY <1>1, <1>2, <1>3, KindsAssumption

(* What the order of the start is. *)
LEMMA StartUpOrder ==
    ASSUME kind \in Kinds
    PROVE  /\ Len(StartUp) \in 3..5
           /\ kind = "game" => StartUp[1] = "socket"
           /\ kind # "user" => \A i \in 1..Len(StartUp) : StartUp[i] # "requester"
<1>1. CASE kind = "master"
  BY <1>1 DEF StartUp
<1>2. CASE kind = "user"
  BY <1>2 DEF StartUp
<1>3. CASE kind = "login"
  BY <1>3 DEF StartUp
<1>4. CASE kind = "game"
  BY <1>4 DEF StartUp
<1> QED BY <1>1, <1>2, <1>3, <1>4, KindsAssumption

LEMMA LifeInvInit == LifeInit => LifeInv
<1> SUFFICES ASSUME LifeInit PROVE LifeInv
  OBVIOUS
<1>1. ThreadsInv
  BY ThreadsInvInit DEF LifeInit
<1>2. LifeTypes
  <2>1. helper \in [Helper -> HelperAt]
    BY DEF LifeInit, HelperAt
  <2>2. misuse \subseteq {"nullConnection", "deletedConnection", "nullThread"}
    BY DEF LifeInit
  <2>3. started \in 0..5 /\ cleaned \in -1..7 /\ late \in 0..2
    BY DEF LifeInit
  <2>4. /\ kind \in Kinds /\ connection = "none"
        /\ exiting \in BOOLEAN /\ status = "running"
    BY DEF LifeInit
  <2> QED BY <2>1, <2>2, <2>3, <2>4 DEF LifeTypes
<1>3. EndInv /\ GameInv /\ ReporterInv
  BY DEF LifeInit, EndInv, GameInv, ReporterInv, JoinAt, FlagAt, Helper
<1> QED BY <1>1, <1>2, <1>3 DEF LifeInv

-----------------------------------------------------------------------------
(* What steps of the process are to the two threads: steps of theirs, or   *)
(* at most the flag that tells the daemon to end.                          *)
LEMMA LifeIsThreads ==
    ASSUME [LifeNext]_allLifeVars
    PROVE  \/ [ThreadsNext]_threadVars
           \/ UNCHANGED <<keys, stamp, mtx, now, owner, daemon>> /\ killed' = TRUE
<1>1. CASE GetPacket
  BY <1>1 DEF GetPacket, ThreadsNext
<1>2. CASE Daemon
  BY <1>2 DEF Daemon, ThreadsNext
<1>3. CASE Time
  BY <1>3 DEF Time, ThreadsNext
<1>4. CASE Kill
  BY <1>4 DEF Kill, threadVars
<1>5. CASE UNCHANGED threadVars
  BY <1>5
<1> QED BY <1>1, <1>2, <1>3, <1>4, <1>5
        DEF LifeNext, allLifeVars, Start, Terminate, Interrupt, CleanUpStep, SetFlag,
            JoinDaemon, Delete, Join, Exit, HelperStep, CallHome

LEMMA ThreadsInvLives ==
    ASSUME ThreadsInv, [LifeNext]_allLifeVars
    PROVE  ThreadsInv'
<1>1. CASE [ThreadsNext]_threadVars
  BY <1>1, ThreadsInvNext
<1>2. CASE UNCHANGED <<keys, stamp, mtx, now, owner, daemon>> /\ killed' = TRUE
  BY <1>2 DEF ThreadsInv, ThreadsTypeOK, HoldersOnly, OwnerInv, TableInv,
     DaemonInv, Erasable
<1> QED BY <1>1, <1>2, LifeIsThreads

(* The kind of a server stays, and its orders with it. *)
LEMMA KindStays ==
    ASSUME [LifeNext]_allLifeVars
    PROVE  /\ kind' = kind
           /\ StartUp' = StartUp /\ CleanUp' = CleanUp
           /\ JoinAt' = JoinAt /\ FlagAt' = FlagAt
<1>1. kind' = kind
  BY DEF LifeNext, allLifeVars, lifeVars, Start, GetPacket, Daemon, Terminate, Interrupt,
     CleanUpStep, SetFlag, Kill, JoinDaemon, Delete, Join, Exit, Cleaning,
     HelperStep, CallHome, Time
<1> QED BY <1>1 DEF StartUp, CleanUp, JoinAt, FlagAt

(* The steps of the threads of the socket: an ended daemon stays so. *)
LEMMA ThreadsLeaveLife ==
    ASSUME LifeInv, GetPacket \/ Daemon \/ Time \/ UNCHANGED allLifeVars
    PROVE  LifeTypes' /\ EndInv' /\ GameInv' /\ ReporterInv'
<1>1. UNCHANGED lifeVars
  BY DEF GetPacket, Daemon, Time, allLifeVars
<1>2. LifeTypes' /\ GameInv' /\ ReporterInv'
  BY <1>1 DEF lifeVars, LifeInv, LifeTypes, GameInv, ReporterInv, StartUp, CleanUp
<1>3. daemon.at = "ended" => daemon'.at = "ended"
  <2>1. CASE Daemon
    BY <2>1 DEF Daemon, DaemonStep, DaemonGetsMutex, DaemonGoesOn, DaemonGoes,
       BeginSweep, EndDaemon, EndSweep, EraseEntry, EndEntries, EraseKey, VisitKey,
       VisitEntry, LockOld, LockEmpty
  <2>2. CASE UNCHANGED daemon
    BY <2>2
  <2> QED BY <2>1, <2>2 DEF GetPacket, Time, allLifeVars, threadVars
<1>4. EndInv'
  BY <1>1, <1>3 DEF lifeVars, LifeInv, EndInv, JoinAt, FlagAt
<1> QED BY <1>2, <1>4

(* The steps of the start. *)
LEMMA StartLeavesLife ==
    ASSUME LifeInv, NEW step, Start(step), [LifeNext]_allLifeVars
    PROVE  LifeTypes' /\ EndInv' /\ GameInv' /\ ReporterInv'
<1> USE KindStays DEF LifeInv
<1>1. /\ cleaned = -1 /\ started < Len(StartUp) /\ StartUp[started + 1] = step
      /\ started' = started + 1 /\ UNCHANGED <<daemon, cleaned, exiting, late, misuse, status>>
  BY CleanUpOrder DEF Start, Interrupted, LifeTypes, threadVars
<1>2. helper' \in [Helper -> HelperAt]
  BY DEF Start, LifeTypes, HelperAt
<1>3. connection' \in {"live", connection}
  BY DEF Start
<1>4. LifeTypes'
  BY <1>1, <1>2, <1>3, StartUpOrder DEF LifeTypes
<1>5. EndInv'
  BY <1>1, <1>3 DEF EndInv, JoinAt, FlagAt
<1>6. GameInv'
  <2> SUFFICES ASSUME kind = "game" PROVE GameInv'
    BY DEF GameInv
  <2>1. connection' # "none"
    BY <1>1, <1>3, StartUpOrder DEF GameInv, LifeTypes, Start
  <2> QED BY <1>1, <2>1 DEF GameInv
<1>7. ReporterInv'
  <2> SUFFICES ASSUME kind # "user" PROVE ReporterInv'
    BY DEF ReporterInv
  <2>1. step # "requester"
    BY <1>1, StartUpOrder DEF LifeTypes
  <2>2. helper'["requester"] = "unborn" /\ helper'["reporter"] \in {"check", helper["reporter"]}
    BY <2>1 DEF Start, ReporterInv, LifeTypes, Helper
  <2> QED BY <1>1, <2>2 DEF ReporterInv
<1> QED BY <1>4, <1>5, <1>6, <1>7

(* A signal. *)
LEMMA SignalLeavesLife ==
    ASSUME LifeInv, Terminate \/ Interrupt, [LifeNext]_allLifeVars
    PROVE  LifeTypes' /\ EndInv' /\ GameInv' /\ ReporterInv'
<1> USE KindStays DEF LifeInv
<1>1. CASE Terminate
  BY <1>1 DEF Terminate, threadVars, LifeTypes, EndInv, GameInv, ReporterInv
<1>2. CASE Interrupt
  <2>1. LifeTypes'
    BY <1>2, CleanUpOrder DEF Interrupt, LifeTypes
  <2>2. cleaned = -1 /\ cleaned' = 0 /\ started >= 1
    BY <1>2, CleanUpOrder DEF Interrupt, Interrupted, LifeTypes, Did
  <2>3. EndInv'
    BY <1>2, <2>2 DEF Interrupt, EndInv, JoinAt, FlagAt
  <2>4. GameInv' /\ ReporterInv'
    BY <1>2, <2>2 DEF Interrupt, GameInv, ReporterInv
  <2> QED BY <2>1, <2>3, <2>4
<1> QED BY <1>1, <1>2

(* The steps of cleanUp. *)
LEMMA CleanUpLeavesLife ==
    ASSUME LifeInv, CleanUpStep, [LifeNext]_allLifeVars
    PROVE  LifeTypes' /\ EndInv' /\ GameInv' /\ ReporterInv'
<1> USE KindStays DEF LifeInv
<1>1. PICK step : Cleaning(step)
  BY DEF CleanUpStep, SetFlag, Kill, JoinDaemon, Delete, Join, Exit
<1>2. /\ cleaned \in 0..6 /\ cleaned + 1 \in 1..Len(CleanUp)
      /\ cleaned' = cleaned + 1 /\ UNCHANGED <<started, helper, late>>
  BY <1>1, CleanUpOrder DEF Cleaning, Interrupted, LifeTypes
<1>3. UNCHANGED daemon
  BY DEF CleanUpStep, SetFlag, Kill, JoinDaemon, Delete, Join, Exit, threadVars
<1>4. kind = "game" => connection # "none"
  BY <1>2 DEF GameInv
<1>5. /\ connection' \in {connection, "deleted"} /\ (exiting => exiting')
      /\ exiting' \in BOOLEAN
      /\ status' \in {status, "crashed", "exited"}
  BY DEF CleanUpStep, SetFlag, Kill, JoinDaemon, Delete, Join, Exit, Crash, LifeTypes
<1>6. \/ misuse' \in {misuse, misuse \cup {"nullThread"}}
      \/ connection = "none" /\ misuse' = misuse \cup {"nullConnection"}
  <2>1. CASE Kill
    BY <2>1 DEF Kill, Crash
  <2>2. ASSUME NEW h \in Helper, Join(h)
        PROVE  misuse' \in {misuse, misuse \cup {"nullThread"}}
    BY <2>2 DEF Join, Crash
  <2>3. CASE UNCHANGED misuse
    BY <2>3
  <2> QED BY <2>1, <2>2, <2>3 DEF CleanUpStep, SetFlag, JoinDaemon, Delete, Exit
<1>7. LifeTypes'
  <2>1. misuse' \subseteq {"nullConnection", "deletedConnection", "nullThread"}
    BY <1>6 DEF LifeTypes
  <2>2. cleaned' \in -1..7
    BY <1>2
  <2>3. started' \in 0..5 /\ late' \in 0..2
    BY <1>2 DEF LifeTypes
  <2>4. helper' \in [Helper -> HelperAt] /\ kind' \in Kinds
    BY <1>2 DEF LifeTypes
  <2> QED BY <1>5, <2>1, <2>2, <2>3, <2>4 DEF LifeTypes
<1>8. EndInv'
  <2>1. cleaned' = JoinAt => daemon.at = "ended"
    <3> SUFFICES ASSUME cleaned' = JoinAt PROVE daemon.at = "ended"
      OBVIOUS
    <3>1. CleanUp[cleaned + 1] = "joinDaemon"
      BY <1>2, CleanUpOrder DEF LifeTypes
    <3> QED BY <3>1 DEF CleanUpStep, SetFlag, Kill, JoinDaemon, Delete, Join, Exit,
            Cleaning
  <2>2. connection' = "deleted" => connection = "deleted" \/ cleaned' = JoinAt + 1
    <3>1. CASE Delete
      BY <1>2, <3>1, CleanUpOrder DEF Delete, Cleaning, LifeTypes
    <3> QED BY <3>1 DEF CleanUpStep, SetFlag, Kill, JoinDaemon, Join, Exit
  <2>3. cleaned' = FlagAt => exiting'
    <3> SUFFICES ASSUME cleaned' = FlagAt PROVE exiting'
      OBVIOUS
    <3>1. CleanUp[cleaned + 1] = "flag"
      BY <1>2, CleanUpOrder DEF LifeTypes
    <3> QED BY <3>1 DEF CleanUpStep, SetFlag, Kill, JoinDaemon, Delete, Join, Exit,
            Cleaning
  <2>4. JoinAt \in Nat /\ FlagAt \in Nat
    BY DEF JoinAt, FlagAt
  <2> QED BY <1>2, <1>3, <1>5, <2>1, <2>2, <2>3, <2>4 DEF EndInv
<1>9. GameInv'
  <2> SUFFICES ASSUME kind = "game" PROVE GameInv'
    BY DEF GameInv
  <2>1. connection # "none" /\ connection' # "none"
    BY <1>4, <1>5
  <2>2. "nullConnection" \notin misuse'
    BY <1>6, <2>1 DEF GameInv
  <2> QED BY <2>1, <2>2 DEF GameInv
<1>10. ReporterInv'
  BY <1>2, <1>5 DEF ReporterInv
<1> QED BY <1>7, <1>8, <1>9, <1>10

(* A send through the socket, by a thread or a callback. *)
LEMMA SendsAreSafe ==
    ASSUME SendThrough, connection \in {"none", "live", "deleted"}
    PROVE  \/ connection = "none" /\ misuse' = misuse \cup {"nullConnection"}
                                  /\ status' = "crashed"
           \/ connection # "none" /\ UNCHANGED status
                 /\ misuse' \in {misuse, misuse \cup {"deletedConnection"}}
BY DEF SendThrough, Crash

(* The callback of a new master. *)
LEMMA CallHomeLeavesLife ==
    ASSUME LifeInv, CallHome, [LifeNext]_allLifeVars
    PROVE  LifeTypes' /\ EndInv' /\ GameInv' /\ ReporterInv'
<1> USE KindStays DEF LifeInv
<1>1. UNCHANGED <<daemon, started, cleaned, connection, exiting, helper, late>> /\ SendThrough
  BY DEF CallHome, threadVars
<1>2. kind = "game" => connection # "none"
  BY DEF CallHome, Did, GameInv
<1>3. /\ misuse' \subseteq misuse \cup {"deletedConnection", "nullConnection"}
      /\ status' \in {status, "crashed"}
      /\ connection # "none" => misuse' \subseteq misuse \cup {"deletedConnection"}
  BY <1>1, SendsAreSafe DEF LifeTypes
<1>4. LifeTypes'
  BY <1>1, <1>3 DEF LifeTypes
<1>5. EndInv' /\ ReporterInv'
  BY <1>1 DEF EndInv, ReporterInv
<1>6. GameInv'
  BY <1>1, <1>2, <1>3 DEF GameInv
<1> QED BY <1>4, <1>5, <1>6

(* The threads that main starts. *)
LEMMA HelperLeavesLife ==
    ASSUME LifeInv, NEW h \in Helper, HelperStep(h), [LifeNext]_allLifeVars
    PROVE  LifeTypes' /\ EndInv' /\ GameInv' /\ ReporterInv'
<1> USE KindStays DEF LifeInv
<1>1. UNCHANGED <<daemon, started, cleaned, connection, exiting>>
  BY DEF HelperStep, threadVars
<1>2. CASE CheckFlag(h) \/ WakeUp(h)
  <2>1. /\ UNCHANGED <<late, misuse, status>> /\ helper[h] # "unborn"
        /\ \E to \in HelperAt \ {"unborn"} : /\ helper' = [helper EXCEPT ![h] = to]
                                             /\ to = "send" => MaySend(h)
    BY <1>2 DEF CheckFlag, WakeUp, HelperGoes, HelperAt
  <2>2. LifeTypes'
    BY <1>1, <2>1 DEF LifeTypes
  <2>3. EndInv' /\ GameInv'
    BY <1>1, <2>1 DEF EndInv, GameInv
  <2>4. ReporterInv'
    BY <1>1, <2>1 DEF ReporterInv, MaySend, LifeTypes, Helper
  <2> QED BY <2>2, <2>3, <2>4
<1>3. CASE HelperSends(h)
  <2>1. /\ helper[h] = "send" /\ helper' = [helper EXCEPT ![h] = "check"]
        /\ SendThrough
        /\ late' = IF connection = "deleted" /\ late < 2 THEN late + 1 ELSE late
    BY <1>3 DEF HelperSends, HelperGoes
  <2>2. kind = "game" => connection # "none"
    BY <2>1 DEF GameInv
  <2>3. /\ misuse' \subseteq misuse \cup {"deletedConnection", "nullConnection"}
        /\ status' \in {status, "crashed"}
        /\ connection # "none" => misuse' \subseteq misuse \cup {"deletedConnection"}
    BY <2>1, SendsAreSafe DEF LifeTypes
  <2>4. LifeTypes'
    BY <1>1, <2>1, <2>3 DEF LifeTypes, HelperAt
  <2>5. EndInv'
    BY <1>1 DEF EndInv
  <2>6. GameInv'
    BY <1>1, <2>1, <2>2, <2>3 DEF GameInv
  <2>7. ReporterInv'
    <3> SUFFICES ASSUME kind # "user" PROVE ReporterInv'
      BY DEF ReporterInv
    <3>1. h = "reporter" /\ late = 0
      BY <2>1 DEF ReporterInv, Helper
    <3>2. connection = "deleted" => exiting
      BY DEF EndInv, JoinAt, FlagAt, LifeTypes
    <3>3. helper'["requester"] = "unborn" /\ helper'["reporter"] = "check"
      BY <2>1, <3>1 DEF ReporterInv, LifeTypes, Helper
    <3> QED BY <1>1, <2>1, <3>1, <3>2, <3>3 DEF ReporterInv
  <2> QED BY <2>4, <2>5, <2>6, <2>7
<1> QED BY <1>2, <1>3 DEF HelperStep

LEMMA LifeInvNext == LifeInv /\ [LifeNext]_allLifeVars => LifeInv'
<1> SUFFICES ASSUME LifeInv, [LifeNext]_allLifeVars PROVE LifeInv'
  OBVIOUS
<1>1. ThreadsInv'
  BY ThreadsInvLives DEF LifeInv
<1>2. CASE GetPacket \/ Daemon \/ Time \/ UNCHANGED allLifeVars
  BY <1>1, <1>2, ThreadsLeaveLife DEF LifeInv
<1>3. ASSUME NEW step, Start(step) PROVE LifeInv'
  BY <1>1, <1>3, StartLeavesLife DEF LifeInv
<1>4. CASE Terminate \/ Interrupt
  BY <1>1, <1>4, SignalLeavesLife DEF LifeInv
<1>5. CASE CleanUpStep
  BY <1>1, <1>5, CleanUpLeavesLife DEF LifeInv
<1>6. CASE CallHome
  BY <1>1, <1>6, CallHomeLeavesLife DEF LifeInv
<1>7. ASSUME NEW h \in Helper, HelperStep(h) PROVE LifeInv'
  BY <1>1, <1>7, HelperLeavesLife DEF LifeInv
<1> QED BY <1>2, <1>3, <1>4, <1>5, <1>6, <1>7 DEF LifeNext

LEMMA LifeInvariant == LifeSpec => []LifeInv
BY LifeInvInit, LifeInvNext, PTL DEF LifeSpec

-----------------------------------------------------------------------------
(* The variables of a server process keep their types, and mtx is held by  *)
(* whoever stands between a lock and its unlock, from start to end.        *)
THEOREM LifeTypeCorrect == LifeSpec => []LifeTypeOK
<1>1. LifeInv => LifeTypeOK
  <2> SUFFICES ASSUME LifeInv PROVE LifeTypeOK
    OBVIOUS
  <2>1. Len(StartUp) \in 3..5 /\ Len(CleanUp) \in 5..7
    BY StartUpOrder, CleanUpOrder DEF LifeInv, LifeTypes
  <2> QED BY <2>1 DEF LifeInv, LifeTypes, LifeTypeOK, ThreadsInv
<1> QED BY <1>1, LifeInvariant, PTL

(* cleanUp frees the socket only when its daemon has ended.                *)
THEOREM DaemonIsJoined == LifeSpec => []DaemonEndsFirst
<1>1. LifeInv => DaemonEndsFirst
  BY DEF LifeInv, LifeTypes, EndInv, DaemonEndsFirst, JoinAt
<1> QED BY <1>1, LifeInvariant, PTL

(* No thread and no callback of a game server finds its socket missing.    *)
THEOREM GameIsConnected == LifeSpec => []GameHasConnection
<1>1. LifeInv => GameHasConnection
  BY DEF LifeInv, GameInv, GameHasConnection
<1> QED BY <1>1, LifeInvariant, PTL

(* At most one packet of the reporter goes through the freed socket.       *)
THEOREM OneSendIsLate == LifeSpec => []OneLateSend
<1>1. LifeInv => OneLateSend
  BY DEF LifeInv, ReporterInv, OneLateSend
<1> QED BY <1>1, LifeInvariant, PTL

(* The sweep keeps to old entries, whatever the process does meanwhile.    *)
THEOREM LifeSweepsOldEntries == LifeSpec => OldEntriesOnly
<1>1. ASSUME LifeInv, [LifeNext]_allLifeVars
      PROVE  [\A p \in Packet : Fair(p)]_threadVars
  <2>1. CASE [ThreadsNext]_threadVars
    BY <1>1, <2>1, StepsAreFair DEF Fair, LifeInv
  <2>2. CASE UNCHANGED stamp
    BY <2>2 DEF Fair, Erased
  <2> QED BY <1>1, <2>1, <2>2, LifeIsThreads
<1> QED BY <1>1, LifeInvariant, PTL DEF LifeSpec, OldEntriesOnly, Fair

(* The threads filter dupes, whatever the process does meanwhile.          *)
THEOREM LifeFiltersDupes == LifeSpec => FiltersDupes
<1>1. LifeInit => Filter!Init
  BY FilterInit DEF LifeInit
<1>2. ASSUME LifeInv, [LifeNext]_allLifeVars
      PROVE  [Filter!Next]_<<Known, owner.packet, Verdict>>
  <2>1. CASE [ThreadsNext]_threadVars
    BY <1>2, <2>1, FilterNext DEF LifeInv
  <2>2. CASE UNCHANGED <<stamp, owner>>
    BY <2>2 DEF Known, Verdict
  <2> QED BY <1>2, <2>1, <2>2, LifeIsThreads
<1> QED BY <1>1, <1>2, LifeInvariant, PTL
        DEF LifeSpec, FiltersDupes, Filter!Spec, Known, Verdict
=============================================================================
