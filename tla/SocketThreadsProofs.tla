------------------------ MODULE SocketThreadsProofs ------------------------
(***************************************************************************)
(* Proofs about SocketThreads: although the owner and the daemon of a      *)
(* socket read its table without mtx, no packet is judged wrongly and no   *)
(* entry is erased while its time is being written, for any number of      *)
(* senders, ids and moments.                                               *)
(***************************************************************************)
EXTENDS SocketThreads, TLAPS

(* The owner found the packet absent, and only it adds packets; so the     *)
(* daemon, which can only take entries away, cannot change its mind.       *)
Deciding == {"lockKey", "addKey", "lockEntry", "addEntry"}
OwnerInv ==
    /\ owner.at \in {"lockKey", "addKey"} => KeyOf(owner.packet) \notin keys
    /\ owner.at \in Deciding => stamp[owner.packet] = Absent
    /\ owner.at = "stampEntry" => stamp[owner.packet] = Unset

(* Entries are in the table of a key that is there, and only the one that  *)
(* the owner has just added has no time yet.                               *)
TableInv ==
    \A p \in Packet :
        /\ stamp[p] # Absent => KeyOf(p) \in keys
        /\ stamp[p] = Unset => owner.at = "stampEntry" /\ owner.packet = p

(* What the daemon is about to erase was too old when it looked, or came   *)
(* after the sweep began.                                                  *)
Erasable(t) == \/ t = Absent
               \/ t = Unset
               \/ t >= daemon.curTime
               \/ daemon.curTime - t > Hold
DaemonInv ==
    /\ daemon.curTime <= now
    /\ \A p \in Packet : stamp[p] <= now
    /\ daemon.at \in {"lockEntry", "eraseEntry"}
         => Erasable(stamp[<<daemon.key, daemon.id>>])
    /\ daemon.at \in {"lockKey", "eraseKey"}
         => \A i \in ID : LET t == stamp[<<daemon.key, i>>]
                          IN  t \in {Absent, Unset} \/ t >= daemon.curTime

ThreadsInv == /\ ThreadsTypeOK
              /\ HoldersOnly
              /\ OwnerInv
              /\ TableInv
              /\ DaemonInv

(* The first moment, with an empty table. *)
LEMMA ThreadsInvInit == ThreadsInit => ThreadsInv
<1> SUFFICES ASSUME ThreadsInit PROVE ThreadsInv
  OBVIOUS
<1>1. PICK k \in Key, i \in ID :
          /\ owner = [at |-> "accepted", packet |-> <<k, i>>]
          /\ daemon = [at |-> "asleep", curTime |-> 1, key |-> k, id |-> i,
                       seenKeys |-> {}, seen |-> {}]
  BY DEF ThreadsInit
<1>2. 1 \in Moment
  BY ThreadsAssumption DEF Moment
<1>3. ThreadsTypeOK
  BY <1>1, <1>2 DEF ThreadsInit, ThreadsTypeOK, Packet, OwnerAt, DaemonAt
<1>4. HoldersOnly /\ OwnerInv /\ TableInv /\ DaemonInv
  BY <1>1, <1>2 DEF ThreadsInit, HoldersOnly, OwnerInv, TableInv, DaemonInv,
     Deciding, Absent, Unset
<1> QED BY <1>3, <1>4 DEF ThreadsInv

(* The statements of getPacket. *)
LEMMA OwnerPreserves ==
    ASSUME ThreadsInv, OwnerStep, UNCHANGED <<now, killed, daemon>>
    PROVE  ThreadsInv'
<1> USE DEF ThreadsInv, OwnerGoes, Absent, Unset, Deciding
<1>1. ASSUME NEW p \in Packet, Take(p) PROVE ThreadsInv'
  BY <1>1 DEF Take, ThreadsTypeOK, OwnerAt, HoldersOnly, OwnerInv, TableInv,
     DaemonInv, Erasable
<1>2. CASE FindKey
  BY <1>2 DEF FindKey, ThreadsTypeOK, OwnerAt, HoldersOnly, OwnerInv, TableInv,
     DaemonInv, Erasable, KeyOf, Packet
<1>3. CASE LockKey
  BY <1>3 DEF LockKey, Lock, ThreadsTypeOK, OwnerAt, HoldersOnly, OwnerInv, TableInv,
     DaemonInv, Erasable
<1>4. CASE AddKey
  BY <1>4 DEF AddKey, Unlock, Emptied, ThreadsTypeOK, OwnerAt, HoldersOnly, OwnerInv,
     TableInv, DaemonInv, Erasable, KeyOf, Packet
<1>5. CASE FindID
  BY <1>5 DEF FindID, IsTracked, ThreadsTypeOK, OwnerAt, HoldersOnly, OwnerInv,
     TableInv, DaemonInv, Erasable, KeyOf, Packet
<1>6. CASE LockEntry
  BY <1>6 DEF LockEntry, Lock, ThreadsTypeOK, OwnerAt, HoldersOnly, OwnerInv, TableInv,
     DaemonInv, Erasable
<1>7. CASE AddEntry
  BY <1>7 DEF AddEntry, ThreadsTypeOK, OwnerAt, HoldersOnly, OwnerInv, TableInv,
     DaemonInv, Erasable, KeyOf, Packet, Moment
<1>8. CASE StampEntry
  BY <1>8 DEF StampEntry, Unlock, ThreadsTypeOK, OwnerAt, HoldersOnly, OwnerInv,
     TableInv, DaemonInv, Erasable, KeyOf, Packet, Moment
<1> QED BY <1>1, <1>2, <1>3, <1>4, <1>5, <1>6, <1>7, <1>8
        DEF OwnerStep, OwnerGetsMutex, OwnerGoesOn

(* The sweep of reliableDaemon. *)
LEMMA DaemonPreserves ==
    ASSUME ThreadsInv, DaemonStep, UNCHANGED <<now, killed, owner>>
    PROVE  ThreadsInv'
<1> USE DEF ThreadsInv, DaemonGoes, Absent, Unset, Deciding
<1>1. CASE BeginSweep
  <2>1. ThreadsTypeOK'
    BY <1>1 DEF BeginSweep, ThreadsTypeOK, DaemonAt
  <2>2. HoldersOnly' /\ OwnerInv' /\ TableInv'
    BY <1>1 DEF BeginSweep, ThreadsTypeOK, HoldersOnly, OwnerInv, TableInv
  <2>3. daemon'.at = "keys" /\ daemon'.curTime = now
    BY <1>1 DEF BeginSweep, ThreadsTypeOK
  <2>4. DaemonInv'
    BY <1>1, <2>3 DEF BeginSweep, ThreadsTypeOK, Moment, DaemonInv
  <2> QED BY <2>1, <2>2, <2>4
<1>2. CASE EndDaemon
  BY <1>2 DEF EndDaemon, ThreadsTypeOK, DaemonAt, HoldersOnly, OwnerInv,
     TableInv, DaemonInv, Erasable
<1>3. CASE EndSweep
  BY <1>3 DEF EndSweep, ThreadsTypeOK, DaemonAt, HoldersOnly, OwnerInv,
     TableInv, DaemonInv, Erasable
<1>4. CASE EraseEntry
  <2>1. owner.at \notin {"addKey", "addEntry", "stampEntry"}
    BY <1>4 DEF EraseEntry, HoldersOnly
  <2>2. ThreadsTypeOK'
    BY <1>4 DEF EraseEntry, Unlock, ThreadsTypeOK, DaemonAt
  <2>3. daemon'.at = "entries" /\ daemon'.curTime = daemon.curTime
    BY <1>4 DEF EraseEntry, ThreadsTypeOK
  <2>4. \A p \in Packet : stamp'[p] = stamp[p] \/ stamp'[p] = Absent
    BY <1>4 DEF EraseEntry, ThreadsTypeOK
  <2>5. HoldersOnly'
    BY <1>4, <2>1, <2>3 DEF EraseEntry, Unlock, HoldersOnly
  <2>6. OwnerInv' /\ TableInv'
    BY <1>4, <2>1, <2>4 DEF EraseEntry, OwnerInv, TableInv, ThreadsTypeOK
  <2>7. DaemonInv'
    BY <1>4, <2>3, <2>4 DEF EraseEntry, DaemonInv, ThreadsTypeOK, Moment
  <2> QED BY <2>2, <2>5, <2>6, <2>7
<1>5. CASE EndEntries
  BY <1>5 DEF EndEntries, Tracked, ThreadsTypeOK, DaemonAt, HoldersOnly,
     OwnerInv, TableInv, DaemonInv, Erasable
<1>6. CASE EraseKey
  <2>1. owner.at \notin {"addKey", "addEntry", "stampEntry"}
    BY <1>6 DEF EraseKey, HoldersOnly
  <2>2. ThreadsTypeOK'
    BY <1>6 DEF EraseKey, Unlock, Emptied, ThreadsTypeOK, DaemonAt
  <2>3. daemon'.at = "keys" /\ daemon'.curTime = daemon.curTime
    BY <1>6 DEF EraseKey, ThreadsTypeOK
  <2>4. \A p \in Packet :
            stamp'[p] = IF KeyOf(p) = daemon.key THEN Absent ELSE stamp[p]
    BY <1>6 DEF EraseKey, Emptied
  <2>5. HoldersOnly'
    BY <1>6, <2>1, <2>3 DEF EraseKey, Unlock, HoldersOnly
  <2>6. OwnerInv' /\ TableInv'
    BY <1>6, <2>1, <2>4 DEF EraseKey, OwnerInv, TableInv, ThreadsTypeOK
  <2>7. DaemonInv'
    BY <1>6, <2>3, <2>4 DEF EraseKey, DaemonInv, ThreadsTypeOK, Moment
  <2> QED BY <2>2, <2>5, <2>6, <2>7
<1>7. ASSUME NEW k \in Key, VisitKey(k) PROVE ThreadsInv'
  BY <1>7 DEF VisitKey, ThreadsTypeOK, DaemonAt, HoldersOnly, OwnerInv,
     TableInv, DaemonInv, Erasable
<1>8. ASSUME NEW i \in ID, VisitEntry(i) PROVE ThreadsInv'
  <2>1. CASE IsOld(stamp[<<daemon.key, i>>], daemon.curTime)
    <3>1. ThreadsTypeOK'
      BY <1>8 DEF VisitEntry, ThreadsTypeOK, DaemonAt
    <3>2. HoldersOnly' /\ OwnerInv' /\ TableInv'
      BY <1>8 DEF VisitEntry, ThreadsTypeOK, HoldersOnly, OwnerInv, TableInv
    <3>3. daemon' = [daemon EXCEPT !.id = i, !.seen = @ \cup {i}, !.at = "lockEntry"]
      BY <1>8, <2>1 DEF VisitEntry
    <3>4. /\ daemon'.at = "lockEntry" /\ daemon'.id = i
          /\ daemon'.curTime = daemon.curTime /\ daemon'.key = daemon.key
      BY <3>3 DEF ThreadsTypeOK
    <3>5. <<daemon.key, i>> \in Packet
      BY <1>8 DEF ThreadsTypeOK, Packet
    <3>6. stamp[<<daemon.key, i>>] \in Int /\ daemon.curTime \in Int
      BY <3>5 DEF ThreadsTypeOK, Moment
    <3>7. Erasable(stamp[<<daemon.key, i>>])
      BY <2>1, <3>6, ThreadsAssumption DEF IsOld, Erasable
    <3>8. DaemonInv'
      BY <1>8, <3>4, <3>7 DEF VisitEntry, DaemonInv, Erasable
    <3> QED BY <3>1, <3>2, <3>8
  <2>2. CASE ~IsOld(stamp[<<daemon.key, i>>], daemon.curTime)
    BY <1>8, <2>2 DEF VisitEntry, ThreadsTypeOK, DaemonAt, HoldersOnly,
       OwnerInv, TableInv, DaemonInv, Erasable
  <2> QED BY <2>1, <2>2
<1>9. CASE LockOld
  BY <1>9 DEF LockOld, Lock, ThreadsTypeOK, DaemonAt, HoldersOnly, OwnerInv,
     TableInv, DaemonInv, Erasable
<1>10. CASE LockEmpty
  BY <1>10 DEF LockEmpty, Lock, ThreadsTypeOK, DaemonAt, HoldersOnly, OwnerInv,
     TableInv, DaemonInv, Erasable
<1> QED BY <1>1, <1>2, <1>3, <1>4, <1>5, <1>6, <1>7, <1>8, <1>9, <1>10
        DEF DaemonStep, DaemonGetsMutex, DaemonGoesOn

(* Every step of the two threads and of the clock. *)
LEMMA ThreadsInvNext == ThreadsInv /\ [ThreadsNext]_threadVars => ThreadsInv'
<1> SUFFICES ASSUME ThreadsInv, [ThreadsNext]_threadVars PROVE ThreadsInv'
  OBVIOUS
<1>1. CASE OwnerStep /\ UNCHANGED <<now, killed, daemon>>
  BY <1>1, OwnerPreserves
<1>2. CASE DaemonStep /\ UNCHANGED <<now, killed, owner>>
  BY <1>2, DaemonPreserves
<1>3. CASE Tick /\ UNCHANGED <<keys, stamp, mtx, killed, owner, daemon>>
  BY <1>3, ThreadsAssumption DEF Tick, ThreadsInv, ThreadsTypeOK, HoldersOnly,
     OwnerInv, TableInv, DaemonInv, Erasable, Moment, Absent, Unset
<1>4. CASE UNCHANGED threadVars
  BY <1>4 DEF threadVars, ThreadsInv, ThreadsTypeOK, HoldersOnly, OwnerInv,
     TableInv, DaemonInv, Erasable
<1> QED BY <1>1, <1>2, <1>3, <1>4 DEF ThreadsNext

LEMMA ThreadsInvariant == ThreadsSpec => []ThreadsInv
BY ThreadsInvInit, ThreadsInvNext, PTL DEF ThreadsSpec

(* The table, the mutex and the two program counters keep their types.     *)
THEOREM ThreadsTypeCorrect == ThreadsSpec => []ThreadsTypeOK
<1>1. ThreadsInv => ThreadsTypeOK
  BY DEF ThreadsInv
<1> QED BY <1>1, ThreadsInvariant, PTL

(* The owner and the daemon never change the table at the same time: mtx   *)
(* is held by whoever stands between a lock and its unlock.                *)
THEOREM MutexIsKept == ThreadsSpec => []HoldersOnly
<1>1. ThreadsInv => HoldersOnly
  BY DEF ThreadsInv
<1> QED BY <1>1, ThreadsInvariant, PTL

(* What a step may erase: entries that are not being written, and that are *)
(* old or came after the sweep had begun.                                  *)
Fair(p) == Erased(p) => /\ stamp[p] # Unset
                        /\ now - stamp[p] > Hold \/ stamp[p] >= daemon.curTime

LEMMA StepsAreFair ==
    ASSUME ThreadsInv, ThreadsNext, NEW p \in Packet, Erased(p)
    PROVE  Fair(p)
<1> USE DEF ThreadsInv, Absent, Unset, Fair
<1>1. CASE OwnerStep
  <2>1. CASE AddKey
    BY <1>1, <2>1 DEF AddKey, OwnerGoes, Emptied, Erased, OwnerInv, TableInv,
       ThreadsTypeOK
  <2>2. CASE AddEntry
    BY <1>1, <2>2 DEF AddEntry, OwnerGoes, Erased, ThreadsTypeOK
  <2>3. CASE StampEntry
    BY <1>1, <2>3 DEF StampEntry, OwnerGoes, Erased, ThreadsTypeOK, Moment
  <2>4. CASE UNCHANGED stamp
    BY <2>4 DEF Erased
  <2> QED BY <1>1, <2>1, <2>2, <2>3, <2>4 DEF OwnerStep, OwnerGetsMutex,
          OwnerGoesOn, Take, FindKey, LockKey, FindID, LockEntry
<1>2. CASE DaemonStep
  <2>1. CASE EraseEntry
    <3>1. p = <<daemon.key, daemon.id>>
      BY <2>1 DEF EraseEntry, Erased, ThreadsTypeOK
    <3>2. mtx = "daemon" /\ owner.at # "stampEntry"
      BY <2>1 DEF EraseEntry, DaemonGoes, HoldersOnly
    <3>3. stamp[p] # Unset
      BY <3>2 DEF TableInv
    <3>4. Erasable(stamp[p]) /\ daemon.curTime <= now
      BY <2>1, <3>1 DEF EraseEntry, DaemonGoes, DaemonInv
    <3> QED BY <3>3, <3>4, ThreadsAssumption
            DEF Erased, Erasable, ThreadsTypeOK, Moment
  <2>2. CASE EraseKey
    <3>1. p = <<daemon.key, p[2]>> /\ p[2] \in ID
      BY <2>2 DEF EraseKey, Emptied, Erased, ThreadsTypeOK, KeyOf, Packet
    <3>2. mtx = "daemon" /\ owner.at # "stampEntry"
      BY <2>2 DEF EraseKey, DaemonGoes, HoldersOnly
    <3>3. stamp[p] # Unset
      BY <3>2 DEF TableInv
    <3>4. stamp[p] \in {Absent, Unset} \/ stamp[p] >= daemon.curTime
      BY <2>2, <3>1 DEF EraseKey, DaemonGoes, DaemonInv
    <3> QED BY <3>3, <3>4 DEF Erased
  <2>3. CASE UNCHANGED stamp
    BY <2>3 DEF Erased
  <2> QED BY <1>2, <2>1, <2>2, <2>3 DEF DaemonStep, DaemonGetsMutex,
          DaemonGoesOn, BeginSweep, EndDaemon, EndSweep, EndEntries,
          VisitKey, VisitEntry, LockOld, LockEmpty
<1>3. CASE Tick /\ UNCHANGED <<keys, stamp, mtx, killed, owner, daemon>>
  BY <1>3 DEF Erased
<1> QED BY <1>1, <1>2, <1>3 DEF ThreadsNext

(* The sweep never frees an entry that is being written, and what it takes *)
(* before its five seconds are over came after it looked at the clock.     *)
THEOREM SweepTakesOldEntries == ThreadsSpec => OldEntriesOnly
<1>1. ASSUME ThreadsInv, [ThreadsNext]_threadVars
      PROVE  [\A p \in Packet : Fair(p)]_threadVars
  BY <1>1, StepsAreFair DEF Fair
<1> QED BY <1>1, ThreadsInvariant, PTL DEF ThreadsSpec, OldEntriesOnly, Fair

-----------------------------------------------------------------------------
(* The abstract state, named as in the substitution of Filter. *)
Known   == {p \in Packet : stamp[p] # Absent}
Verdict == CASE owner.at = "stampEntry" -> "accepted"
             [] owner.at \in {"accepted", "dropped"} -> owner.at
             [] OTHER -> "undecided"

(* What a step of the owner does to the abstract filter. *)
LEMMA OwnerFilters ==
    ASSUME ThreadsInv, OwnerStep
    PROVE  Filter!Next \/ UNCHANGED <<Known, owner.packet, Verdict>>
<1> USE DEF ThreadsInv, OwnerGoes, Absent, Unset
<1>1. ASSUME NEW p \in Packet, Take(p) PROVE Filter!Take(p)
  BY <1>1 DEF Take, Filter!Take, Filter!Undecided
<1>2. CASE FindKey
  <2>1. owner'.packet = owner.packet /\ owner'.at \in {"findID", "lockKey"}
    BY <1>2 DEF FindKey, ThreadsTypeOK
  <2> QED BY <1>2, <2>1 DEF FindKey, Known, Verdict
<1>3. CASE LockKey
  <2>1. owner'.packet = owner.packet /\ owner'.at = "addKey"
    BY <1>3 DEF LockKey, ThreadsTypeOK
  <2> QED BY <1>3, <2>1 DEF LockKey, Known, Verdict
<1>4. CASE AddKey
  <2>1. owner'.packet = owner.packet /\ owner'.at = "lockEntry"
    BY <1>4 DEF AddKey, ThreadsTypeOK
  <2>2. \A p \in Packet : KeyOf(p) = KeyOf(owner.packet) => stamp[p] = Absent
    BY <1>4 DEF AddKey, OwnerInv, TableInv
  <2>3. Known' = Known
    BY <1>4, <2>2 DEF AddKey, Emptied, Known
  <2> QED BY <1>4, <2>1, <2>3 DEF AddKey, Verdict
<1>5. CASE FindID
  <2>1. owner'.packet = owner.packet /\ Known' = Known
    BY <1>5 DEF FindID, ThreadsTypeOK, Known
  <2>2. CASE IsTracked(owner.packet)
    <3>1. owner'.at = "dropped"
      BY <1>5, <2>2 DEF FindID, ThreadsTypeOK
    <3>2. owner.packet \in Known
      BY <2>2 DEF IsTracked, Known, ThreadsTypeOK
    <3>3. Filter!Drop
      BY <1>5, <2>1, <3>1, <3>2
         DEF FindID, Filter!Drop, Filter!Undecided, Known
    <3> QED BY <3>3 DEF Filter!Next
  <2>3. CASE ~IsTracked(owner.packet)
    <3>1. owner'.at = "lockEntry"
      BY <1>5, <2>3 DEF FindID, ThreadsTypeOK
    <3> QED BY <1>5, <2>1, <3>1 DEF FindID, Verdict
  <2> QED BY <2>2, <2>3
<1>6. CASE LockEntry
  <2>1. owner'.packet = owner.packet /\ owner'.at = "addEntry"
    BY <1>6 DEF LockEntry, ThreadsTypeOK
  <2> QED BY <1>6, <2>1 DEF LockEntry, Known, Verdict
<1>7. CASE AddEntry
  <2>1. owner'.packet = owner.packet /\ owner'.at = "stampEntry"
    BY <1>7 DEF AddEntry, ThreadsTypeOK
  <2>2. owner.packet \in Packet /\ owner.packet \notin Known
    BY <1>7 DEF AddEntry, OwnerInv, Deciding, Known, ThreadsTypeOK
  <2>3. Known' = Known \cup {owner.packet}
    BY <1>7, <2>2 DEF AddEntry, Known, ThreadsTypeOK
  <2>4. Filter!Accept
    BY <1>7, <2>1, <2>2, <2>3
       DEF AddEntry, Filter!Accept, Filter!Undecided, Known
  <2> QED BY <2>4 DEF Filter!Next
<1>8. CASE StampEntry
  <2>1. owner'.packet = owner.packet /\ owner'.at = "accepted"
    BY <1>8 DEF StampEntry, ThreadsTypeOK
  <2>2. stamp[owner.packet] # Absent /\ now # Absent
    BY <1>8 DEF StampEntry, OwnerInv, ThreadsTypeOK, Moment
  <2>3. Known' = Known
    BY <1>8, <2>2 DEF StampEntry, Known, ThreadsTypeOK
  <2> QED BY <1>8, <2>1, <2>3 DEF StampEntry, Verdict
<1> QED BY <1>1, <1>2, <1>3, <1>4, <1>5, <1>6, <1>7, <1>8
        DEF OwnerStep, OwnerGetsMutex, OwnerGoesOn, Filter!Next

(* The daemon only forgets. *)
LEMMA DaemonFilters ==
    ASSUME ThreadsInv, DaemonStep, UNCHANGED owner
    PROVE  Filter!Forget
<1>1. \A p \in Packet : stamp[p] = Absent => stamp'[p] = Absent
  <2>1. CASE EraseEntry
    BY <2>1 DEF EraseEntry, ThreadsInv, ThreadsTypeOK
  <2>2. CASE EraseKey
    BY <2>2 DEF EraseKey, Emptied
  <2>3. CASE UNCHANGED stamp
    BY <2>3
  <2> QED BY <2>1, <2>2, <2>3 DEF DaemonStep, DaemonGetsMutex, DaemonGoesOn,
          BeginSweep, EndDaemon, EndSweep, EndEntries, VisitKey, VisitEntry,
          LockOld, LockEmpty
<1>2. {p \in Packet : stamp'[p] # Absent}
          \in SUBSET {p \in Packet : stamp[p] # Absent}
  BY <1>1
<1> QED BY <1>2 DEF Filter!Forget

LEMMA FilterInit == ThreadsInit => Filter!Init
<1> SUFFICES ASSUME ThreadsInit PROVE Filter!Init
  OBVIOUS
<1>1. owner.packet \in Packet /\ owner.at = "accepted"
  BY DEF ThreadsInit, Packet
<1>2. {p \in Packet : stamp[p] # Absent} = {}
  BY DEF ThreadsInit
<1> QED BY <1>1, <1>2 DEF Filter!Init

(* Every step of the two threads is one of the filter, or none at all. *)
LEMMA FilterNext ==
    ASSUME ThreadsInv, [ThreadsNext]_threadVars
    PROVE  Filter!Next \/ UNCHANGED <<Known, owner.packet, Verdict>>
<1>1. CASE OwnerStep
  BY <1>1, OwnerFilters
<1>2. CASE DaemonStep /\ UNCHANGED <<now, killed, owner>>
  BY <1>2, DaemonFilters DEF Filter!Next
<1>3. CASE UNCHANGED <<stamp, owner>>
  BY <1>3 DEF Known, Verdict
<1> QED BY <1>1, <1>2, <1>3 DEF ThreadsNext, threadVars

(* With its unlocked reads the socket still implements the abstract filter *)
(* of dupes: a packet is accepted exactly when it is not in the table, and *)
(* the table loses entries but never gains a wrong one (getPacket).        *)
THEOREM ThreadsFilterDupes == ThreadsSpec => FiltersDupes
<1>1. ASSUME ThreadsInv, [ThreadsNext]_threadVars
      PROVE  [Filter!Next]_<<Known, owner.packet, Verdict>>
  BY <1>1, FilterNext
<1> QED BY <1>1, FilterInit, ThreadsInvariant, PTL
        DEF ThreadsSpec, FiltersDupes, Filter!Spec, Known, Verdict
=============================================================================
