--------------------------- MODULE SocketThreads ---------------------------
(***************************************************************************)
(* The table of received packets of one socket (src/socket.cpp), shared by *)
(* the two threads of its process: the owner looks packets up and inserts  *)
(* them in getPacket, the daemon sweeps old ones out.  A step is what one  *)
(* statement does to the table; mtx is held for some of them only.         *)
(*                                                                         *)
(* The iterators of the sweep and the insertions of the owner race with no *)
(* lock at all.  The model takes an iteration to visit the entries in any  *)
(* order and to miss any of them; that a process may also crash there is   *)
(* left out.                                                               *)
(***************************************************************************)
EXTENDS Integers, FiniteSets

CONSTANTS Key,      \* the senders of packets
          ID,       \* packet ids
          Hold,     \* "seconds to hold onto a packet for tracking for"
          MaxTime   \* bound: the last moment of the clock

ASSUME ThreadsAssumption == /\ Hold \in Nat
                            /\ MaxTime \in Nat \ {0}

VARIABLES keys,     \* the keys with a table of their own
          stamp,    \* per packet: when it was received
          mtx,      \* which thread holds the mutex
          now,      \* the clock
          killed,   \* Socket::exiting
          owner,    \* where the owner is in getPacket, and with which packet
          daemon    \* where the daemon is in reliableDaemon

ownerVars  == <<keys, stamp, mtx, owner>>
daemonVars == <<keys, stamp, mtx, daemon>>
threadVars == <<keys, stamp, mtx, now, killed, owner, daemon>>

Packet == Key \X ID
Moment == 1..MaxTime
Absent == -1       \* no entry
Unset  == 0        \* a timespec of zeros, as operator[] makes it

OwnerAt  == {"accepted", "dropped", "findKey", "lockKey", "addKey", "findID",
             "lockEntry", "addEntry", "stampEntry"}
DaemonAt == {"asleep", "keys", "entries", "lockEntry", "eraseEntry",
             "lockKey", "eraseKey", "ended"}

ThreadsTypeOK ==
    /\ keys \subseteq Key
    /\ stamp \in [Packet -> {Absent, Unset} \cup Moment]
    /\ mtx \in {"free", "owner", "daemon"}
    /\ now \in Moment
    /\ killed \in BOOLEAN
    /\ owner \in [at : OwnerAt, packet : Packet]
    /\ daemon \in [at : DaemonAt, curTime : Moment, key : Key, id : ID,
                   seenKeys : SUBSET Key, seen : SUBSET ID]

(* mtx is held by the thread that is between its lock and its unlock. *)
HoldersOnly ==
    /\ mtx = "owner" <=> owner.at \in {"addKey", "addEntry", "stampEntry"}
    /\ mtx = "daemon" <=> daemon.at \in {"eraseEntry", "eraseKey"}

ThreadsInit ==
    /\ keys = {}
    /\ stamp = [p \in Packet |-> Absent]
    /\ mtx = "free"
    /\ now = 1
    /\ killed = FALSE
    /\ \E k \in Key, i \in ID :
          /\ owner = [at |-> "accepted", packet |-> <<k, i>>]
          /\ daemon = [at |-> "asleep", curTime |-> 1, key |-> k, id |-> i,
                       seenKeys |-> {}, seen |-> {}]

-----------------------------------------------------------------------------
KeyOf(p) == p[1]

Tracked(k) == {i \in ID : stamp[<<k, i>>] # Absent}
Emptied(k) == [p \in Packet |-> IF KeyOf(p) = k THEN Absent ELSE stamp[p]]

(* find( id ) != end() *)
MutIsTrackedKey(p) == KeyOf(p) \in keys
IsTracked(p) == stamp[p] # Absent

(* diff > seconds * 1000000000L, where diff is unsigned: an entry younger  *)
(* than curTime is as old as can be.                                       *)
MutIsOldEarly(t, curTime) == t > curTime \/ curTime - t >= Hold
IsOld(t, curTime) == t = Unset \/ t > curTime \/ curTime - t > Hold

(* mtx.lock() and mtx.unlock() *)
MutLockAnyway(thread) == mtx' = thread
Lock(thread) == mtx = "free" /\ mtx' = thread

MutUnlockForgotten == UNCHANGED mtx
Unlock == mtx' = "free"

OwnerGoes(from, to) == owner.at = from /\ owner' = [owner EXCEPT !.at = to]
DaemonGoes(from, to) == daemon.at = from /\ daemon' = [daemon EXCEPT !.at = to]

-----------------------------------------------------------------------------
(* getPacket: recvfrom has brought a packet with an id. *)
Take(p) ==
    /\ owner.at \in {"accepted", "dropped"}
    /\ owner' = [at |-> "findKey", packet |-> p]
    /\ UNCHANGED <<keys, stamp, mtx>>

FindKey ==
    /\ OwnerGoes("findKey", IF KeyOf(owner.packet) \in keys
                            THEN "findID" ELSE "lockKey")
    /\ UNCHANGED <<keys, stamp, mtx>>

LockKey ==
    /\ OwnerGoes("lockKey", "addKey")
    /\ Lock("owner")
    /\ UNCHANGED <<keys, stamp>>

(* An empty table for the key, in place of what it may have. *)
AddKey ==
    /\ OwnerGoes("addKey", "lockEntry")
    /\ keys' = keys \cup {KeyOf(owner.packet)}
    /\ stamp' = Emptied(KeyOf(owner.packet))
    /\ Unlock

(* operator[] adds the key again if the daemon has erased it; without mtx. *)
FindID ==
    /\ OwnerGoes("findID", IF IsTracked(owner.packet)
                           THEN "dropped" ELSE "lockEntry")
    /\ keys' = keys \cup {KeyOf(owner.packet)}
    /\ UNCHANGED <<stamp, mtx>>

LockEntry ==
    /\ OwnerGoes("lockEntry", "addEntry")
    /\ Lock("owner")
    /\ UNCHANGED <<keys, stamp>>

(* operator[] of both tables, and then clock_gettime into the new entry. *)
AddEntry ==
    /\ OwnerGoes("addEntry", "stampEntry")
    /\ keys' = keys \cup {KeyOf(owner.packet)}
    /\ stamp' = [stamp EXCEPT ![owner.packet] = Unset]
    /\ UNCHANGED mtx

StampEntry ==
    /\ OwnerGoes("stampEntry", "accepted")
    /\ stamp' = [stamp EXCEPT ![owner.packet] = now]
    /\ UNCHANGED keys
    /\ Unlock

OwnerGetsMutex == LockKey \/ LockEntry
OwnerGoesOn    == FindKey \/ AddKey \/ FindID \/ AddEntry \/ StampEntry
OwnerStep      == OwnerGetsMutex \/ OwnerGoesOn \/ \E p \in Packet : Take(p)

-----------------------------------------------------------------------------
(* reliableDaemon: a sweep begins with a look at the clock. *)
BeginSweep ==
    /\ daemon.at = "asleep" /\ ~killed
    /\ daemon' = [daemon EXCEPT !.at = "keys", !.curTime = now,
                                !.seenKeys = {}, !.seen = {}]
    /\ UNCHANGED <<keys, stamp, mtx>>

EndDaemon ==
    /\ DaemonGoes("asleep", "ended") /\ killed
    /\ UNCHANGED <<keys, stamp, mtx>>

VisitKey(k) ==
    /\ daemon.at = "keys"
    /\ k \in keys \ daemon.seenKeys
    /\ daemon' = [daemon EXCEPT !.at = "entries", !.key = k, !.seen = {},
                                !.seenKeys = @ \cup {k}]
    /\ UNCHANGED <<keys, stamp, mtx>>

EndSweep == DaemonGoes("keys", "asleep") /\ UNCHANGED <<keys, stamp, mtx>>

(* The time of an entry is read without mtx. *)
VisitEntry(i) ==
    /\ daemon.at = "entries"
    /\ i \in Tracked(daemon.key) \ daemon.seen
    /\ daemon' = [daemon EXCEPT !.id = i, !.seen = @ \cup {i},
                     !.at = IF IsOld(stamp[<<daemon.key, i>>], daemon.curTime)
                            THEN "lockEntry" ELSE "entries"]
    /\ UNCHANGED <<keys, stamp, mtx>>

LockOld ==
    /\ DaemonGoes("lockEntry", "eraseEntry")
    /\ Lock("daemon")
    /\ UNCHANGED <<keys, stamp>>

EraseEntry ==
    /\ DaemonGoes("eraseEntry", "entries")
    /\ stamp' = [stamp EXCEPT ![<<daemon.key, daemon.id>>] = Absent]
    /\ UNCHANGED keys
    /\ Unlock

(* size() == 0, seen without mtx. *)
EndEntries ==
    /\ DaemonGoes("entries", IF Tracked(daemon.key) = {}
                             THEN "lockKey" ELSE "keys")
    /\ UNCHANGED <<keys, stamp, mtx>>

LockEmpty ==
    /\ DaemonGoes("lockKey", "eraseKey")
    /\ Lock("daemon")
    /\ UNCHANGED <<keys, stamp>>

(* The key goes with whatever its table holds by now. *)
EraseKey ==
    /\ DaemonGoes("eraseKey", "keys")
    /\ keys' = keys \ {daemon.key}
    /\ stamp' = Emptied(daemon.key)
    /\ Unlock

DaemonGetsMutex == LockOld \/ LockEmpty
DaemonGoesOn    == \/ BeginSweep
                   \/ EndDaemon
                   \/ EndSweep
                   \/ EraseEntry
                   \/ EndEntries
                   \/ EraseKey
                   \/ \E k \in Key : VisitKey(k)
                   \/ \E i \in ID : VisitEntry(i)
DaemonStep      == DaemonGetsMutex \/ DaemonGoesOn

Tick == now < MaxTime /\ now' = now + 1

-----------------------------------------------------------------------------
(* The two threads on their own: the process goes on for ever. *)
ThreadsNext ==
    \/ OwnerStep /\ UNCHANGED <<now, killed, daemon>>
    \/ DaemonStep /\ UNCHANGED <<now, killed, owner>>
    \/ Tick /\ UNCHANGED <<keys, stamp, mtx, killed, owner, daemon>>

ThreadsSpec == ThreadsInit /\ [][ThreadsNext]_threadVars

-----------------------------------------------------------------------------
(* Properties. *)

(* The unlocked reads of the two threads notwithstanding, a packet is       *)
(* handed to the application exactly when it is not in the table, and the  *)
(* table loses entries but never gains a wrong one (getPacket).            *)
Filter == INSTANCE DupeFilter
              WITH known   <- {p \in Packet : stamp[p] # Absent},
                   packet  <- owner.packet,
                   verdict <- CASE owner.at = "stampEntry" -> "accepted"
                                [] owner.at \in {"accepted", "dropped"} -> owner.at
                                [] OTHER -> "undecided"
FiltersDupes == Filter!Spec

Erased(p) == stamp[p] # Absent /\ stamp'[p] = Absent

(* The sweep never frees an entry whose time is being written, and what it *)
(* takes too early came after it had looked at the clock (reliableDaemon): *)
(* the entries it found are kept for their five seconds.                   *)
OldEntriesOnly ==
    [][\A p \in Packet : Erased(p) =>
          /\ stamp[p] # Unset
          /\ now - stamp[p] > Hold \/ stamp[p] >= daemon.curTime]_threadVars

(* "Seconds to hold onto a packet for tracking for": an entry the sweep    *)
(* takes for old, its time being written, is older than those five seconds *)
(* (the comparison of diff in reliableDaemon).                             *)
OldMeansFiveSeconds ==
    [][\A i \in ID :
          LET received == stamp[<<daemon.key, i>>]
          IN  VisitEntry(i) /\ daemon'.at = "lockEntry" /\ received # Unset
                  => now - received > Hold]_threadVars

(* "Clear out old tracked packets": a key that is erased takes no entry    *)
(* with it, as its entries were all old and erased before                  *)
(* (the test of size() in reliableDaemon).                                 *)
ErasedKeysAreEmpty ==
    [][EraseKey => Tracked(daemon.key) = {}]_threadVars
=============================================================================
