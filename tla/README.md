# A formal model of the SpaceQuest servers

SpaceQuest is a multiplayer space game. Its server side is a set of processes
(`server-master.cpp`, `server-login.cpp`, `server-user.cpp`,
`server-game.cpp`) and a test client (`client.cpp`) that talk over UDP through
a small reliability layer (`socket.cpp`). This directory models them in TLA+:
the modules are checked with TLC on small instances, and the guarantees that
matter most are proved with TLAPS for every value of their constants. Paths
below are relative to `src/`.

## The system

| Part | State it keeps | Operations | Correct when |
|---|---|---|---|
| Socket (`socket.cpp`) | next packet id (one byte), packets waiting for an ACK, `<sender, id>` pairs received lately | `SendReliable`, `Send`, `getPacket`, a daemon that resends every 250 ms and forgets pairs after 5 s, `Kill` | each reliable message is delivered and only then no longer resent; what is dropped as a dupe was delivered; ACKs hit the packet they answer |
| Master (`server-master.cpp`) | the registered game, login and user servers | registers a server (INITIALIZE), answers REQUEST_ADDRESS, announces its start through Redis | a request is answered with a server that exists |
| Login (`server-login.cpp`) | a FIFO of client requests | asks the master for a user server for each client, passes the answer to the oldest request | each client gets one address |
| User (`server-user.cpp`) | `usersInfo`, `pendingUsers`, `pendingRequests`, `shipBucket`, `frame` | joins and removes users, requests game servers (and again, in a daemon), passes commands on under the ship's id, sends the universe to one bucket per frame | every waiting user is covered by a request; commands move the sender's own ship; each user is served in one bucket, again and again |
| Game (`server-game.cpp`) | `entities`, `available`, `users` | JOIN, SELECT_SHIP, DISCONNECT, FIRE, flight commands, physics, writing the universe to Redis | an id names one client's ship; a place is reused only when free |
| Client (`client.cpp`) | `serverIP`, `active`, the command thread | login, join, ship selection, commands, SIGINT and SIGTERM | it comes to play, and does not end by itself |
| Ship (`ship.cpp`, `entity.cpp`, `bullet.cpp`) | position, speed, status bits, the time of its last shot | turn, accelerate, decelerate, fire, a move per frame | each stop undoes its start, in whatever order they arrive (of thrust, up to the rounding of floats); shots keep their distance; it stays within its circle and its speed |
| Universe (`server-game.cpp`: `updateUniverse`, `buildState`) | the entities and, in Redis, their string | a frame: move all, write all | the string says what the entities are; no two have one id |
| Life of a process (`initialize`, `cleanUp`, `sig_term_handler`, `reporterDaemon`, `requestDaemon` of each server) | `connection`, `exiting`, the threads, `mtx` | start, threads, Redis callbacks, SIGINT, SIGTERM | nothing uses the socket before it is there or after it is gone; the process ends when it is told to |

How a client comes to play: client → login: INITIALIZE; login → master:
REQUEST_ADDRESS; master → login → client: ADDRESS of a user server; client →
user: JOIN; user → master: REQUEST_ADDRESS; master → user: ADDRESS of a game
server; user → game: JOIN; game → user → client: JOINED; client → user → game:
SELECT_SHIP; game → user: ID (the ship's index plus one); user → client: READY.
From then on the client's commands travel client → user → game, and the
universe travels game → Redis → user → client.

What is hard here, and what the properties are for:

* **loss, duplication, reordering.** Some steps of the handshake use
  `SendReliable` (REQUEST_ADDRESS, JOIN, SELECT_SHIP, READY, the commands,
  DISCONNECT from user to game), others plain `Send` (ADDRESS, JOINED and ID
  from the game server, DISCONNECT from the client).
* **identity by small numbers.** A message is known to the sockets by a byte,
  a ship to the servers by its place in a vector. Both are reused.
* **staleness.** Answers of the master are matched with waiting users by order
  alone; users leave between a request and its answer; packets of a client's
  former life reach its present one; the socket keeps pointers to strings of its
  callers.
* **concurrency.** Each process has a main loop, a socket daemon, a reporter or
  request daemon and Redis callbacks over shared containers, hardly locked: the
  table of received packets is read without `mtx` and changed under it.
* **failure.** The master and the clients are restarted; the signal handlers
  clean up in the middle of anything.

`PROJECT.json` lists these hazards one by one, at their lines, with the
properties that watch them.

## The modules

The socket:

* **`ReliableChannel`**: what `SendReliable` promises, with neither ids,
  ACKs nor timers: a message is accepted, pending until it was delivered, and
  settled only after that. At-least-once: a second delivery is no step here.
* **`Socket`**: the `Socket` class at every node, over a network that loses,
  repeats and reorders. `SendReliable` and `Send` are the sending calls;
  `ReceiveAck`, `ReceiveDupe`, `ReceiveReliable` and `ReceivePlain` are the four
  ways through `getPacket`; `Resend` and `Forget` are the two halves of
  `reliableDaemon`; `Kill` is the shutdown; `FreeIP` is a caller whose string
  dies while the packet that points to it is pending; `Sender` bounds the nodes
  that send reliably. `net` is a set of
  datagrams; receiving one may leave it behind, so duplicates are there without
  counting them. Time is abstract: an entry may turn five seconds old at any
  moment, which is sound for safety and harder for the code than real time. The
  history variables `sent`, `delivered`, `forgotten` and the ghost `seq` of a
  datagram tell messages apart where the code cannot; no guard reads them but
  the bound on the number of messages. One step is one call.
* **`DupeFilter`**: what the dupe detection promises, without threads or clocks:
  a packet is handed on exactly when it is not known, and known ones may be
  forgotten at any time.
* **`SocketThreads`**: below the grain of `Socket`, the two threads of one
  socket on its table of received packets. A step is what one statement of
  `getPacket` or of `reliableDaemon` does to the table or to `mtx`; the time of
  an entry, the clock and the daemon's `curTime` are there. The variables
  `owner` and `daemon` are the two program counters with the local variables.
  An iteration over an `unordered_map` visits the entries in any order and may
  miss any of them.

The processes:

* **`Network`**: the sockets as the handlers above them see them: a bag of
  messages in flight, in no order. A reliable message stays until it is
  received, and comes again if its command is in `Redelivered`
  (`RedeliveredOnlyAfterForgotten` says why that can happen at all); a plain one
  may be lost if `Lossy`. A reliable message to a process is lost only with its
  sender.
* **`MasterServer`**, **`LoginServer`**, **`UserServer`**, **`GameServer`**,
  **`GameClient`**: one module per process, one action per case of its `switch`
  (two where the code's branches differ), named after the function called. A
  message is a record of destination, command, the client or server it is about
  and a ship's id. Handlers run to completion, as the single threaded loops do.
  The user server's request daemon is `RetryRequest`. Undefined behaviour (the
  front of an empty queue, a null `UserInfo`, the first of no servers) stops the
  process that meets it and sets `userFault` or `masterFault`. The game server's
  address is not kept: `processAddressResponse` stores a string that begins with
  the packet's header, a zero byte, so the user server sends to no host by name
  (0.0.0.0) and reaches a game server on its own. `FIRE` stands for
  all the commands that are passed on alike; whether a shot is fired is left
  open in `Shoot` here and decided in `Universe`.
* **`SpaceQuest`**: master, user server, game server, clients and the network
  together, losses, the fairness, and the properties that relate several
  processes. The login is an address of a user server that is on its way as
  soon as a client starts.
* **`SpaceQuestLogin`**: the same with the login server: its registration, the
  client's INITIALIZE, the FIFO of requests, the master's answers. It is shown to
  implement `SpaceQuest` (`ImplementsSpaceQuest`): each login that waits or is
  on its way counts as that address.

Flight:

* **`Ship`**: the controls of `ship.cpp` as operators on one ship. Angles count
  in steps of `turnSpeed` and time in frames. Thrust, `accSpeed` and `deltaSpeed`
  are floats: they count in units of the last place of `deltaSpeed` (2^-31, of
  which 0.003f has 6442451), and `Rounded` takes a sum to the nearest float, ties
  to the even one (`Mantissa`, `Grains`). `va` is a float of whole degrees, exact
  as long as it stays below 2^23 steps. Where a ship is and which way it drifts is
  left out, so thrust changes the speed, in whole units, by anything up to itself.
* **`Universe`**: the vector of entities: `spawnShips`, `handleFire`,
  `updateUniverse` and `buildState` down to the bytes of each chunk, ids and
  places cut to two of them. What the model leaves out of an entity (place, type,
  a bullet's status and angle) is a parameter of the string.
* **`Flight`**: one player's controls through two reliable hops, in any order
  and with up to `MaxRepeats` repetitions, which `repeats` counts, and the frames
  of the game server. The player goes on steering after them. The weapon byte
  is what the buffer held (`client.cpp` sends FIRE without one).

Lives:

* **`ServerLife`**: one server process of any of the four kinds, from start to
  end: `StartUp` and `CleanUp` are the orders in which each kind does things, and
  the socket's two threads (`SocketThreads`), the reporter and the request
  daemon, the callbacks of Redis, SIGINT and SIGTERM are its steps. SIGINT runs
  its handler on the main thread, wherever that is, so nothing of the main
  thread goes on after it; a thread blocked on `mtx` stays blocked if the main
  thread was interrupted while it held it.

Proofs: **`SocketProofs`**, **`SocketThreadsProofs`**, **`ServerLifeProofs`**,
**`SpaceQuestProofs`** (with the lemmas on the bag of messages), on top of it
**`LoginProofs`**, **`StayingProofs`** and **`JoiningProofs`**, and
**`FlightProofs`**. The **`MC...`** modules hold the values TLC needs, and the
symmetry sets. Symmetry is used by runs without temporal properties under
fairness only; the constants that break it (a mortal node) switch it off.

`PROJECT.json` maps each definition to the lines it models.

## The runs

| Run | What it asks | Instance |
|---|---|---|
| `MCSocketSafety` | Do ids and ACKs ever confuse two messages? Is `IInv` an invariant? Is every step one of `ReliableChannel`? | 2 sockets, 2 reliable messages each, ids 0..2 |
| `MCSocketWrap` | What remains when the byte wraps over pending and tracked packets, strings die early, and a process ends? | 2 sockets, one sends 4 reliable messages, ids 0..2, the other may end |
| `MCSocketLive` | Is each message delivered and then settled? | 2 sockets, 1 message each, fairness |
| `MCSpaceQuestPlay` | With the login server: do clients come to play, are they served for ever in balanced buckets, do their shots come from their own ships, does every login have its answer, is it all an implementation of `SpaceQuest`, is there a deadlock? | 2 clients, 2 buckets, 1 spawned ship, 1 bullet, no loss, fairness |
| `MCSpaceQuestLeave` | What survives clients that leave at any moment, lost packets, late answers and repeated requests? | 2 clients, at most 3 requests |
| `MCSpaceQuestRejoin` | What survives a client that comes back at its address and a master that is restarted, with losses and repeated requests? | 1 client started twice, 1 restart of the master, at most 3 requests |
| `MCServerLife` | Do the threads of each server keep to their table, their socket and their end? | each of the 4 servers, 1 sender, 1 id, 3 moments, entries held for 1, fairness |
| `MCFlight` | Does a ship turn, thrust, brake and come to rest as its player's hands say, does its angle stay in the circle? | a circle of 3, one turn, thrust and brake, 2 packets on their way, 1 repetition, a thrust of 3 units and floats of 3 bits, fairness |
| `MCFlightLong` | Are shots spaced, ids distinct, the string readable, beyond the ids that fit two bytes? | 17 entities, bytes of 4 values (16 ids), 2 packets on their way, 1 repetition |

Three runs show what the code does otherwise than its comments say; each is a
short trace TLC prints:

| Run | Shows |
|---|---|
| `MCSocketStream` | `sendUniverse` puts `stateCounter` where the packet id belongs; the receiver then takes a reliable packet with that id for a dupe, although it never had it |
| `MCSocketThreads` | a packet tracked after the daemon looked at the clock has a negative age, which is unsigned; the sweep takes it for more than five seconds old |
| `MCSpaceQuestGone` | a user that left is still pending; its address is stored through a null pointer |

Violations met while modelling and kept out of the runs; each can be had again
by changing a constant:

* `Borrowed = TRUE` with three nodes: `NothingGivenUp` fails. The pending packet
  points to a string `processAddressResponse` freed; the packet is resent
  elsewhere, acknowledged from there and given up. (With two nodes, as in
  `MCSocketWrap`, there is no elsewhere.)
* `MaxSends > MaxID`: `NothingGivenUp` fails, since `SendReliable` replaces a
  pending packet when the byte wraps. `GivenUpOnlyForItsID` (`MCSocketWrap`) says
  which messages are harmed by that.
* clients that leave, as in `MCSpaceQuestLeave`: `CommandsReachTheirShip` fails. A FIRE of a client that left is still on its way when its place is
  another client's.
* `Slow = TRUE` with one client that stays and no loss: `AddressFindsItsUser` fails. A
  request whose answer is late is repeated and not forgotten; the second answer
  finds no pending user, and the front of an empty queue is used.
* `Redelivered = {"DISCONNECT"}`: `FreePlacesAreFree` fails, its first part
  (`AvailableIsUnused`) too. A DISCONNECT delivered twice lists a place twice, so
  that one ship is given to two clients.
* one client, `MaxStarts = 2`, `Interruptible = TRUE`: `JoinIgnoredForUsersOnly`
  fails. READY for a user that left inserts a null user, and the address can
  never join again.
* `Redelivered = {"SELECT_SHIP"}`: `ServedOnce` fails. A SELECT_SHIP delivered
  again gives the client a second ship and puts the user into a second bucket.
* in `SocketThreads`, `ErasedKeysAreEmpty` fails: the daemon sees a key empty before
  it takes `mtx`, and erases it with the entry that was written in between.
* `MaxOnWay = 3` with thrust alone (`ThrustOnly`), `MaxRepeats = 0`: `ThrustEnds`
  fails. Three presses overtake their releases, the third float sum is rounded,
  and a residue is left that `UpdateSpeed` goes on to apply.
* in `ServerLife`, the login and the user server may be called back by Redis
  before they have a socket (`GameHasConnection` is proved for the game server
  only), the user server may send through its deleted socket again and again
  (`OneLateSend` excludes it), the callbacks of Redis, which look at no flag, may
  use the freed socket of any server that has one (`OneLateSend` counts the sends
  of the server's own threads only), SIGINT between the handler and the threads joins
  a null thread, and SIGINT while the main thread holds `mtx` may leave the
  process waiting for ever (`InterruptEnds` excludes it).

**Bounds.** `MaxSends`, `MaxID`: two messages per socket let two packets be
pending in both directions, their ACKs be late and repeated, and their ids
collide if anything could make them; with one, an ACK has nothing else to
erase. The proofs take over beyond that. `MaxCopies`: equal messages in flight,
1 or 2. `MaxRequests`: requests the user server counts, so 3 allows a retry for
each of two users. `MaxShip`: ship ids; two clients need at most two of their
own, and one more leaves room for a spawned ship or a bullet. `MaxBullets`: one
bullet already takes a place between ships. `MAX_BUCKETS`: 2 instead of 5, the
fewest that have a least and a first. `MaxStarts`: 2, the client's former and
its present life. `MaxMasterStarts`: 1. A bound is a guard of its action, and
where it cuts a message off, that message stays in flight. `MaxTime`, `Hold`:
entries held for one moment of three turn old, stay young and are younger than
a sweep. `Sender`: in `MCSocketWrap` one node
sends, so that four messages over two ids fit. `Slow = FALSE`, no answer is
late, is allowed only where none can be lost (`PreparedAssumption`): a lost
ADDRESS always makes the daemon ask again. `Circle`, `FireRate`, `Byte`: the
code's 180, 60 and 256, small enough that every angle and edge of a byte is met: the
packets on their way and the repetition of `MCFlight` add up to its circle, the
most that `FlightTypeCorrect` allows, and the looks
of `UniverseIsReadable` are at the edges of a byte and of two. `DeltaSpeed`,
`Mantissa`, `Grains`: the code's 6442451, 2^24 and the powers of two; 3, 8 and
{1, 2, 4} stand in the same relation: two steps fit the mantissa, three need a
grain of two and do not fit it (the sums are 3, 6, 8 on the way up and 5, 2, -1 on
the way down, as the code's are up to the last place). `MaxSpeed`: one step is enough
for a brake that takes all or nothing. `MaxOnWay`: 2 packets on their way overtake
each other on a hop or are spread over both; 3 are the fewest that a sum of
thrust is rounded for, which is why `ThrustBalances` holds for 2. `MaxRepeats`: in the code each lost ACK may repeat a packet,
without end, and each repetition of a turn may leave one step in `va` for good;
`TurnsBalance` bounds the drift by their number. `ThrustBalances`,
`BrakeFollowsInOrder` and `HeldBrakeStops` say nothing of what comes after a
repetition. `MaxEntities`: 17 in
`MCFlightLong`, one more than bytes of 4 values have ids for; without shots, the
ships alone.

**Deadlock.** `MCSpaceQuestPlay`, the runs of `Flight` and those of
`SocketThreads` check it. The
socket runs stop when their owners have nothing left to send, the other runs of
`SpaceQuest` when a server has met undefined behaviour or all clients have left,
and a process of `ServerLife` when it has ended, or waits for `mtx` for ever.

**Fairness.** `Socket`: the daemon's loop never ends while the process runs, so
a pending packet is resent and an old entry expires (weak fairness); a datagram
sent again and again gets through in the end (strong fairness of its
reception), which is what a retransmission protocol assumes of UDP.
`SpaceQuest`, `SpaceQuestLogin`: each process polls its socket in every turn of its loop and the
user server moves to the next frame (weak fairness). The queue of a UDP socket
is read in order, so the endless commands of clients that play do not starve the
finitely many messages of a handshake: weak fairness is stated for the two
kinds apart. No fairness is assumed of clients starting, being interrupted or
sending commands. `ServerLife`: each thread goes on when it can (weak fairness),
and one that waits for `mtx` gets it if it is free again and again (strong
fairness of the two kinds of `lock`): the other thread holds it for a few
statements and the daemon sleeps a quarter of a second between sweeps. No signal
and no callback is assumed to come. `Flight`: frames go by, and the oldest
packet of each hop is taken in the end (weak fairness), as it is resent until it
is; nothing is assumed of the player.

**Properties** are stated, with the behaviour they are about, at the end of
each module that has any. For each property `PROJECT.json` names a plausible
bug (`Mut...`, next to the definition it changes) that makes it fail.

## What is proved

Each theorem holds for every value of the constants, under the module's named
assumptions and those given here.

**The socket** (`SocketProofs`), for any set of nodes:

* `SocketTypeCorrect`, type correctness, needs only `SocketAssumption`. It
  covers wrapped ids, freed strings and ended processes.
* the others hold for `Regular` sockets: `MaxSends <= MaxID` (no id is used
  twice), `RawIDs \subseteq {0}` (plain packets carry first byte 0) and
  `~Borrowed` (ip strings outlive their packets). Each of the three is needed:
  see the violations above.

None of the properties is inductive: nothing in the state says that an ACK
answers the packet it would erase. `IInv` adds that:

* `IdsAreFresh`: the next id is the number of messages sent plus one;
* `PendingWasSent`, `DataWasSent`: a pending packet's or a datagram's id *is*
  its message's number, and that message was sent to that destination;
* `AckedWasDelivered`: the message with an ACK's id was delivered;
* `TrackedWasDelivered`, `DeliveredIsTracked`: a tracked pair names a delivered
  message, and a delivered one is tracked or was forgotten;
* `NothingGivenUp` itself.

So an ACK of id *i* to node *n* concerns the only message *n* ever stamped with
*i*, and that was delivered (`NothingIsGivenUp`, `AcksAreExact`); a tracked
`<sender, i>` likewise (`OnlyDupesAreDropped`); and a delivered message that is
not tracked was forgotten (`NoRedeliveryWhileTracked`). `SocketImplementsChannel`
maps `accepted`, `pending` and `got` to the messages sent, pending and delivered,
and shows each step of `Socket` to be a step of `ReliableChannel` or a stutter.

**The two threads** (`SocketThreadsProofs`), for any senders, ids and clock.
`ThreadsInv` adds to the types and to `HoldersOnly`: what the owner found absent
stays absent until it adds it, since the daemon only takes away (`OwnerInv`); an
entry without a time is the one the owner is writing (`TableInv`); and what the
daemon goes on to erase was old when it looked, or came after it had looked at
the clock (`DaemonInv`). From it follow `MutexIsKept`, `SweepTakesOldEntries`
and, by a case for each statement, `ThreadsFilterDupes`: the unlocked reads
notwithstanding, the threads implement `DupeFilter`.

**A server's life** (`ServerLifeProofs`), for each kind of server, any senders,
ids and clock. A step of the process is one of the socket's threads, or changes
no more of theirs than `killed`, so `LifeSweepsOldEntries` and `LifeFiltersDupes`
follow from the lemmas above. `LifeInv` adds how far `cleanUp` must have come for
what it has done (`EndInv`), that a game server does nothing before it has its
socket (`GameInv`), and that a reporter about to send has not sent late
(`ReporterInv`); it gives `LifeTypeCorrect`, `DaemonIsJoined`, `GameIsConnected`
and `OneSendIsLate` (of the server's own threads; what Redis calls back is not
counted).

**The processes** (`SpaceQuestProofs`), for any clients, ships, buckets and
requests, with losses, interrupts, restarts and faults:

* `SpaceQuestTypeCorrect` and `WaitingUsersAreCovered`, from `TypeInv`: only
  proper messages are ever in flight (`FlightInv`), every variable has its type,
  and waiting users are covered. The last is part of it because
  `pendingRequests` would otherwise fall below zero.
* `UsersSteerTheirOwn` and `FreePlacesStayFree`, if no DISCONNECT is redelivered
  (without that `FreePlacesAreFree` fails, see above). `PlacesInv`: the id of a ship
  has one holder at a time, which is the user that has it, the ID packet that
  brings it, the DISCONNECT that gives it back, or the queue of free places; and
  it is the id of that holder's ship. Each step hands an id on or loses it.

**Questions and answers** (`LoginProofs`), with the login server:

* `LoginTypeCorrect` and `LoginAnswersAreAwaited`: `AllInv` counts the questions
  and answers on their way, which never outnumber the requests, whatever is lost.
* `LoginsAreAnswered`, if no packet is lost, the master is not restarted and all
  servers are registered before the first login: then they are exactly as many
  (`MatchedInv`), since a login that comes to the master finds what
  `RegisteredInv` says is registered.
* `QuestionsAreCounted` and, with the login server, `LoginQuestionsAreCounted`, if
  no question is delivered twice (`AskedOnce`): the questions of the user server and
  the answers to it never outnumber `pendingRequests`, so `processAddressResponse`
  pops a request that is there. Repeated requests, losses, leaving clients and
  restarts of the master are allowed. That an answer finds a *user* is not true
  with repeated requests (`AddressFindsItsUser`, above).
* `LoginImplementsSpaceQuest`: every step of `SpaceQuestLogin` is, seen without
  the login server, a step of `SpaceQuest` or a stutter. It takes what makes the
  login invisible (`Abstractable`): a master that knows all servers from the
  start and is not restarted, a login that is not delivered twice, and
  `MaxStarts <= MaxCopies`, room for an address for each start. The network
  without the packets of logins is known by counting (`SeenInv`: a packet counts
  as often as it is in flight, an address of a client once more for each login of
  it), and `RoomInv` bounds the addresses of a client by its starts. The values
  of `MCSpaceQuestPlay` meet these hypotheses.

**Clients that stay** (`StayingProofs`), if clients are not interrupted:

* `CommandsComeHome`: `ShipsInv` says that no DISCONNECT is in flight, no place
  is free, and each id in a user, an ID packet or a command is the place of a
  ship made for its client.
* `LoadIsBalanced`: the first bucket with the fewest users exists for any number
  of buckets (by the well-foundedness of the naturals), and one more user there
  keeps all within one of each other (`LoadInv`).

**The way to a ship** (`JoiningProofs`), if no client is started twice and no
packet of its handshake is delivered twice, with losses, restarts of the master
and clients that leave at any moment: `ClientsDoNotAbort` and
`PlayersAreServedOnce`. `JoinInv`: a client is carried by at most one thing at a
time, a packet of its handshake, of which there is one copy, or one place in
`pendingUsers`; what it has heard and what the user server knows of it fit how far
that has come; and a user is in one bucket if it has a ship, in none otherwise.

**Flight** (`FlightProofs`), for any circle, speeds, fire rate, spawned ships and
controls:

* `IdsAreDistinct` and `ShotsKeepTheirDistance`. `EntitiesInv`: spawned ships are
  numbered from 0 and all others by their place; every bullet is at least as old
  as its ship has waited since its last shot; `ShotsAreSpaced` itself. With
  `WayInv`, that only packets of the player are on their way, it is inductive.
* `TurnsAgree`: `TurnInv` says that the ship was told what the player does but for
  the packets on their way, counted per command, and off by at most one step for
  each packet that came once more. It bounds these numbers too, as
  `updateUniverse` can only turn a ship by so much.
* `ThrustAgrees`, if `MaxOnWay * DeltaSpeed <= Mantissa`: the same sum of floats is
  exact while no packet comes twice and no more steps of thrust than the mantissa
  holds can be on their way (`ThrustInv`; in the code, two). `ThrustEnds`, which fails
  for three (see above), shows why that is needed.
* `FlightTypeCorrect`, if `MaxOnWay + MaxRepeats <= Circle`. `AnglesInv`: every ship's
  angle is within the circle before each frame. `updateUniverse` corrects an angle
  by one circle only, so a ship told to turn by more steps than a circle has would
  leave it for good. In the code, where a circle has 180 steps, as many packets
  would have to be on their way or have come twice.
* `BrakeFollows`: `BrakeInv` says that the last brake packet on its way tells
  whether the player brakes, the packets to the user server being later than
  those to the game server, and the ship knows if there is none.
* `UniverseCanBeRead`, under the same hypothesis as the types: the chunk of the
  n-th entity lies where the reader looks for it, and a number is its two digits to
  the base `Byte`, modulo its square. The number of entities is not bounded:
  ids and places beyond two bytes are read cut, as they are written. The string is a
  flattened sequence of chunks of any length; the induction over it is a least
  counterexample, from the well-foundedness of the naturals.

Model-checked only: liveness (`ImplementsChannel`, `ClientsComeToPlay`,
`PlayersAreServed`, `HeldBrakeStops`, `PacketsAreDecided`, `InterruptEnds`), since
ENABLED, which fairness is made of, is beyond the prover. The safety part of
`ImplementsChannel` is proved (`SocketImplementsChannel`).

## Not modelled

* positions, directions of drift and collisions (`checkCollisions` changes
  nothing; `Ship::CheckCollide` has no return statement);
* the extra `updateUniverse` that a SELECT_SHIP triggers, which moves all ships
  by one more frame;
* which entity a client takes an id for when more than 2^16 have been made
  (entities are never removed) and the ids on the wire repeat;
* the limit on the size of a datagram: the universe of 625 ships is larger than
  `MAX_PACKET_SIZE` receivers read;
* the daemon's and the owner's unlocked use of `_reliablePackets`, and the two
  threads' of `pendingRequests`: undefined behaviour inside single statements.
  For the same reason `SocketThreads` leaves out that an iterator made invalid
  by a rehash may crash the process;
* restarts of the user and the game server, and of a socket (ids that start
  again at 1);
* `server.cpp`, `server_backup.cpp`, `connection.cpp` (an earlier server, not
  linked), `server-load.cpp`, `clients.cpp`, `test.cpp`, `t.cpp`, `test/`
  (utilities, experiments and vendored packages).

## Plan

What is left, in this order:

1. restarts of a process in `Socket`: ids that start again at 1 while peers
   still track those of the former life;
2. `ServedOnce` and `NoClientAborts` for clients that are started again, and
   `CommandsReachTheirShip` for clients that leave: which late packets must be
   excluded, and whether the code excludes them;
3. several players in `Flight`, so that a STOP_TURN of a former user may reach
   the new ship at its place.
