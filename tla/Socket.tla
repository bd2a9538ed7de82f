------------------------------- MODULE Socket -------------------------------
(***************************************************************************)
(* The Socket class every server and client of the game owns              *)
(* (src/socket.cpp): datagrams over UDP, a one byte packet id, a table of  *)
(* packets waiting for their ACK that a daemon thread sends again, and a   *)
(* table of the packets received lately, by which duplicates are dropped.  *)
(*                                                                         *)
(* Every node owns one socket.  The network may lose, duplicate, delay and *)
(* reorder datagrams.  Time is abstract: the daemon may send again, and a  *)
(* tracked packet may turn five seconds old and expire, at any moment.     *)
(***************************************************************************)
EXTENDS Integers, Sequences, FiniteSets

CONSTANTS Node,      \* the sockets, each known by its address
          Sender,    \* bound: the sockets whose owners send reliably
          MaxID,     \* largest packet id: 255, an unsigned char
          MaxSends,  \* bound: reliable messages a node sends
          RawIDs,    \* first bytes of the packets handed to plain Send
          Borrowed,  \* may a caller free the ip string it handed over?
          Mortal     \* the nodes whose process may be told to end

ASSUME SocketAssumption ==
    /\ Sender \subseteq Node
    /\ MaxID \in Nat \ {0}
    /\ MaxSends \in Nat
    /\ RawIDs \subseteq 0..MaxID
    /\ Borrowed \in BOOLEAN
    /\ Mortal \subseteq Node

VARIABLES packetID,         \* the id the next reliable packet gets
          reliablePackets,  \* packets waiting for their ACK
          receivedPackets,  \* <sender, id> pairs seen lately
          exiting,          \* has the process been told to end?
          net,              \* datagrams in flight
          sent,             \* history: destinations of a node's messages
          delivered,        \* history: messages an application got
          forgotten         \* history: pairs that were expired

socketVars == <<packetID, reliablePackets, receivedPackets, exiting>>
history    == <<sent, delivered, forgotten>>
vars       == <<socketVars, net, history>>

ID    == 0..MaxID
SeqNo == 1..MaxSends

(* seq is a ghost: it tells the messages of a node apart for ever, which   *)
(* their ids do not.  It is 0 in what plain Send sent.                     *)
Message  == [from : Node, to : Node, seq : 0..MaxSends]
Packet   == [id : ID, to : Node, seq : SeqNo, ip : BOOLEAN]
Track    == [from : Node, id : ID]
Datagram == [kind : {"DATA", "ACK"}, src : Node, dst : Node,
             id : ID, seq : 0..MaxSends]

Data(n, to, id, seq) ==
    [kind |-> "DATA", src |-> n, dst |-> to, id |-> id, seq |-> seq]
Ack(d) ==
    [kind |-> "ACK", src |-> d.dst, dst |-> d.src, id |-> d.id, seq |-> d.seq]
MessageOf(d) == [from |-> d.src, to |-> d.dst, seq |-> d.seq]
TrackOf(d)   == [from |-> d.src, id |-> d.id]

-----------------------------------------------------------------------------
(* packetID++ on an unsigned char. *)
MutNextIDWide(k) == k + 1
MutNextIDStuck(k) == k
MutNextIDEarly(k) == IF k >= MaxID - 1 THEN 0 ELSE k + 1
NextID(k) == IF k = MaxID THEN 0 ELSE k + 1

(* Id 0 marks a packet nobody acknowledges, so it is skipped. *)
Stamp(k) == IF k = 0 THEN NextID(k) ELSE k

(* The packets an acknowledgement erases: by id, whoever sent it. *)
MutAcknowledgedUpTo(n, d) == {p \in reliablePackets[n] : p.id <= d.id}
Acknowledged(n, d) == {p \in reliablePackets[n] : p.id = d.id}

MutIsDupeNever(n, d) == FALSE
IsDupe(n, d) == TrackOf(d) \in receivedPackets[n]

(* A received datagram leaves the network, or leaves a copy behind. *)
Rest(d) == {net, net \ {d}}

Init ==
    /\ packetID = [n \in Node |-> 1]
    /\ reliablePackets = [n \in Node |-> {}]
    /\ receivedPackets = [n \in Node |-> {}]
    /\ exiting = [n \in Node |-> FALSE]
    /\ net = {}
    /\ sent = [n \in Node |-> <<>>]
    /\ delivered = {}
    /\ forgotten = [n \in Node |-> {}]

-----------------------------------------------------------------------------
(* Sending. *)

(* Stamp the packet, remember it under its id (replacing whatever had that *)
(* id) and send it a first time.                                           *)
SendReliable(n, to) ==
    LET id  == Stamp(packetID[n])
        seq == Len(sent[n]) + 1
    IN  /\ n \in Sender
        /\ ~exiting[n]
        /\ to # n
        /\ seq <= MaxSends
        /\ packetID' = [packetID EXCEPT ![n] = NextID(id)]
        /\ reliablePackets' = [reliablePackets EXCEPT ![n] =
              {p \in @ : p.id # id}
                \cup {[id |-> id, to |-> to, seq |-> seq, ip |-> TRUE]}]
        /\ net' = net \cup {Data(n, to, id, seq)}
        /\ sent' = [sent EXCEPT ![n] = Append(@, to)]
        /\ UNCHANGED <<receivedPackets, exiting, delivered, forgotten>>

(* Send the bytes as they are: the first one is whatever the caller put    *)
(* there, and nobody answers for the packet.                               *)
Send(n, to, id) ==
    /\ ~exiting[n]
    /\ to # n
    /\ id \in RawIDs
    /\ net' = net \cup {Data(n, to, id, 0)}
    /\ UNCHANGED <<socketVars, history>>

-----------------------------------------------------------------------------
(* Receiving: getPacket, called by the loop of the owner. *)

ReceiveAck(n, d) ==
    /\ ~exiting[n]
    /\ d \in net /\ d.dst = n
    /\ d.kind = "ACK"
    /\ reliablePackets' = [reliablePackets EXCEPT ![n] =
                              @ \ Acknowledged(n, d)]
    /\ net' \in Rest(d)
    /\ UNCHANGED <<packetID, receivedPackets, exiting, history>>

(* A tracked packet is dropped, and not acknowledged again. *)
ReceiveDupe(n, d) ==
    /\ ~exiting[n]
    /\ d \in net /\ d.dst = n
    /\ d.kind = "DATA" /\ d.id # 0
    /\ IsDupe(n, d)
    /\ net' \in Rest(d)
    /\ UNCHANGED <<socketVars, history>>

(* Any other packet with an id is tracked, acknowledged and handed to the  *)
(* application.                                                            *)
ReceiveReliable(n, d) ==
    /\ ~exiting[n]
    /\ d \in net /\ d.dst = n
    /\ d.kind = "DATA" /\ d.id # 0
    /\ ~IsDupe(n, d)
    /\ receivedPackets' = [receivedPackets EXCEPT ![n] = @ \cup {TrackOf(d)}]
    /\ \E rest \in Rest(d) : net' = rest \cup {Ack(d)}
    /\ delivered' = delivered \cup {MessageOf(d)}
    /\ UNCHANGED <<packetID, reliablePackets, exiting, sent, forgotten>>

ReceivePlain(n, d) ==
    /\ ~exiting[n]
    /\ d \in net /\ d.dst = n
    /\ d.kind = "DATA" /\ d.id = 0
    /\ net' \in Rest(d)
    /\ UNCHANGED <<socketVars, history>>

Receive(n, d) == \/ ReceiveAck(n, d)
                 \/ ReceiveDupe(n, d)
                 \/ ReceiveReliable(n, d)
                 \/ ReceivePlain(n, d)

-----------------------------------------------------------------------------
(* reliableDaemon. *)

(* Where a resent packet goes: to its destination while the ip string is   *)
(* alive, and else to whatever the freed memory names: no node at all, or  *)
(* another host with that port open.                                       *)
MutResentNothing(n, p) == {{}}
Resent(n, p) ==
    IF p.ip THEN {{Data(n, p.to, p.id, p.seq)}}
            ELSE {{}} \cup {{Data(n, x, p.id, p.seq)} : x \in Node \ {n}}

Resend(n, p) ==
    /\ ~exiting[n]
    /\ p \in reliablePackets[n]
    /\ \E copy \in Resent(n, p) : net' = net \cup copy
    /\ UNCHANGED <<socketVars, history>>

(* The daemon erases an entry that is over five seconds old. *)
Forget(n, t) ==
    /\ ~exiting[n]
    /\ t \in receivedPackets[n]
    /\ receivedPackets' = [receivedPackets EXCEPT ![n] = @ \ {t}]
    /\ forgotten' = [forgotten EXCEPT ![n] = @ \cup {t}]
    /\ UNCHANGED <<packetID, reliablePackets, exiting, net, sent, delivered>>

-----------------------------------------------------------------------------
(* The owner and the network. *)

(* The caller frees the ip string of a packet that is still pending. *)
FreeIP(n, p) ==
    /\ Borrowed
    /\ p \in reliablePackets[n] /\ p.ip
    /\ reliablePackets' = [reliablePackets EXCEPT ![n] =
                              (@ \ {p}) \cup {[p EXCEPT !.ip = FALSE]}]
    /\ UNCHANGED <<packetID, receivedPackets, exiting, net, history>>

(* Kill: the daemon ends, and neither loop touches the socket again. *)
Kill(n) ==
    /\ n \in Mortal
    /\ ~exiting[n]
    /\ exiting' = [exiting EXCEPT ![n] = TRUE]
    /\ UNCHANGED <<packetID, reliablePackets, receivedPackets, net,
                   history>>

Lose(d) ==
    /\ d \in net
    /\ net' = net \ {d}
    /\ UNCHANGED <<socketVars, history>>

Next ==
    \/ \E n, to \in Node : SendReliable(n, to)
    \/ \E n, to \in Node, id \in RawIDs : Send(n, to, id)
    \/ \E n \in Node, d \in net : Receive(n, d)
    \/ \E n \in Node : \E p \in reliablePackets[n] : Resend(n, p) \/ FreeIP(n, p)
    \/ \E n \in Node : \E t \in receivedPackets[n] : Forget(n, t)
    \/ \E n \in Node : Kill(n)
    \/ \E d \in net : Lose(d)

Spec == Init /\ [][Next]_vars

-----------------------------------------------------------------------------
(* Fairness.  The daemon and the receive loop never stop while the process *)
(* runs; a datagram that is sent again and again gets through.             *)

Wanted == {m \in Message : m.from # m.to /\ m.seq # 0}

ResendOf(m) == \E p \in reliablePackets[m.from] :
                  p.seq = m.seq /\ p.to = m.to /\ Resend(m.from, p)
DataOf(m) == \E d \in net :
                /\ d.kind = "DATA" /\ MessageOf(d) = m
                /\ Receive(m.to, d)
AckOf(m) == \E d \in net :
                /\ d.kind = "ACK"
                /\ d.src = m.to /\ d.dst = m.from /\ d.seq = m.seq
                /\ Receive(m.from, d)
Fairness ==
    /\ \A m \in Wanted : /\ WF_vars(ResendOf(m))
                         /\ SF_vars(DataOf(m))
                         /\ SF_vars(AckOf(m))
    /\ \A n \in Node, t \in Track : WF_vars(Forget(n, t))

FairSpec == Spec /\ Fairness

-----------------------------------------------------------------------------
(* Properties. *)

TypeOK ==
    /\ packetID \in [Node -> ID]
    /\ reliablePackets \in [Node -> SUBSET Packet]
    /\ receivedPackets \in [Node -> SUBSET Track]
    /\ exiting \in [Node -> BOOLEAN]
    /\ net \in SUBSET Datagram
    /\ sent \in [Node -> Seq(Node)]
    /\ delivered \in SUBSET Message
    /\ forgotten \in [Node -> SUBSET Track]

IsPending(m) ==
    \E p \in reliablePackets[m.from] : p.seq = m.seq /\ p.to = m.to
WasSent(n, to, seq) ==
    seq \in 1..Len(sent[n]) /\ sent[n][seq] = to
IsSent(m) == WasSent(m.from, m.to, m.seq)

(* A message handed to SendReliable stays in the table of pending packets  *)
(* until the application it was addressed to has it: no acknowledgement,   *)
(* late, repeated or meant for another packet, makes the daemon give up a  *)
(* message that never arrived.                                             *)
NothingGivenUp ==
    \A m \in Message : IsSent(m) => IsPending(m) \/ m \in delivered

(* A packet that getPacket would drop as a duplicate is one: the           *)
(* application already had that very message, not merely one that carried  *)
(* the same id.                                                            *)
DupesWereDelivered ==
    \A d \in net :
        d.kind = "DATA" /\ d.seq # 0 /\ TrackOf(d) \in receivedPackets[d.dst]
            => MessageOf(d) \in delivered

(* Every acknowledgement still in flight that would erase a pending packet *)
(* answers the message in it, and not another one that had its id.         *)
AcksAnswerTheirPacket ==
    \A d \in net : \A p \in reliablePackets[d.dst] :
        d.kind = "ACK" /\ p.id = d.id => d.seq = p.seq /\ d.src = p.to

(* The application gets a message a second time only when its first copy   *)
(* was tracked for five seconds and expired: while a packet is tracked no  *)
(* retransmission reaches the application.                                 *)
RedeliveredOnlyAfterForgotten ==
    [][\A n \in Node, d \in net :
          ReceiveReliable(n, d) /\ d.seq # 0 /\ MessageOf(d) \in delivered
              => TrackOf(d) \in forgotten[n]]_vars

(* The ids come round after MaxID messages, whichever they are: only then   *)
(* do two messages of a node have the same one.                            *)
SameID(s, t) == s % MaxID = t % MaxID

(* A message is given up undelivered only if another message of its sender *)
(* has carried the same id: the byte may wrap over a packet that is still  *)
(* pending or tracked, but it harms no message whose id is its own         *)
(* (SendReliable replaces what has the id, getPacket drops what has it).   *)
GivenUpOnlyForItsID ==
    \A m \in Message :
        IsSent(m) /\ ~IsPending(m) /\ m \notin delivered
            => \E s \in 1..Len(sent[m.from]) \ {m.seq} : SameID(s, m.seq)

(* What SendReliable promises: every message handed to it is delivered,    *)
(* and its sender eventually stops sending it.                             *)
Channel == INSTANCE ReliableChannel WITH
    Message  <- Wanted,
    accepted <- {m \in Wanted : IsSent(m)},
    pending  <- {m \in Wanted : IsPending(m)},
    got      <- {m \in Wanted : m \in delivered}
ImplementsChannel == Channel!Spec

(* The safety half: a message leaves the table only once it was delivered, *)
(* is never delivered before it was sent, and never enters the table twice.*)
ImplementsChannelSafety == Channel!Safety

-----------------------------------------------------------------------------
(* The inductive invariant behind these properties, for the sockets that   *)
(* wrap no id, send no id they did not stamp and keep their ip strings.    *)

Regular == /\ MaxSends <= MaxID
           /\ RawIDs \subseteq {0}
           /\ ~Borrowed

(* The next id is the number of the next message, until the byte wraps. *)
IdsAreFresh ==
    \A n \in Node : /\ Len(sent[n]) <= MaxSends
                    /\ packetID[n] = NextID(Len(sent[n]))

PendingWasSent ==
    \A n \in Node : \A p \in reliablePackets[n] :
        /\ p.id = p.seq /\ p.ip
        /\ WasSent(n, p.to, p.seq)

DataWasSent ==
    \A d \in net : d.kind = "DATA" =>
        /\ d.id = d.seq
        /\ d.seq # 0 => WasSent(d.src, d.dst, d.seq)

AckedWasDelivered ==
    \A d \in net : d.kind = "ACK" =>
        /\ d.id = d.seq
        /\ [from |-> d.dst, to |-> d.src, seq |-> d.seq] \in delivered

TrackedWasDelivered ==
    \A n \in Node : \A t \in receivedPackets[n] :
        [from |-> t.from, to |-> n, seq |-> t.id] \in delivered

DeliveredIsTracked ==
    \A m \in delivered :
        /\ IsSent(m)
        /\ [from |-> m.from, id |-> m.seq]
              \in receivedPackets[m.to] \cup forgotten[m.to]

(* A socket never loses a message it answers for, because its pending      *)
(* packets, the datagrams in flight and the tracked ids all name messages  *)
(* by their ids without ambiguity.                                         *)
IInv == /\ TypeOK
        /\ IdsAreFresh
        /\ PendingWasSent
        /\ DataWasSent
        /\ AckedWasDelivered
        /\ TrackedWasDelivered
        /\ DeliveredIsTracked
        /\ NothingGivenUp

=============================================================================
