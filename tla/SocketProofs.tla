---------------------------- MODULE SocketProofs ----------------------------
(***************************************************************************)
(* Proofs about Socket.  Type correctness holds for every value of the     *)
(* constants; the rest for Regular sockets: at most MaxID messages, so     *)
(* that no id is used twice, plain packets with first byte 0, and ip       *)
(* strings that outlive the packet.                                        *)
(***************************************************************************)
EXTENDS Socket, TLAPS

(* The packet id is a byte: counting it up never leaves 0..MaxID. *)
LEMMA NextIDType ==
    ASSUME NEW k \in ID PROVE NextID(k) \in ID
BY SocketAssumption DEF NextID, ID

(* The id a packet is stamped with is a byte too, and never 0. *)
LEMMA StampType ==
    ASSUME NEW k \in ID PROVE Stamp(k) \in ID \ {0}
BY SocketAssumption DEF Stamp, NextID, ID

(* What a received datagram gives rise to has its type: the ACK getPacket  *)
(* sends, the message it hands over, the entry it tracks.                  *)
LEMMA ReceivedTypes ==
    ASSUME NEW d \in Datagram
    PROVE  /\ Ack(d) \in Datagram
           /\ MessageOf(d) \in Message
           /\ TrackOf(d) \in Track
BY DEF Datagram, Ack, MessageOf, TrackOf, Message, Track

(* A socket as setDefaults leaves it has its type. *)
LEMMA TypeInit == Init => TypeOK
<1>1. SUFFICES ASSUME Init PROVE TypeOK
  OBVIOUS
<1>2. 1 \in ID
  BY SocketAssumption DEF ID
<1>3. <<>> \in Seq(Node)
  OBVIOUS
<1>4. QED
  BY <1>1, <1>2, <1>3 DEF Init, TypeOK

(* Every call of Socket, the daemon and the network preserve the types. *)
LEMMA TypeNext == TypeOK /\ [Next]_vars => TypeOK'
<1> SUFFICES ASSUME TypeOK, [Next]_vars PROVE TypeOK'
  OBVIOUS
<1>1. ASSUME NEW n \in Node, NEW to \in Node, SendReliable(n, to)
      PROVE  TypeOK'
  <2> DEFINE id  == Stamp(packetID[n])
             seq == Len(sent[n]) + 1
             p   == [id |-> id, to |-> to, seq |-> seq, ip |-> TRUE]
  <2>1. id \in ID /\ NextID(id) \in ID
    BY StampType, NextIDType DEF TypeOK
  <2>2. seq \in SeqNo
    BY <1>1, SocketAssumption DEF SendReliable, SeqNo, TypeOK
  <2>3. p \in Packet
    BY <2>1, <2>2 DEF Packet
  <2>4. Data(n, to, id, seq) \in Datagram
    BY <2>1, <2>2 DEF Data, Datagram, SeqNo
  <2>5. packetID' \in [Node -> ID]
    BY <1>1, <2>1 DEF SendReliable, TypeOK
  <2>6. reliablePackets' \in [Node -> SUBSET Packet]
    BY <1>1, <2>3 DEF SendReliable, TypeOK
  <2>7. net' \in SUBSET Datagram
    BY <1>1, <2>4 DEF SendReliable, TypeOK
  <2>8. sent' \in [Node -> Seq(Node)]
    BY <1>1 DEF SendReliable, TypeOK
  <2>9. QED
    BY <1>1, <2>5, <2>6, <2>7, <2>8 DEF SendReliable, TypeOK
<1>2. ASSUME NEW n \in Node, NEW to \in Node, NEW id \in RawIDs,
             Send(n, to, id)
      PROVE  TypeOK'
  <2>1. Data(n, to, id, 0) \in Datagram
    BY SocketAssumption DEF Data, Datagram, ID
  <2>2. QED
    BY <1>2, <2>1 DEF Send, TypeOK, socketVars, history
<1>3. ASSUME NEW n \in Node, NEW d \in net, Receive(n, d) PROVE TypeOK'
  <2>1. d \in Datagram
    BY DEF TypeOK
  <2>2. CASE ReceiveAck(n, d)
    BY <2>2 DEF ReceiveAck, Rest, TypeOK, history
  <2>3. CASE ReceiveDupe(n, d)
    BY <2>3 DEF ReceiveDupe, Rest, TypeOK, socketVars, history
  <2>4. CASE ReceiveReliable(n, d)
    BY <2>1, <2>4, ReceivedTypes DEF ReceiveReliable, Rest, TypeOK
  <2>5. CASE ReceivePlain(n, d)
    BY <2>5 DEF ReceivePlain, Rest, TypeOK, socketVars, history
  <2>6. QED
    BY <1>3, <2>2, <2>3, <2>4, <2>5 DEF Receive
<1>4. ASSUME NEW n \in Node, NEW p \in reliablePackets[n], Resend(n, p)
      PROVE  TypeOK'
  <2>1. p \in Packet
    BY DEF TypeOK
  <2>2. \A x \in Node : Data(n, x, p.id, p.seq) \in Datagram
    BY <2>1, SocketAssumption DEF Packet, Data, Datagram, SeqNo
  <2>3. \A copy \in Resent(n, p) : copy \subseteq Datagram
    BY <2>1, <2>2 DEF Resent, Packet
  <2>4. QED
    BY <1>4, <2>3 DEF Resend, TypeOK, socketVars, history
<1>5. ASSUME NEW n \in Node, NEW p \in reliablePackets[n], FreeIP(n, p)
      PROVE  TypeOK'
  <2>1. p \in Packet
    BY DEF TypeOK
  <2>2. [p EXCEPT !.ip = FALSE] \in Packet
    BY <2>1 DEF Packet
  <2>3. QED
    BY <1>5, <2>2 DEF FreeIP, TypeOK, history
<1>6. ASSUME NEW n \in Node, NEW t \in receivedPackets[n], Forget(n, t)
      PROVE  TypeOK'
  BY <1>6 DEF Forget, TypeOK
<1>7. ASSUME NEW n \in Node, Kill(n) PROVE TypeOK'
  BY <1>7 DEF Kill, TypeOK, history
<1>8. ASSUME NEW d \in net, Lose(d) PROVE TypeOK'
  BY <1>8 DEF Lose, TypeOK, socketVars, history
<1>9. CASE UNCHANGED vars
  BY <1>9 DEF vars, TypeOK, socketVars, history
<1>10. QED
  BY <1>1, <1>2, <1>3, <1>4, <1>5, <1>6, <1>7, <1>8, <1>9 DEF Next

(* The variables keep their types, whatever the constants: in particular   *)
(* packetID is always a byte, also after it wraps (packetID++ in           *)
(* SendReliable).                                                          *)
THEOREM SocketTypeCorrect == Spec => []TypeOK
<1>1. QED
  BY TypeInit, TypeNext, PTL DEF Spec

-----------------------------------------------------------------------------
(* Regular sockets. *)

(* While ids do not wrap, message number k + 1 is stamped with k + 1. *)
LEMMA StampIsFresh ==
    ASSUME Regular, NEW k \in Nat, k < MaxSends
    PROVE  /\ Stamp(NextID(k)) = k + 1
           /\ NextID(k) \in ID
BY SocketAssumption DEF Regular, Stamp, NextID, ID

(* A socket as setDefaults leaves it answers for nothing yet. *)
LEMMA InvInit == Init => IInv
<1>1. SUFFICES ASSUME Init PROVE IInv
  OBVIOUS
<1>2. TypeOK
  BY <1>1, TypeInit
<1>3. IdsAreFresh
  BY <1>1, SocketAssumption DEF Init, IdsAreFresh, NextID
<1>4. PendingWasSent /\ TrackedWasDelivered
  BY <1>1 DEF Init, PendingWasSent, TrackedWasDelivered
<1>5. DataWasSent /\ AckedWasDelivered /\ DeliveredIsTracked
  BY <1>1 DEF Init, DataWasSent, AckedWasDelivered, DeliveredIsTracked
<1>6. NothingGivenUp
  BY <1>1 DEF Init, NothingGivenUp, IsSent, WasSent, Message
<1>7. QED
  BY <1>2, <1>3, <1>4, <1>5, <1>6 DEF IInv

(* Sending: message number seq of n is new, its id is seq, and no pending  *)
(* packet has that id.                                                     *)
LEMMA SendFacts ==
    ASSUME Regular, IInv, NEW n \in Node, NEW to \in Node,
           SendReliable(n, to), NEW seq, seq = Len(sent[n]) + 1
    PROVE  LET p == [id |-> seq, to |-> to, seq |-> seq, ip |-> TRUE]
           IN  /\ seq <= MaxSends /\ seq \in Nat \ {0}
               /\ Stamp(packetID[n]) = seq
               /\ Len(sent'[n]) = seq
               /\ \A k \in Node \ {n} : sent'[k] = sent[k]
               /\ \A f \in Node : \A t, k :
                     /\ WasSent(f, t, k) => WasSent(f, t, k)'
                     /\ WasSent(f, t, k)' =>
                           WasSent(f, t, k) \/ <<f, t, k>> = <<n, to, seq>>
               /\ WasSent(n, to, seq)' /\ \A t : ~WasSent(n, t, seq)
               /\ reliablePackets'[n] = reliablePackets[n] \cup {p}
               /\ \A k \in Node \ {n} :
                     reliablePackets'[k] = reliablePackets[k]
<1> USE DEF IInv
<1>1. /\ sent[n] \in Seq(Node) /\ Len(sent[n]) \in Nat
      /\ seq <= MaxSends /\ seq \in Nat \ {0}
  BY DEF SendReliable, TypeOK
<1>2. Stamp(packetID[n]) = seq
  BY <1>1, StampIsFresh, SocketAssumption DEF IdsAreFresh
<1>3. /\ Len(sent'[n]) = seq
      /\ sent'[n][seq] = to
      /\ \A k \in 1..Len(sent[n]) : sent'[n][k] = sent[n][k]
      /\ \A m \in Node \ {n} : sent'[m] = sent[m]
  BY <1>1 DEF SendReliable, TypeOK
<1>4. ASSUME NEW f \in Node, NEW t, NEW k
      PROVE  /\ WasSent(f, t, k) => WasSent(f, t, k)'
             /\ WasSent(f, t, k)' => WasSent(f, t, k) \/ <<f, t, k>> = <<n, to, seq>>
  <2>1. CASE f = n
    BY <1>1, <1>3, <2>1 DEF WasSent
  <2>2. CASE f # n
    BY <1>3, <2>2 DEF WasSent
  <2>3. QED
    BY <2>1, <2>2
<1>5. WasSent(n, to, seq)' /\ \A t : ~WasSent(n, t, seq)
  BY <1>1, <1>3 DEF WasSent
<1>6. \A q \in reliablePackets[n] : q.id # seq
  BY <1>1, <1>2 DEF PendingWasSent, WasSent
<1>7. /\ reliablePackets'[n] = reliablePackets[n]
            \cup {[id |-> seq, to |-> to, seq |-> seq, ip |-> TRUE]}
      /\ \A m \in Node \ {n} : reliablePackets'[m] = reliablePackets[m]
  BY <1>2, <1>6 DEF SendReliable, TypeOK
<1>8. QED
  BY <1>1, <1>2, <1>3, <1>4, <1>5, <1>7

(* SendReliable preserves the invariant: the packet it stores replaces no  *)
(* other one, since its id is new.                                         *)
LEMMA InvSendReliable ==
    ASSUME Regular, IInv, NEW n \in Node, NEW to \in Node,
           SendReliable(n, to), TypeOK'
    PROVE  IInv'
<1> USE DEF IInv
<1>seq. PICK seq : seq = Len(sent[n]) + 1
  OBVIOUS
<1> DEFINE p == [id |-> seq, to |-> to, seq |-> seq, ip |-> TRUE]
<1>1. /\ seq <= MaxSends /\ seq \in Nat \ {0}
      /\ Stamp(packetID[n]) = seq
  BY <1>seq, SendFacts
<1>2. /\ Len(sent'[n]) = seq
      /\ \A k \in Node \ {n} : sent'[k] = sent[k]
  BY <1>seq, SendFacts
<1>3. ASSUME NEW f \in Node, NEW t, NEW k
      PROVE  /\ WasSent(f, t, k) => WasSent(f, t, k)'
             /\ WasSent(f, t, k)' => WasSent(f, t, k) \/ <<f, t, k>> = <<n, to, seq>>
  BY <1>seq, SendFacts
<1>4. WasSent(n, to, seq)'
  BY <1>seq, SendFacts
<1>5. /\ reliablePackets'[n] = reliablePackets[n] \cup {p}
      /\ \A m \in Node \ {n} : reliablePackets'[m] = reliablePackets[m]
  BY <1>seq, SendFacts
<1>6. IdsAreFresh'
  <2>1. packetID'[n] = NextID(seq)
    BY <1>1 DEF SendReliable, TypeOK
  <2>2. \A m \in Node \ {n} : packetID'[m] = packetID[m]
    BY DEF SendReliable, TypeOK
  <2>3. QED
    BY <1>1, <1>2, <2>1, <2>2 DEF IdsAreFresh, NextID
<1>7. PendingWasSent'
  <2>1. SUFFICES ASSUME NEW m \in Node, NEW q \in reliablePackets'[m]
                 PROVE  q.id = q.seq /\ q.ip /\ WasSent(m, q.to, q.seq)'
    BY DEF PendingWasSent
  <2>2. CASE q \in reliablePackets[m]
    BY <1>3, <2>2 DEF PendingWasSent
  <2>3. CASE q \notin reliablePackets[m]
    BY <1>4, <1>5, <2>1, <2>3
  <2>4. QED
    BY <2>2, <2>3
<1>8. DataWasSent'
  <2>1. net' = net \cup {Data(n, to, seq, seq)}
    BY <1>1, <1>seq DEF SendReliable
  <2>2. SUFFICES ASSUME NEW d \in net', d.kind = "DATA"
                 PROVE  /\ d.id = d.seq
                        /\ d.seq # 0 => WasSent(d.src, d.dst, d.seq)'
    BY DEF DataWasSent
  <2>3. CASE d \in net
    <3>1. d.src \in Node
      BY <2>3 DEF TypeOK, Datagram
    <3>2. QED
      BY <1>3, <2>2, <2>3, <3>1 DEF DataWasSent
  <2>4. CASE d \notin net
    BY <1>4, <2>1, <2>4 DEF Data
  <2>5. QED
    BY <2>3, <2>4
<1>9. AckedWasDelivered'
  BY DEF SendReliable, AckedWasDelivered, Data
<1>10. TrackedWasDelivered'
  BY DEF SendReliable, TrackedWasDelivered
<1>11. DeliveredIsTracked'
  <2>1. \A m \in delivered : m.from \in Node
    BY DEF TypeOK, Message
  <2>2. \A m \in delivered : IsSent(m)'
    BY <1>3, <2>1 DEF DeliveredIsTracked, IsSent
  <2>3. QED
    BY <2>2 DEF SendReliable, DeliveredIsTracked
<1>12. NothingGivenUp'
  <2>1. SUFFICES ASSUME NEW m \in Message, IsSent(m)'
                 PROVE  IsPending(m)' \/ m \in delivered
    BY DEF NothingGivenUp, SendReliable
  <2>2. m.from \in Node
    BY DEF Message
  <2>3. CASE IsSent(m)
    BY <1>5, <2>2, <2>3 DEF NothingGivenUp, IsPending
  <2>4. CASE ~IsSent(m)
    <3>1. m.from = n /\ m.to = to /\ m.seq = seq
      BY <1>3, <2>1, <2>2, <2>4 DEF IsSent
    <3>2. p \in reliablePackets'[m.from] /\ p.seq = m.seq /\ p.to = m.to
      BY <1>5, <3>1
    <3>3. QED
      BY <3>2 DEF IsPending
  <2>5. QED
    BY <2>3, <2>4
<1>13. QED
  BY <1>6, <1>7, <1>8, <1>9, <1>10, <1>11, <1>12

(* A new datagram the network may carry: either side of the channel. *)
LEMMA InvNetwork ==
    ASSUME IInv, TypeOK', UNCHANGED <<socketVars, history>>,
           \A d \in net' \ net :
               /\ d.kind = "DATA" /\ d.id = d.seq
               /\ d.seq # 0 => WasSent(d.src, d.dst, d.seq)
    PROVE  IInv'
<1> USE DEF IInv
<1>1. IdsAreFresh' /\ PendingWasSent' /\ TrackedWasDelivered'
  BY DEF socketVars, history, IdsAreFresh, PendingWasSent, WasSent,
         TrackedWasDelivered
<1>2. DeliveredIsTracked' /\ NothingGivenUp'
  BY DEF socketVars, history, DeliveredIsTracked, NothingGivenUp, IsSent,
         IsPending, WasSent
<1>3. DataWasSent'
  BY DEF history, DataWasSent, WasSent
<1>4. AckedWasDelivered'
  BY DEF history, AckedWasDelivered
<1>5. QED
  BY <1>1, <1>2, <1>3, <1>4

(* An acknowledgement erases only the packet it answers, and that one was  *)
(* delivered.                                                              *)
LEMMA InvReceiveAck ==
    ASSUME IInv, TypeOK', NEW n \in Node, NEW d \in net, ReceiveAck(n, d)
    PROVE  IInv'
<1> USE DEF IInv
<1>1. /\ reliablePackets'[n] = reliablePackets[n] \ Acknowledged(n, d)
      /\ \A m \in Node \ {n} : reliablePackets'[m] = reliablePackets[m]
      /\ net' \subseteq net
      /\ UNCHANGED <<packetID, receivedPackets, sent, delivered, forgotten>>
  BY DEF ReceiveAck, Rest, TypeOK, history
<1>2. \A p \in Acknowledged(n, d) :
         [from |-> n, to |-> p.to, seq |-> p.seq] \in delivered
  <2>1. SUFFICES ASSUME NEW p \in reliablePackets[n], p.id = d.id
                 PROVE  [from |-> n, to |-> p.to, seq |-> p.seq] \in delivered
    BY DEF Acknowledged
  <2>2. /\ d.seq = p.seq
        /\ [from |-> n, to |-> d.src, seq |-> p.seq] \in delivered
    BY <2>1 DEF AckedWasDelivered, PendingWasSent, ReceiveAck
  <2>3. WasSent(n, d.src, p.seq) /\ WasSent(n, p.to, p.seq)
    BY <2>1, <2>2 DEF DeliveredIsTracked, PendingWasSent, IsSent
  <2>4. QED
    BY <2>2, <2>3 DEF WasSent
<1>3. IdsAreFresh' /\ TrackedWasDelivered' /\ DeliveredIsTracked'
  BY <1>1 DEF IdsAreFresh, TrackedWasDelivered, DeliveredIsTracked, IsSent,
              WasSent
<1>4. PendingWasSent'
  BY <1>1 DEF PendingWasSent, WasSent
<1>5. DataWasSent' /\ AckedWasDelivered'
  BY <1>1 DEF DataWasSent, AckedWasDelivered, WasSent
<1>6. NothingGivenUp'
  <2>1. SUFFICES ASSUME NEW m \in Message, IsSent(m)', m \notin delivered
                 PROVE  IsPending(m)'
    BY <1>1 DEF NothingGivenUp
  <2>2. PICK p \in reliablePackets[m.from] : p.seq = m.seq /\ p.to = m.to
    BY <1>1, <2>1 DEF NothingGivenUp, IsSent, WasSent, IsPending
  <2>3. m = [from |-> m.from, to |-> m.to, seq |-> m.seq] /\ m.from \in Node
    BY DEF Message
  <2>4. p \in reliablePackets'[m.from]
    BY <1>1, <1>2, <2>1, <2>2, <2>3
  <2>5. QED
    BY <2>2, <2>4 DEF IsPending
<1>7. QED
  BY <1>3, <1>4, <1>5, <1>6

(* A packet that is not tracked is delivered, tracked and acknowledged. *)
LEMMA InvReceiveReliable ==
    ASSUME IInv, TypeOK', NEW n \in Node, NEW d \in net,
           ReceiveReliable(n, d)
    PROVE  IInv'
<1> USE DEF IInv
<1> DEFINE m == [from |-> d.src, to |-> n, seq |-> d.seq]
<1>1. /\ d.id = d.seq /\ d.seq # 0 /\ d.dst = n
      /\ WasSent(d.src, n, d.seq)
      /\ d.src \in Node
  BY DEF ReceiveReliable, DataWasSent, TypeOK, Datagram
<1>2. /\ delivered' = delivered \cup {m}
      /\ receivedPackets'[n] =
            receivedPackets[n] \cup {[from |-> d.src, id |-> d.seq]}
      /\ \A k \in Node \ {n} : receivedPackets'[k] = receivedPackets[k]
      /\ net' \subseteq net \cup {Ack(d)}
      /\ UNCHANGED <<packetID, reliablePackets, sent, forgotten>>
  BY <1>1 DEF ReceiveReliable, Rest, TypeOK, MessageOf, TrackOf
<1>3. IdsAreFresh' /\ PendingWasSent' /\ NothingGivenUp'
  BY <1>2 DEF IdsAreFresh, PendingWasSent, NothingGivenUp, IsSent, WasSent,
              IsPending
<1>4. DataWasSent'
  BY <1>2 DEF DataWasSent, Ack, WasSent
<1>5. AckedWasDelivered'
  BY <1>1, <1>2 DEF AckedWasDelivered, Ack
<1>6. TrackedWasDelivered'
  <2>1. SUFFICES ASSUME NEW k \in Node, NEW t \in receivedPackets'[k]
                 PROVE  [from |-> t.from, to |-> k, seq |-> t.id] \in delivered'
    BY DEF TrackedWasDelivered
  <2>2. CASE t \in receivedPackets[k]
    BY <1>2, <2>2 DEF TrackedWasDelivered
  <2>3. CASE t \notin receivedPackets[k]
    <3>1. k = n /\ t = [from |-> d.src, id |-> d.seq]
      BY <1>2, <2>1, <2>3
    <3>2. QED
      BY <1>2, <3>1
  <2>4. QED
    BY <2>2, <2>3
<1>7. DeliveredIsTracked'
  <2>1. SUFFICES ASSUME NEW k \in delivered'
                 PROVE  /\ IsSent(k)'
                        /\ [from |-> k.from, id |-> k.seq]
                              \in (receivedPackets[k.to]
                                     \cup forgotten[k.to])'
    BY DEF DeliveredIsTracked
  <2>2. CASE k \in delivered
    <3>1. k.to \in Node
      BY <2>2 DEF TypeOK, Message
    <3>2. QED
      BY <1>2, <2>2, <3>1 DEF DeliveredIsTracked, IsSent, WasSent
  <2>3. CASE k = m
    BY <1>1, <1>2, <2>3 DEF IsSent, WasSent
  <2>4. QED
    BY <1>2, <2>2, <2>3
<1>8. QED
  BY <1>3, <1>4, <1>5, <1>6, <1>7

(* What is no longer tracked is known to have been forgotten. *)
LEMMA InvForget ==
    ASSUME IInv, TypeOK', NEW n \in Node, NEW t \in receivedPackets[n],
           Forget(n, t)
    PROVE  IInv'
<1> USE DEF IInv
<1>1. /\ receivedPackets'[n] = receivedPackets[n] \ {t}
      /\ forgotten'[n] = forgotten[n] \cup {t}
      /\ \A k \in Node \ {n} : /\ receivedPackets'[k] = receivedPackets[k]
                              /\ forgotten'[k] = forgotten[k]
      /\ UNCHANGED <<packetID, reliablePackets, net, sent, delivered>>
  BY DEF Forget, TypeOK
<1>2. /\ IdsAreFresh' /\ PendingWasSent' /\ DataWasSent'
      /\ AckedWasDelivered' /\ NothingGivenUp'
  BY <1>1 DEF IdsAreFresh, PendingWasSent, DataWasSent, AckedWasDelivered,
              NothingGivenUp, IsSent, WasSent, IsPending
<1>3. TrackedWasDelivered'
  BY <1>1 DEF TrackedWasDelivered
<1>4. DeliveredIsTracked'
  <2>1. \A k \in delivered : k.to \in Node
    BY DEF TypeOK, Message
  <2>2. QED
    BY <1>1, <2>1 DEF DeliveredIsTracked, IsSent, WasSent
<1>5. QED
  BY <1>2, <1>3, <1>4

(* Every step of a regular socket preserves the invariant. *)
LEMMA InvNext == Regular /\ IInv /\ [Next]_vars => IInv'
<1> SUFFICES ASSUME Regular, IInv, [Next]_vars PROVE IInv'
  OBVIOUS
<1>0. TypeOK'
  BY TypeNext DEF IInv
<1>1. ASSUME NEW n \in Node, NEW to \in Node, SendReliable(n, to)
      PROVE  IInv'
  BY <1>0, <1>1, InvSendReliable
<1>2. ASSUME NEW n \in Node, NEW to \in Node, NEW id \in RawIDs,
             Send(n, to, id)
      PROVE  IInv'
  <2>1. id = 0
    BY DEF Regular
  <2>2. QED
    BY <1>0, <1>2, <2>1, InvNetwork DEF Send, Data
<1>3. ASSUME NEW n \in Node, NEW d \in net, Receive(n, d) PROVE IInv'
  <2>1. CASE ReceiveAck(n, d)
    BY <1>0, <2>1, InvReceiveAck
  <2>2. CASE ReceiveDupe(n, d)
    BY <1>0, <2>2, InvNetwork DEF ReceiveDupe, Rest
  <2>3. CASE ReceiveReliable(n, d)
    BY <1>0, <2>3, InvReceiveReliable
  <2>4. CASE ReceivePlain(n, d)
    BY <1>0, <2>4, InvNetwork DEF ReceivePlain, Rest
  <2>5. QED
    BY <1>3, <2>1, <2>2, <2>3, <2>4 DEF Receive
<1>4. ASSUME NEW n \in Node, NEW p \in reliablePackets[n], Resend(n, p)
      PROVE  IInv'
  <2>1. p.id = p.seq /\ p.ip /\ WasSent(n, p.to, p.seq)
    BY DEF IInv, PendingWasSent
  <2>2. net' = net \cup {Data(n, p.to, p.id, p.seq)}
    BY <1>4, <2>1 DEF Resend, Resent
  <2>3. QED
    BY <1>0, <1>4, <2>1, <2>2, InvNetwork DEF Resend, Data
<1>5. ASSUME NEW n \in Node, NEW p \in reliablePackets[n], FreeIP(n, p)
      PROVE  IInv'
  BY <1>5 DEF FreeIP, Regular
<1>6. ASSUME NEW n \in Node, NEW t \in receivedPackets[n], Forget(n, t)
      PROVE  IInv'
  BY <1>0, <1>6, InvForget
<1>7. ASSUME NEW n \in Node, Kill(n) PROVE IInv'
  BY <1>0, <1>7 DEF Kill, IInv, history, IdsAreFresh, PendingWasSent,
     DataWasSent, AckedWasDelivered, TrackedWasDelivered, DeliveredIsTracked,
     NothingGivenUp, IsSent, WasSent, IsPending
<1>8. ASSUME NEW d \in net, Lose(d) PROVE IInv'
  BY <1>0, <1>8, InvNetwork DEF Lose
<1>9. CASE UNCHANGED vars
  BY <1>0, <1>9, InvNetwork DEF vars
<1>10. QED
  BY <1>1, <1>2, <1>3, <1>4, <1>5, <1>6, <1>7, <1>8, <1>9 DEF Next

(* The invariant holds: the ids of pending packets, of datagrams in flight *)
(* and of tracked packets name messages without ambiguity, as long as      *)
(* packetID does not wrap.                                                 *)
THEOREM SocketInvariant == ASSUME Regular PROVE Spec => []IInv
<1>1. QED
  BY InvInit, InvNext, PTL DEF Spec

(* No message handed to SendReliable leaves the table of pending packets   *)
(* before it was delivered: getPacket's erase-by-id never hits a packet    *)
(* that is still wanted.                                                   *)
THEOREM NothingIsGivenUp == ASSUME Regular PROVE Spec => []NothingGivenUp
<1>1. IInv => NothingGivenUp
  BY DEF IInv
<1>2. QED
  BY <1>1, SocketInvariant, PTL

(* getPacket drops no packet its application does not already have. *)
THEOREM OnlyDupesAreDropped == ASSUME Regular PROVE Spec => []DupesWereDelivered
<1>1. IInv => DupesWereDelivered
  <2>1. SUFFICES ASSUME IInv, NEW d \in net, d.kind = "DATA",
                        TrackOf(d) \in receivedPackets[d.dst]
                 PROVE  MessageOf(d) \in delivered
    BY DEF DupesWereDelivered
  <2>2. d.dst \in Node /\ d.id = d.seq
    BY <2>1 DEF IInv, TypeOK, Datagram, DataWasSent
  <2>3. QED
    BY <2>1, <2>2 DEF IInv, TrackedWasDelivered, TrackOf, MessageOf
<1>2. QED
  BY <1>1, SocketInvariant, PTL

(* An acknowledgement in flight erases only the packet it answers. *)
THEOREM AcksAreExact == ASSUME Regular PROVE Spec => []AcksAnswerTheirPacket
<1>1. IInv => AcksAnswerTheirPacket
  <2>1. SUFFICES ASSUME IInv, NEW d \in net, NEW p \in reliablePackets[d.dst],
                        d.kind = "ACK", p.id = d.id
                 PROVE  d.seq = p.seq /\ d.src = p.to
    BY DEF AcksAnswerTheirPacket
  <2>2. d.dst \in Node
    BY <2>1 DEF IInv, TypeOK, Datagram
  <2>3. d.seq = p.seq /\ WasSent(d.dst, p.to, p.seq)
    BY <2>1, <2>2 DEF IInv, AckedWasDelivered, PendingWasSent
  <2>4. WasSent(d.dst, d.src, d.seq)
    BY <2>1 DEF IInv, AckedWasDelivered, DeliveredIsTracked, IsSent
  <2>5. QED
    BY <2>3, <2>4 DEF WasSent
<1>2. QED
  BY <1>1, SocketInvariant, PTL

(* The application gets a message again only after its id has expired from *)
(* the table of received packets.                                          *)
THEOREM NoRedeliveryWhileTracked ==
    ASSUME Regular PROVE Spec => RedeliveredOnlyAfterForgotten
<1> DEFINE Expired ==
        \A n \in Node, d \in net :
            ReceiveReliable(n, d) /\ d.seq # 0 /\ MessageOf(d) \in delivered
                => TrackOf(d) \in forgotten[n]
<1>1. IInv => Expired
  <2>1. SUFFICES ASSUME IInv, NEW n \in Node, NEW d \in net,
                        ReceiveReliable(n, d), MessageOf(d) \in delivered
                 PROVE  TrackOf(d) \in forgotten[n]
    OBVIOUS
  <2>2. d.dst = n /\ d.id = d.seq /\ TrackOf(d) \notin receivedPackets[n]
    BY <2>1 DEF ReceiveReliable, IsDupe, IInv, DataWasSent
  <2>3. QED
    BY <2>1, <2>2 DEF IInv, DeliveredIsTracked, MessageOf, TrackOf
<1>2. IInv /\ [Next]_vars => [Expired]_vars
  BY <1>1
<1>3. QED
  BY <1>2, SocketInvariant, PTL DEF Spec, RedeliveredOnlyAfterForgotten

-----------------------------------------------------------------------------
(* The sockets implement the safety half of ReliableChannel: each step is  *)
(* a step of the channel or leaves it alone.                               *)
LEMMA ChannelStep ==
    Regular /\ IInv /\ IInv' /\ [Next]_vars => [Channel!Next]_(Channel!vars)
<1> SUFFICES ASSUME Regular, IInv, IInv', [Next]_vars
             PROVE  [Channel!Next]_(Channel!vars)
  OBVIOUS
<1> USE DEF Channel!Next, Channel!vars
<1>1. ASSUME UNCHANGED <<reliablePackets, sent, delivered>>
      PROVE  UNCHANGED Channel!vars
  BY <1>1 DEF IsSent, WasSent, IsPending
<1>2. ASSUME NEW n \in Node, NEW to \in Node, SendReliable(n, to)
      PROVE  Channel!Next
  <2>1. PICK seq : seq = Len(sent[n]) + 1
    OBVIOUS
  <2>2. /\ seq \in 0..MaxSends /\ seq # 0
        /\ n # to
        /\ UNCHANGED delivered
    BY <1>2, <2>1, SendFacts, SocketAssumption DEF SendReliable
  <2>3. PICK m : m = [from |-> n, to |-> to, seq |-> seq]
    OBVIOUS
  <2>4. m \in Wanted
    BY <2>2, <2>3 DEF Wanted, Message
  <2>5. \A k \in Wanted : IsSent(k)' <=> IsSent(k) \/ k = m
    <3>1. SUFFICES ASSUME NEW k \in Wanted
                   PROVE  IsSent(k)' <=> IsSent(k) \/ k = m
      OBVIOUS
    <3>2. k = [from |-> k.from, to |-> k.to, seq |-> k.seq] /\ k.from \in Node
      BY DEF Wanted, Message
    <3>3. QED
      BY <1>2, <2>1, <2>3, <3>2, SendFacts DEF IsSent
  <2>6. \A k \in Wanted : IsPending(k)' <=> IsPending(k) \/ k = m
    <3>1. SUFFICES ASSUME NEW k \in Wanted
                   PROVE  IsPending(k)' <=> IsPending(k) \/ k = m
      OBVIOUS
    <3>2. k = [from |-> k.from, to |-> k.to, seq |-> k.seq] /\ k.from \in Node
      BY DEF Wanted, Message
    <3>3. CASE k.from # n
      BY <1>2, <2>1, <2>3, <3>2, <3>3, SendFacts DEF IsPending
    <3>4. CASE k.from = n
      <4>1. PICK p : p = [id |-> seq, to |-> to, seq |-> seq, ip |-> TRUE]
        OBVIOUS
      <4>2. k = m <=> seq = k.seq /\ to = k.to
        BY <2>3, <3>2, <3>4
      <4>3. \A q : q \in reliablePackets'[n] <=> q \in reliablePackets[n] \/ q = p
        BY <1>2, <2>1, <4>1, SendFacts
      <4>4. p.seq = seq /\ p.to = to
        BY <4>1
      <4>5. QED
        BY <3>4, <4>2, <4>3, <4>4 DEF IsPending
    <3>5. QED
      BY <3>3, <3>4
  <2>7. ~IsSent(m)
    BY <1>2, <2>1, <2>3, SendFacts DEF IsSent
  <2>8. Channel!Accept(m)
    BY <2>2, <2>4, <2>5, <2>6, <2>7 DEF Channel!Accept
  <2>9. QED
    BY <2>4, <2>8
<1>3. ASSUME NEW n \in Node, NEW d \in net, ReceiveAck(n, d)
      PROVE  [Channel!Next]_(Channel!vars)
  <2>1. /\ reliablePackets'[n] = reliablePackets[n] \ Acknowledged(n, d)
        /\ \A k \in Node \ {n} : reliablePackets'[k] = reliablePackets[k]
        /\ UNCHANGED <<sent, delivered>>
    BY <1>3 DEF ReceiveAck, IInv, TypeOK, history
  <2>2. CASE Acknowledged(n, d) = {}
    BY <1>1, <1>3, <2>2 DEF ReceiveAck, IInv, TypeOK, history
  <2>3. CASE Acknowledged(n, d) # {}
    <3>1. PICK p \in reliablePackets[n] : p.id = d.id
      BY <2>3 DEF Acknowledged
    <3>2. PICK m : m = [from |-> n, to |-> p.to, seq |-> p.seq]
      OBVIOUS
    <3>3. \A q \in reliablePackets[n] :
              q.id = d.id <=> q.seq = p.seq /\ q.to = p.to
      BY <3>1 DEF IInv, PendingWasSent, WasSent
    <3>4. m \in delivered
      <4>1. /\ p.seq = d.seq /\ WasSent(n, p.to, p.seq)
            /\ [from |-> n, to |-> d.src, seq |-> d.seq] \in delivered
        BY <1>3, <3>1 DEF ReceiveAck, IInv, PendingWasSent, AckedWasDelivered
      <4>2. WasSent(n, d.src, d.seq)
        BY <4>1 DEF IInv, DeliveredIsTracked, IsSent
      <4>3. QED
        BY <3>2, <4>1, <4>2 DEF WasSent
    <3>5. \A k \in Wanted : IsPending(k)' <=> IsPending(k) /\ k # m
      <4>1. SUFFICES ASSUME NEW k \in Wanted
                     PROVE  IsPending(k)' <=> IsPending(k) /\ k # m
        OBVIOUS
      <4>2. /\ k = [from |-> k.from, to |-> k.to, seq |-> k.seq]
            /\ k.from \in Node
        BY DEF Wanted, Message
      <4>3. CASE k.from # n
        BY <2>1, <3>2, <4>2, <4>3 DEF IsPending
      <4>4. CASE k.from = n
        BY <2>1, <3>2, <3>3, <4>2, <4>4 DEF IsPending, Acknowledged
      <4>5. QED
        BY <4>3, <4>4
    <3>6. IsPending(m)
      BY <3>2 DEF IsPending
    <3>7. UNCHANGED {k \in Wanted : IsSent(k)}
      BY <2>1 DEF IsSent, WasSent
    <3>8. CASE m \in Wanted
      <4>1. Channel!Settle(m)
        BY <2>1, <3>4, <3>5, <3>6, <3>7, <3>8 DEF Channel!Settle
      <4>2. QED
        BY <3>8, <4>1
    <3>9. CASE m \notin Wanted
      BY <2>1, <3>5, <3>7, <3>9
    <3>10. QED
      BY <3>8, <3>9
  <2>4. QED
    BY <2>2, <2>3
<1>4. ASSUME NEW n \in Node, NEW d \in net, ReceiveReliable(n, d)
      PROVE  [Channel!Next]_(Channel!vars)
  <2>1. PICK m : m = MessageOf(d)
    OBVIOUS
  <2>2. /\ delivered' = delivered \cup {m}
        /\ UNCHANGED <<reliablePackets, sent>>
    BY <1>4, <2>1 DEF ReceiveReliable
  <2>3. UNCHANGED <<{k \in Wanted : IsSent(k)}, {k \in Wanted : IsPending(k)}>>
    BY <2>2 DEF IsSent, WasSent, IsPending
  <2>4. IsSent(m)
    BY <1>4, <2>1 DEF ReceiveReliable, IInv, DataWasSent, MessageOf, IsSent
  <2>5. CASE m \in Wanted
    <3>1. Channel!Deliver(m)
      BY <2>2, <2>3, <2>4, <2>5 DEF Channel!Deliver
    <3>2. QED
      BY <2>5, <3>1
  <2>6. CASE m \notin Wanted
    BY <2>2, <2>3, <2>6
  <2>7. QED
    BY <2>5, <2>6
<1>5. ASSUME NEW n \in Node, NEW p \in reliablePackets[n], FreeIP(n, p)
      PROVE  FALSE
  BY <1>5 DEF FreeIP, Regular
<1>6. CASE UNCHANGED <<reliablePackets, sent, delivered>>
  BY <1>1, <1>6
<1>7. CASE ~UNCHANGED <<reliablePackets, sent, delivered>>
  BY <1>2, <1>3, <1>4, <1>5, <1>7
     DEF Next, Receive, Send, ReceiveDupe, ReceivePlain, Resend, Forget, Kill,
         Lose, vars, socketVars, history
<1>8. QED
  BY <1>6, <1>7

(* The sockets keep the promise of ReliableChannel: a message is forgotten *)
(* by its sender only after its delivery, and nothing is delivered that    *)
(* was not sent.                                                           *)
THEOREM SocketImplementsChannel ==
    ASSUME Regular PROVE Spec => ImplementsChannelSafety
<1>1. Init => Channel!Init
  BY DEF Init, Channel!Init, IsSent, WasSent, IsPending, Wanted, Message
<1>2. QED
  BY <1>1, ChannelStep, SocketInvariant, PTL
     DEF Spec, ImplementsChannelSafety, Channel!Safety
=============================================================================
