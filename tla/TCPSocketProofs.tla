-------------------------- MODULE TCPSocketProofs --------------------------
(***************************************************************************)
(* Proofs about TCPSocket, for any amount of data and any number of        *)
(* packets, retransmissions and duplicate ACKs: while no sequence number   *)
(* comes round again and nobody writes on a closed connection, a network   *)
(* that loses, duplicates and reorders cannot break the stream.            *)
(***************************************************************************)
EXTENDS TCPSocket, FiniteSetTheorems, TLAPS

\* The SYN, the data and the FIN of an endpoint fit below SeqModulus.
NoWrap == \A e \in Endpoints : FirstSeq[e] + MaxData[e] + 2 < SeqModulus

Flags == {"SYN", "ACK", "FIN", "RST", "PSH"}

Packets == [to : Endpoints, flags : SUBSET Flags, seq : SeqNumbers, ack : SeqNumbers, data : Nat]

Sockets ==
    [state : TCPStates, sequence_number : SeqNumbers, ack_number : SeqNumbers,
     last_ack_number_sent : SeqNumbers,
     unacked_packets : Seq([ack_number : SeqNumbers, packet : Packets]),
     retransmit_attempts : 0..MaxRetransmits + 1, duplicate_acks : 0..MaxDupAcks,
     delayed_ack : BOOLEAN, shut_down_for_writing : BOOLEAN,
     written : Nat, received : Seq(Nat), passed_over : BOOLEAN]

\* Before the handshake is over; told of the end of the stream; not taking
\* data any more.
Opening == {"Listen", "SynSent", "SynReceived"}
AtEnd   == {"CloseWait", "LastAck"}
Gone    == {"FinWait1", "FinWait2", "TimeWait", "Closed"}

\* What endpoint e with socket s has sent is numbered from FirstSeq[e], the
\* SYN first; what was not acknowledged are the last packets of it.
SendInv(e, s) ==
    /\ s.written <= MaxData[e]
    /\ s.state \in Opening =>
          /\ s.written = 0 /\ s.received = <<>>
          /\ ~s.shut_down_for_writing /\ ~s.delayed_ack /\ ~s.passed_over
    /\ s.state = "Listen" => s.unacked_packets = <<>>
    /\ e = "client" => s.state \notin {"Listen", "SynReceived"}
    /\ s.state \notin {"Closed", "Listen"} => s.sequence_number = FirstSeq[e] + 1 + s.written
    /\ s.unacked_packets = <<>> => s.retransmit_attempts = 0
    /\ \A i \in 1..Len(s.unacked_packets) :
          /\ s.unacked_packets[i].packet.data + Len(s.unacked_packets) = s.written + i
          /\ s.unacked_packets[i].ack_number = FirstSeq[e] + 1 + s.unacked_packets[i].packet.data

InNet(s, N) == \A i \in 1..Len(s.unacked_packets) : s.unacked_packets[i].packet \in N

\* Whatever e has sent once may arrive now: its number fits what is written.
PacketInv(e, s, p) ==
    /\ p.data # 0 =>
          p.flags = {"PSH", "ACK"} /\ p.data <= s.written /\ p.seq = FirstSeq[e] + p.data
    /\ "SYN" \in p.flags => p.seq = FirstSeq[e]
    /\ "FIN" \in p.flags => s.shut_down_for_writing /\ p.seq = FirstSeq[e] + 1 + s.written

\* Socket s has got a prefix of what f with socket t has written, asks for
\* the next, and knows of the end when it has got everything.
ReceiveInv(s, f, t) ==
    /\ \A i \in 1..Len(s.received) : s.received[i] = i
    /\ Len(s.received) <= t.written
    /\ s.state \in {"SynReceived", "Established"} =>
          s.ack_number = FirstSeq[f] + 1 + Len(s.received)
    /\ s.state \in AtEnd =>
          /\ s.ack_number = FirstSeq[f] + 2 + t.written
          /\ Len(s.received) = t.written /\ t.shut_down_for_writing

\* An acknowledgement to f claims no more than socket s has got.
AckInv(f, s, p) ==
    "ACK" \in p.flags /\ s.state \notin Gone =>
        p.ack <= FirstSeq[f] + 1 + Len(s.received) \/ s.state \in AtEnd

\* What t has not got, s can send again.
LossInv(s, t) ==
    s.state # "Closed" /\ t.state \notin Gone =>
        s.written <= Len(s.unacked_packets) + Len(t.received)

TCPInv ==
    /\ sock \in [Endpoints -> Sockets] /\ net \subseteq Packets
    /\ net = {} => Init
    /\ \A e \in Endpoints :
          /\ SendInv(e, sock[e]) /\ InNet(sock[e], net)
          /\ \A p \in net : p.to = Peer(e) => PacketInv(e, sock[e], p)
    /\ InStep => \A e \in Endpoints :
          /\ ReceiveInv(sock[e], Peer(e), sock[Peer(e)])
          /\ LossInv(sock[e], sock[Peer(e)])
          /\ \A p \in net : p.to = Peer(e) => AckInv(Peer(e), sock[e], p)

-----------------------------------------------------------------------------
(* One endpoint moves                                                       *)

\* There are two endpoints.
LEMMA Peers ==
    ASSUME NEW e \in Endpoints
    PROVE  /\ Peer(e) \in Endpoints /\ Peer(e) # e /\ Peer(Peer(e)) = e
           /\ \A d \in Endpoints : d = e \/ d = Peer(e)
  BY DEF Endpoints, Peer

\* Advancing stays among the sequence numbers and does not wrap below the
\* modulus.
LEMMA AdvanceOf ==
    ASSUME NEW n \in Nat, NEW by \in Nat
    PROVE  /\ Advance(n, by) \in SeqNumbers
           /\ n + by < SeqModulus => Advance(n, by) = n + by
<1>1. SeqModulus \in Nat /\ SeqModulus > 0
  BY TCPAssumption
<1>2. \A a \in Nat, m \in Nat : m > 0 => a % m \in 0..m-1
  OBVIOUS
<1>3. \A a \in Nat, m \in Nat : a < m => a % m = a
  OBVIOUS
<1>4. n + by \in Nat
  OBVIOUS
<1>. QED BY <1>1, <1>2, <1>3, <1>4 DEF Advance, SeqNumbers

\* The constants are numbers.
LEMMA Numbers ==
    ASSUME NEW e \in Endpoints
    PROVE  /\ FirstSeq[e] \in SeqNumbers /\ FirstSeq[e] \in Nat /\ MaxData[e] \in Nat
           /\ SeqNumbers \subseteq Nat /\ 0 \in SeqNumbers
  BY TCPAssumption DEF SeqNumbers

\* The fields of a socket.
LEMMA Fields ==
    ASSUME NEW s \in Sockets
    PROVE  /\ s.state \in TCPStates /\ s.passed_over \in BOOLEAN /\ s.shut_down_for_writing \in BOOLEAN
           /\ s.sequence_number \in SeqNumbers /\ s.ack_number \in SeqNumbers
           /\ s.unacked_packets \in Seq([ack_number : SeqNumbers, packet : Packets])
           /\ Len(s.unacked_packets) \in Nat /\ DOMAIN s.unacked_packets = 1..Len(s.unacked_packets)
           /\ s.written \in Nat /\ s.received \in Seq(Nat) /\ Len(s.received) \in Nat
<1>1. /\ s.state \in TCPStates /\ s.passed_over \in BOOLEAN /\ s.shut_down_for_writing \in BOOLEAN
      /\ s.sequence_number \in SeqNumbers /\ s.ack_number \in SeqNumbers
      /\ s.unacked_packets \in Seq([ack_number : SeqNumbers, packet : Packets])
      /\ s.written \in Nat /\ s.received \in Seq(Nat)
  BY DEF Sockets
<1>2. \A S : \A q \in Seq(S) : Len(q) \in Nat /\ DOMAIN q = 1..Len(q)
  OBVIOUS
<1>. QED BY <1>1, <1>2

\* The packets not acknowledged.
LEMMA UnackedFields ==
    ASSUME NEW s \in Sockets, NEW i \in 1..Len(s.unacked_packets)
    PROVE  /\ s.unacked_packets[i].packet \in Packets /\ s.unacked_packets[i].packet.data \in Nat
           /\ s.unacked_packets[i].ack_number \in Nat
<1>1. \A S : \A q \in Seq(S) : \A j \in 1..Len(q) : q[j] \in S
  OBVIOUS
<1>2. s.unacked_packets[i] \in [ack_number : SeqNumbers, packet : Packets]
  BY <1>1, Fields
<1>3. s.unacked_packets[i].packet \in Packets /\ s.unacked_packets[i].ack_number \in SeqNumbers
  BY <1>2
<1>. QED BY <1>3, Numbers DEF Packets, Endpoints

\* What is left of a sequence without its first k elements.
LEMMA RestOf ==
    ASSUME NEW S, NEW u \in Seq(S), NEW k \in 0..Len(u)
    PROVE  /\ SubSeq(u, k + 1, Len(u)) \in Seq(S) /\ Len(SubSeq(u, k + 1, Len(u))) = Len(u) - k
           /\ \A i \in 1..Len(u)-k : SubSeq(u, k + 1, Len(u))[i] = u[k + i]
<1>. DEFINE n == Len(u)
            m == k + 1
            r == SubSeq(u, m, n)
<1>1. n \in Nat /\ k \in Nat /\ m \in 1..n+1 /\ n + 1 - m = n - k
  OBVIOUS
<1>2. r \in Seq(S) /\ Len(r) = n + 1 - m /\ \A i \in 1..n+1-m : r[i] = u[m + i - 1]
  BY <1>1
<1>3. \A i \in 1..n-k : m + i - 1 = k + i
  BY <1>1
<1>. QED BY <1>1, <1>2, <1>3

\* With socket s for e the connection is in step.
InStepWith(e, s) == ~(IF e = "server" THEN s.passed_over ELSE sock["server"].passed_over)

\* What endpoint e may become: socket s goes on from where sock[e] is.
GoesOn(e, s) ==
    /\ s.written >= sock[e].written /\ Len(s.received) >= Len(sock[e].received)
    /\ sock[e].shut_down_for_writing => s.shut_down_for_writing /\ s.written = sock[e].written
    /\ sock[e].passed_over => s.passed_over
    /\ sock[e].state \in Gone /\ net # {} => s.state \in Gone
    /\ sock[e].state \in AtEnd => s.state \in AtEnd \cup Gone

Fits(e, s) ==
    /\ s \in Sockets /\ SendInv(e, s) /\ GoesOn(e, s)
    /\ InStepWith(e, s) => ReceiveInv(s, Peer(e), sock[Peer(e)]) /\ LossInv(s, sock[Peer(e)])

\* What endpoint e may send.
Sends(e, s, p) ==
    /\ p \in Packets /\ p.to = Peer(e) /\ PacketInv(e, s, p)
    /\ InStepWith(e, s) => AckInv(Peer(e), s, p)

\* If e goes on as it may, and sends what it may, the invariant stays.
LEMMA Moves ==
    ASSUME TCPInv, NEW e \in Endpoints, NEW s, Fits(e, s), InNet(s, net'),
           sock' = [sock EXCEPT ![e] = s], net' # {}, net \subseteq net',
           \A p \in net' : p \in net \/ Sends(e, s, p)
    PROVE  TCPInv'
<1>. DEFINE f == Peer(e)
<1>1. /\ f \in Endpoints /\ f # e /\ Peer(f) = e
      /\ \A d \in Endpoints : d = e \/ d = f
  BY Peers
<1>. HIDE DEF f
<1>2. sock'[e] = s /\ sock'[f] = sock[f] /\ sock' \in [Endpoints -> Sockets]
  BY <1>1 DEF TCPInv, Fits
<1>3. net' \subseteq Packets
  BY DEF TCPInv, Sends
<1>4. sock[e] \in Sockets /\ sock[f] \in Sockets /\ s \in Sockets
  BY <1>1 DEF TCPInv, Fits
<1>5. SendInv(e, s) /\ SendInv(f, sock[f]) /\ InNet(sock[f], net')
  BY <1>1 DEF TCPInv, Fits, InNet
<1>6. ASSUME NEW p \in net', p.to = f PROVE PacketInv(e, s, p)
  <2>1. CASE p \in net
    <3>1. PacketInv(e, sock[e], p) BY <1>6, <2>1 DEF TCPInv, f
    <3>2. GoesOn(e, s) BY DEF Fits
    <3>3. s.written \in Nat /\ sock[e].written \in Nat /\ p.data \in Nat
      BY <1>3, <1>4 DEF Sockets, Packets
    <3>. QED BY <3>1, <3>2, <3>3 DEF PacketInv, GoesOn
  <2>2. CASE p \notin net
    BY <2>2 DEF Sends
  <2>. QED BY <2>1, <2>2
<1>7. ASSUME NEW p \in net', p.to = e PROVE p \in net /\ PacketInv(f, sock[f], p)
  <2>1. p \in net BY <1>1, <1>7 DEF Sends, f
  <2>. QED BY <1>1, <1>7, <2>1 DEF TCPInv
<1>8. InStep' <=> InStepWith(e, s)
  BY <1>1, <1>2 DEF InStep, InStepWith, Endpoints
<1>9. InStepWith(e, s) => InStep
  BY <1>4 DEF InStep, InStepWith, Fits, GoesOn
<1>10. ASSUME InStepWith(e, s)
       PROVE  /\ ReceiveInv(s, f, sock[f]) /\ LossInv(s, sock[f])
              /\ \A p \in net' : p.to = f => AckInv(f, s, p)
  <2>1. ReceiveInv(s, f, sock[f]) /\ LossInv(s, sock[f])
    BY <1>10 DEF Fits, f
  <2>2. ASSUME NEW p \in net', p.to = f PROVE AckInv(f, s, p)
    <3>1. CASE p \in net
      <4>1. AckInv(f, sock[e], p) BY <1>9, <1>10, <2>2, <3>1 DEF TCPInv, f
      <4>2. GoesOn(e, s) BY DEF Fits
      <4>3. /\ Len(s.received) \in Nat /\ Len(sock[e].received) \in Nat
            /\ FirstSeq[f] \in Nat /\ p.ack \in Nat
        BY <1>1, <1>3, <1>4, Numbers, Fields DEF Packets
      <4>4. net # {} BY <3>1
      <4>. QED BY <4>1, <4>2, <4>3, <4>4 DEF AckInv, GoesOn
    <3>2. CASE p \notin net
      BY <1>10, <3>2 DEF Sends, f
    <3>. QED BY <3>1, <3>2
  <2>. QED BY <2>1, <2>2
<1>11. ASSUME InStepWith(e, s)
       PROVE  /\ ReceiveInv(sock[f], e, s) /\ LossInv(sock[f], s)
              /\ \A p \in net' : p.to = e => AckInv(e, sock[f], p)
  <2>1. /\ ReceiveInv(sock[f], e, sock[e]) /\ LossInv(sock[f], sock[e])
        /\ \A p \in net : p.to = e => AckInv(e, sock[f], p)
    BY <1>1, <1>9, <1>11 DEF TCPInv
  <2>2. GoesOn(e, s) BY DEF Fits
  <2>3. /\ s.written \in Nat /\ sock[e].written \in Nat /\ sock[f].written \in Nat
        /\ Len(s.received) \in Nat /\ Len(sock[e].received) \in Nat
        /\ Len(sock[f].received) \in Nat /\ Len(sock[f].unacked_packets) \in Nat
    BY <1>4, Fields
  <2>4. ReceiveInv(sock[f], e, s)
    BY <2>1, <2>2, <2>3 DEF ReceiveInv, GoesOn
  <2>5. LossInv(sock[f], s)
    <3>1. s.state \notin Gone /\ net # {} => sock[e].state \notin Gone BY <2>2 DEF GoesOn
    <3>2. Len(s.received) >= Len(sock[e].received) BY <2>2 DEF GoesOn
    <3>. SUFFICES ASSUME sock[f].state # "Closed", s.state \notin Gone
                  PROVE  sock[f].written <= Len(sock[f].unacked_packets) + Len(s.received)
      BY DEF LossInv
    <3>3. sock[f].written <= Len(sock[f].unacked_packets) + Len(sock[e].received)
      <4>1. CASE net # {} BY <2>1, <3>1, <4>1 DEF LossInv
      <4>2. CASE net = {}
        <5>1. sock[f].written = 0 BY <1>1, <4>2 DEF TCPInv, Init, NewSocket
        <5>2. \A a, b \in Nat : 0 <= a + b OBVIOUS
        <5>. QED BY <2>3, <5>1, <5>2
      <4>. QED BY <4>1, <4>2
    <3>4. \A a, b, c, d \in Nat : a <= b + c /\ d >= c => a <= b + d
      OBVIOUS
    <3>. QED BY <2>3, <3>2, <3>3, <3>4
  <2>. QED BY <1>7, <2>1, <2>4, <2>5
<1>12. \A d \in Endpoints :
          /\ SendInv(d, sock'[d]) /\ InNet(sock'[d], net')
          /\ \A p \in net' : p.to = Peer(d) => PacketInv(d, sock'[d], p)
  BY <1>1, <1>2, <1>5, <1>6, <1>7 DEF f
<1>13. InStep' => \A d \in Endpoints :
          /\ ReceiveInv(sock'[d], Peer(d), sock'[Peer(d)])
          /\ LossInv(sock'[d], sock'[Peer(d)])
          /\ \A p \in net' : p.to = Peer(d) => AckInv(Peer(d), sock'[d], p)
  BY <1>1, <1>2, <1>8, <1>10, <1>11 DEF f
<1>. QED BY <1>2, <1>3, <1>12, <1>13 DEF TCPInv, SendInv, InNet, PacketInv, ReceiveInv, LossInv, AckInv

\* To stay as one is, is to go on.
LEMMA FitsNow ==
    ASSUME TCPInv, NEW e \in Endpoints
    PROVE  Fits(e, sock[e]) /\ InNet(sock[e], net)
<1>1. sock[e] \in Sockets BY DEF TCPInv
<1>2. sock[e].written \in Nat /\ Len(sock[e].received) \in Nat BY <1>1, Fields
<1>3. GoesOn(e, sock[e]) BY <1>2 DEF GoesOn
<1>4. InStepWith(e, sock[e]) => InStep BY DEF InStepWith, InStep
<1>. QED BY <1>1, <1>3, <1>4 DEF TCPInv, Fits

\* A step without a packet.
LEMMA QuietStep ==
    ASSUME TCPInv, NEW e \in Endpoints, NEW s, Fits(e, s), InNet(s, net), net # {}, Quiet(e, s)
    PROVE  TCPInv'
  BY Moves DEF Quiet, InNet

\* What sending a packet without data or SYN changes.
LEMMA SendingPlain ==
    ASSUME NEW e \in Endpoints, NEW s \in Sockets, NEW flags \in SUBSET Flags, "SYN" \notin flags
    PROVE  LET r == AfterSending(e, s, flags, 0)
           IN  /\ r \in Sockets /\ r.state = s.state
               /\ r.sequence_number = s.sequence_number /\ r.ack_number = s.ack_number
               /\ r.unacked_packets = s.unacked_packets
               /\ r.retransmit_attempts = s.retransmit_attempts
               /\ r.shut_down_for_writing = s.shut_down_for_writing
               /\ r.written = s.written /\ r.received = s.received /\ r.passed_over = s.passed_over
               /\ r.delayed_ack = s.delayed_ack
<1>1. s.sequence_number \in SeqNumbers /\ SeqNumbers \subseteq Nat /\ SeqNumbers = 0..SeqModulus-1
  BY Fields, Numbers DEF SeqNumbers
<1>2. s.sequence_number \in Nat /\ s.sequence_number + 0 < SeqModulus
  BY <1>1, TCPAssumption
<1>3. Advance(s.sequence_number, 0) = s.sequence_number
  BY <1>2, AdvanceOf
<1>4. ~ExpectsAck(flags, 0)
  BY DEF ExpectsAck
<1>5. AfterSending(e, s, flags, 0) =
        [s EXCEPT !.last_ack_number_sent = IF "ACK" \in flags THEN s.ack_number ELSE @,
                  !.sequence_number = s.sequence_number,
                  !.unacked_packets = s.unacked_packets]
  BY <1>3, <1>4 DEF AfterSending
<1>. QED BY <1>5 DEF Sockets

\* What is kept when the state changes.
KeepsData(s, r) ==
    /\ r \in Sockets
    /\ r.written = s.written /\ r.received = s.received
    /\ r.unacked_packets = s.unacked_packets
    /\ r.unacked_packets = <<>> => r.retransmit_attempts = s.retransmit_attempts
    /\ r.passed_over = s.passed_over /\ (s.shut_down_for_writing => r.shut_down_for_writing)
    /\ r.delayed_ack => s.delayed_ack \/ r.state \notin Opening

\* A socket that goes on in its state.
LEMMA StaysFit ==
    ASSUME NEW e \in Endpoints, NEW s, Fits(e, s), NEW r, KeepsData(s, r), r.state = s.state,
           r.shut_down_for_writing = s.shut_down_for_writing,
           r.sequence_number = s.sequence_number, r.ack_number = s.ack_number
    PROVE  Fits(e, r)
<1>1. SendInv(e, r) BY DEF Fits, KeepsData, SendInv
<1>2. GoesOn(e, r) BY DEF Fits, KeepsData, GoesOn
<1>3. InStepWith(e, r) => InStepWith(e, s) BY DEF KeepsData, InStepWith
<1>4. InStepWith(e, r) => ReceiveInv(r, Peer(e), sock[Peer(e)]) /\ LossInv(r, sock[Peer(e)])
  BY <1>3 DEF Fits, KeepsData, ReceiveInv, LossInv
<1>. QED BY <1>1, <1>2, <1>4 DEF Fits, KeepsData

\* A socket that takes no data any more may ask for any number.
LEMMA GoneFits ==
    ASSUME NEW e \in Endpoints, NEW s, Fits(e, s), NEW r, KeepsData(s, r), r.state \in Gone,
           r.state = "Closed"
              \/ (s.state \notin {"Closed", "Listen"} /\ r.sequence_number = s.sequence_number)
    PROVE  Fits(e, r)
<1>1. SendInv(e, r) BY DEF Fits, KeepsData, SendInv, Gone, Opening
<1>2. GoesOn(e, r) BY DEF Fits, KeepsData, GoesOn
<1>3. InStepWith(e, r) => InStepWith(e, s) BY DEF KeepsData, InStepWith
<1>4. InStepWith(e, r) => ReceiveInv(r, Peer(e), sock[Peer(e)])
  BY <1>3 DEF Fits, KeepsData, ReceiveInv, Gone, AtEnd
<1>5. InStepWith(e, r) => LossInv(r, sock[Peer(e)])
  BY <1>3 DEF Fits, KeepsData, LossInv
<1>. QED BY <1>1, <1>2, <1>4, <1>5 DEF Fits, KeepsData

\* A step that answers without data or SYN: an acknowledgement asks for what
\* comes next, and a FIN comes after everything that is written.
LEMMA AnswerStep ==
    ASSUME NoWrap, TCPInv, NEW e \in Endpoints, NEW s, Fits(e, s), InNet(s, net), net # {},
           NEW flags \in SUBSET Flags, "SYN" \notin flags,
           s.state \notin {"Listen", "SynSent"},
           "FIN" \in flags => s.shut_down_for_writing /\ s.state \in {"FinWait1", "LastAck"},
           Answer(e, s, flags, 0)
    PROVE  TCPInv'
<1>. DEFINE r == AfterSending(e, s, flags, 0)
            p == Packet(e, s, flags, 0)
<1>1. s \in Sockets BY DEF Fits
<1>2. /\ KeepsData(s, r) /\ r.state = s.state
      /\ r.shut_down_for_writing = s.shut_down_for_writing
      /\ r.sequence_number = s.sequence_number /\ r.ack_number = s.ack_number
  BY <1>1, SendingPlain DEF KeepsData
<1>. HIDE DEF r
<1>3. Fits(e, r) BY <1>2, StaysFit
<1>4. /\ p.to = Peer(e) /\ p.flags = flags /\ p.seq = s.sequence_number /\ p.data = 0
      /\ "ACK" \in flags => p.ack = s.ack_number
  BY DEF Packet
<1>5. p \in Packets
  BY <1>1, Fields, Peers, Numbers DEF Packet, Packets
<1>6. PacketInv(e, r, p)
  <2>1. "FIN" \in flags => s.sequence_number = FirstSeq[e] + 1 + s.written
    BY DEF Fits, SendInv
  <2>. QED BY <1>2, <1>4, <2>1 DEF PacketInv, KeepsData
<1>7. InStepWith(e, r) => AckInv(Peer(e), r, p)
  <2>. SUFFICES ASSUME InStepWith(e, r), "ACK" \in flags, r.state \notin Gone, r.state \notin AtEnd
                PROVE  p.ack <= FirstSeq[Peer(e)] + 1 + Len(r.received)
    BY <1>4 DEF AckInv
  <2>1. r.state \in {"SynReceived", "Established"}
    BY <1>1, <1>2, Fields DEF TCPStates, Gone, AtEnd
  <2>2. p.ack = FirstSeq[Peer(e)] + 1 + Len(r.received)
    BY <1>2, <1>3, <1>4, <2>1 DEF Fits, ReceiveInv
  <2>3. FirstSeq[Peer(e)] \in Nat /\ Len(r.received) \in Nat
    BY <1>1, <1>2, Fields, Peers, Numbers DEF KeepsData
  <2>. QED BY <2>2, <2>3
<1>8. Sends(e, r, p)
  BY <1>4, <1>5, <1>6, <1>7 DEF Sends
<1>9. sock' = [sock EXCEPT ![e] = r] /\ net' = net \cup {p}
  BY DEF Answer, r
<1>10. InNet(r, net') BY <1>2, <1>9 DEF InNet, KeepsData
<1>. QED BY <1>3, <1>8, <1>9, <1>10, Moves

-----------------------------------------------------------------------------
(* Acknowledgements                                                         *)

\* The packets that are acknowledged are the first ones, up to a place k, and
\* the others are left.
LEMMA DroppedPackets ==
    ASSUME TCPInv, NEW e \in Endpoints, NEW p \in net, "ACK" \in p.flags
    PROVE  LET u == sock[e].unacked_packets
               s == AfterAck(sock[e], p)
           IN  \E k \in 0..Len(u) :
                  /\ \A i \in 1..k : Acked(u[i], p)
                  /\ s = [sock[e] EXCEPT !.unacked_packets = SubSeq(u, k + 1, Len(u)),
                                         !.retransmit_attempts =
                                             AttemptsAfter(SubSeq(u, k + 1, Len(u)), @)]
<1>. DEFINE u == sock[e].unacked_packets
            n == Len(u)
            w == sock[e].written
            D == {i \in DOMAIN u : \A j \in 1..i : Acked(u[j], p)}
            b == FirstSeq[e] + 1 + w
            k == IF p.ack + n < b THEN 0 ELSE IF p.ack + n - b > n THEN n ELSE p.ack + n - b
<1>1. sock[e] \in Sockets BY DEF TCPInv
<1>2. /\ u \in Seq([ack_number : SeqNumbers, packet : Packets])
      /\ n \in Nat /\ DOMAIN u = 1..n /\ w \in Nat
  BY <1>1, Fields
<1>3. FirstSeq[e] \in Nat /\ p.ack \in Nat /\ b \in Nat
  BY <1>2, Numbers DEF TCPInv, Packets
<1>4. ASSUME NEW i \in 1..n PROVE u[i].ack_number + n = b + i
  <2>. DEFINE d == u[i].packet.data
              v == FirstSeq[e]
  <2>1. d \in Nat /\ v \in Nat BY <1>1, <1>3, UnackedFields
  <2>2. d + n = w + i /\ u[i].ack_number = v + 1 + d
    BY DEF TCPInv, SendInv
  <2>3. n \in Nat /\ w \in Nat /\ i \in Nat BY <1>2
  <2>. HIDE DEF d, v, n, w
  <2>4. (v + 1 + d) + n = (v + 1 + w) + i BY <2>1, <2>2, <2>3
  <2>. QED BY <2>2, <2>4 DEF v
<1>5. \A i \in 1..n : u[i].ack_number \in Nat
  BY <1>1, UnackedFields
<1>. HIDE DEF n, w, u, b
<1>6. k \in 0..n
  BY <1>2, <1>3
<1>7. \A i \in 1..n : Acked(u[i], p) <=> i <= k
  BY <1>2, <1>3, <1>4, <1>5 DEF Acked
<1>. HIDE DEF k
<1>8. D = 1..k
  BY <1>2, <1>6, <1>7
<1>9. Cardinality(D) = k
  <2>1. 1 \in Int /\ k \in Int BY <1>6
  <2>2. Cardinality(1..k) = IF 1 > k THEN 0 ELSE k - 1 + 1 BY <2>1, FS_Interval
  <2>3. k \in Nat BY <1>2, <1>6
  <2>4. Cardinality(1..k) = k BY <2>2, <2>3
  <2>. QED BY <1>8, <2>4
<1>10. AfterAck(sock[e], p) = [sock[e] EXCEPT !.unacked_packets = SubSeq(u, k + 1, Len(u)),
                                 !.retransmit_attempts = AttemptsAfter(SubSeq(u, k + 1, Len(u)), @)]
  BY <1>9 DEF AfterAck, u
<1>11. k \in 0..Len(u) /\ \A i \in 1..k : Acked(u[i], p)
  BY <1>2, <1>6, <1>7 DEF n
<1>. QED BY <1>10, <1>11 DEF u

\* The socket after the acknowledgement in the packet that arrives is taken
\* in: nothing is dropped that the peer has not got.
LEMMA AckTaken ==
    ASSUME TCPInv, NEW e \in Endpoints, NEW p \in net, p.to = e
    PROVE  Fits(e, AfterAck(sock[e], p)) /\ InNet(AfterAck(sock[e], p), net)
<1>1. CASE "ACK" \notin p.flags
  BY <1>1, FitsNow DEF AfterAck
<1>2. CASE "ACK" \in p.flags
  <2>. DEFINE u == sock[e].unacked_packets
              n == Len(u)
              w == sock[e].written
              f == Peer(e)
              s == AfterAck(sock[e], p)
  <2>1. PICK k \in 0..n :
           /\ \A i \in 1..k : Acked(u[i], p)
           /\ s = [sock[e] EXCEPT !.unacked_packets = SubSeq(u, k + 1, n),
                                  !.retransmit_attempts = AttemptsAfter(SubSeq(u, k + 1, n), @)]
    BY <1>2, DroppedPackets
  <2>. DEFINE rest == SubSeq(u, k + 1, n)
  <2>. HIDE DEF s
  <2>2. sock[e] \in Sockets BY DEF TCPInv
  <2>3. /\ u \in Seq([ack_number : SeqNumbers, packet : Packets])
        /\ n \in Nat /\ DOMAIN u = 1..n /\ w \in Nat
    BY <2>2, Fields
  <2>4. /\ rest \in Seq([ack_number : SeqNumbers, packet : Packets]) /\ Len(rest) = n - k
        /\ \A i \in 1..n-k : rest[i] = u[k + i]
    BY <2>1, <2>3, RestOf
  <2>. HIDE DEF rest
  <2>5. /\ sock[e].retransmit_attempts \in 0..MaxRetransmits + 1
        /\ sock[e].retransmit_attempts \in Nat /\ MaxRetransmits \in Nat
    BY <2>2, TCPAssumption DEF Sockets
  <2>6. AttemptsAfter(rest, sock[e].retransmit_attempts) \in 0..MaxRetransmits + 1
    BY <2>5 DEF AttemptsAfter
  <2>7. /\ s \in Sockets /\ s.unacked_packets = rest
        /\ s.retransmit_attempts = AttemptsAfter(rest, sock[e].retransmit_attempts)
        /\ s.state = sock[e].state /\ s.written = w /\ s.received = sock[e].received
        /\ s.sequence_number = sock[e].sequence_number /\ s.ack_number = sock[e].ack_number
        /\ s.shut_down_for_writing = sock[e].shut_down_for_writing
        /\ s.passed_over = sock[e].passed_over /\ s.delayed_ack = sock[e].delayed_ack
    BY <2>1, <2>2, <2>4, <2>6 DEF Sockets, rest
  <2>8. SendInv(e, sock[e]) /\ InNet(sock[e], net) BY DEF TCPInv
  <2>9. ASSUME NEW i \in 1..n-k
        PROVE  /\ rest[i].packet.data + (n - k) = w + i
               /\ rest[i].ack_number = FirstSeq[e] + 1 + rest[i].packet.data
               /\ rest[i].packet \in net /\ k + i \in 1..n
    <3>1. k + i \in 1..n /\ rest[i] = u[k + i] BY <2>3, <2>4
    <3>2. u[k + i].packet \in net BY <2>8, <3>1 DEF InNet
    <3>3. u[k + i].packet.data \in Nat BY <3>2 DEF TCPInv, Packets
    <3>4. /\ u[k + i].packet.data + n = w + (k + i)
          /\ u[k + i].ack_number = FirstSeq[e] + 1 + u[k + i].packet.data
      BY <2>8, <3>1 DEF SendInv
    <3>. DEFINE d == u[k + i].packet.data
    <3>5. d \in Nat /\ d + n = w + (k + i) BY <3>3, <3>4
    <3>6. k \in Nat /\ i \in Nat /\ n \in Nat /\ w \in Nat BY <2>3
    <3>. HIDE DEF d, n, w
    <3>7. d + (n - k) = w + i BY <3>5, <3>6
    <3>. QED BY <3>1, <3>2, <3>4, <3>7 DEF d
  <2>10. InNet(s, net) BY <2>4, <2>7, <2>9 DEF InNet
  <2>11. SendInv(e, s)
    <3>1. rest = <<>> => s.retransmit_attempts = 0 BY <2>7 DEF AttemptsAfter
    <3>2. s.state = "Listen" => rest = <<>>
      <4>1. s.state = "Listen" => n = 0 BY <2>7, <2>8 DEF SendInv
      <4>. QED BY <2>3, <2>4, <4>1
    <3>3. \A i \in 1..Len(rest) : /\ rest[i].packet.data + Len(rest) = w + i
                                 /\ rest[i].ack_number = FirstSeq[e] + 1 + rest[i].packet.data
      BY <2>4, <2>9
    <3>. QED BY <2>7, <2>8, <3>1, <3>2, <3>3 DEF SendInv
  <2>12. GoesOn(e, s)
    BY <2>2, <2>3, <2>7, Fields DEF GoesOn
  <2>13. InStepWith(e, s) => InStep
    BY <2>7 DEF InStepWith, InStep
  <2>14. InStepWith(e, s) => ReceiveInv(s, f, sock[f])
    BY <2>7, <2>13 DEF TCPInv, ReceiveInv
  <2>15. InStepWith(e, s) => LossInv(s, sock[f])
    <3>. SUFFICES ASSUME InStepWith(e, s), s.state # "Closed", sock[f].state \notin Gone
                  PROVE  w <= (n - k) + Len(sock[f].received)
      BY <2>4, <2>7 DEF LossInv
    <3>1. f \in Endpoints /\ Peer(f) = e BY Peers
    <3>2. w <= n + Len(sock[f].received)
      BY <2>7, <2>13 DEF TCPInv, LossInv
    <3>3. sock[f] \in Sockets /\ Len(sock[f].received) \in Nat BY <3>1, Fields DEF TCPInv
    <3>4. CASE k = 0
      <4>1. n - k = n BY <2>3, <3>4
      <4>. QED BY <3>2, <4>1
    <3>5. CASE k # 0 /\ sock[f].state \in AtEnd
      <4>1. Len(sock[f].received) = w
        BY <2>13, <3>1, <3>5 DEF TCPInv, ReceiveInv
      <4>. QED BY <2>3, <3>3, <4>1
    <3>6. CASE k # 0 /\ sock[f].state \notin AtEnd
      <4>1. p.ack <= FirstSeq[e] + 1 + Len(sock[f].received)
        BY <1>2, <2>13, <3>1, <3>6 DEF TCPInv, AckInv
      <4>2. k \in 1..n /\ u[k].ack_number <= p.ack
        BY <2>1, <2>3, <3>6 DEF Acked
      <4>3. u[k].packet.data + n = w + k /\ u[k].ack_number = FirstSeq[e] + 1 + u[k].packet.data
        BY <2>8, <4>2 DEF SendInv
      <4>4. u[k].packet \in Packets /\ p \in Packets
        BY <2>8, <4>2 DEF InNet, TCPInv
      <4>5. u[k].packet.data \in Nat /\ p.ack \in Nat /\ FirstSeq[e] \in Nat
        BY <4>4, Numbers DEF Packets
      <4>. DEFINE d == u[k].packet.data
                  v == FirstSeq[e]
                  x == Len(sock[f].received)
      <4>6. /\ d \in Nat /\ v \in Nat /\ x \in Nat /\ n \in Nat /\ w \in Nat /\ k \in Nat /\ p.ack \in Nat
            /\ d + n = w + k /\ v + 1 + d <= p.ack /\ p.ack <= v + 1 + x
        BY <2>3, <3>3, <4>1, <4>2, <4>3, <4>5
      <4>. HIDE DEF d, v, x, n, w
      <4>7. w <= (n - k) + x BY <4>6
      <4>. QED BY <4>7 DEF x
    <3>. QED BY <3>4, <3>5, <3>6
  <2>. QED BY <2>7, <2>10, <2>11, <2>12, <2>14, <2>15 DEF Fits, s
<1>. QED BY <1>1, <1>2

-----------------------------------------------------------------------------
(* Packets that take a sequence number                                      *)

\* What sending such a packet changes.
LEMMA SendingNumbered ==
    ASSUME NEW e \in Endpoints, NEW s \in Sockets, NEW flags \in SUBSET Flags, NEW data \in Nat,
           ExpectsAck(flags, data), s.sequence_number + 1 < SeqModulus
    PROVE  LET r == AfterSending(e, s, flags, data)
               p == Packet(e, s, flags, data)
           IN  /\ r \in Sockets /\ p \in Packets /\ r.state = s.state
               /\ r.sequence_number = s.sequence_number + 1 /\ r.ack_number = s.ack_number
               /\ r.unacked_packets =
                     Append(s.unacked_packets, [ack_number |-> s.sequence_number + 1, packet |-> p])
               /\ r.shut_down_for_writing = s.shut_down_for_writing
               /\ r.written = s.written /\ r.received = s.received /\ r.passed_over = s.passed_over
               /\ r.delayed_ack = s.delayed_ack
<1>. DEFINE p == Packet(e, s, flags, data)
            n == s.sequence_number + 1
            u == Append(s.unacked_packets, [ack_number |-> n, packet |-> p])
<1>1. /\ s.sequence_number \in SeqNumbers /\ s.ack_number \in SeqNumbers /\ SeqNumbers \subseteq Nat
      /\ 0 \in SeqNumbers /\ s.unacked_packets \in Seq([ack_number : SeqNumbers, packet : Packets])
  BY Fields, Numbers
<1>2. Advance(s.sequence_number, 1) = n /\ n \in SeqNumbers
  BY <1>1, AdvanceOf
<1>3. p \in Packets
  BY <1>1, Peers DEF Packet, Packets
<1>. HIDE DEF p, n
<1>4. u \in Seq([ack_number : SeqNumbers, packet : Packets])
  <2>1. [ack_number |-> n, packet |-> p] \in [ack_number : SeqNumbers, packet : Packets]
    BY <1>2, <1>3
  <2>. QED BY <1>1, <2>1
<1>. HIDE DEF u
<1>5. AfterSending(e, s, flags, data) =
        [s EXCEPT !.last_ack_number_sent = IF "ACK" \in flags THEN s.ack_number ELSE @,
                  !.sequence_number = n, !.unacked_packets = u]
  BY <1>2 DEF AfterSending, p, u
<1>. QED BY <1>1, <1>2, <1>3, <1>4, <1>5 DEF Sockets, n, p, u

\* Socket s may send a SYN or data: it has counted what it writes, and has
\* got no further with its numbers.
MaySend(e, s, flags) ==
    /\ ExpectsAck(flags, s.written) /\ "FIN" \notin flags
    /\ "SYN" \in flags => s.written = 0
    /\ s.written # 0 => flags = {"PSH", "ACK"}
    /\ s.written <= MaxData[e]
    /\ s.state \notin {"Closed", "Listen"}
    /\ "ACK" \in flags => s.state \in Gone \cup AtEnd \cup {"SynReceived", "Established"}
    /\ s.state \in Opening =>
          /\ s.written = 0 /\ s.received = <<>>
          /\ ~s.shut_down_for_writing /\ ~s.delayed_ack /\ ~s.passed_over
    /\ e = "client" => s.state # "SynReceived"
    /\ s.sequence_number = FirstSeq[e] + s.written
    /\ \A i \in 1..Len(s.unacked_packets) :
          /\ s.unacked_packets[i].packet.data + Len(s.unacked_packets) + 1 = s.written + i
          /\ s.unacked_packets[i].ack_number = FirstSeq[e] + 1 + s.unacked_packets[i].packet.data
    /\ InNet(s, net) /\ GoesOn(e, s)
    /\ InStepWith(e, s) =>
          /\ ReceiveInv(s, Peer(e), sock[Peer(e)])
          /\ sock[Peer(e)].state \notin Gone =>
                s.written <= Len(s.unacked_packets) + 1 + Len(sock[Peer(e)].received)

\* A step that sends a SYN or data.
LEMMA NumberedStep ==
    ASSUME NoWrap, TCPInv, NEW e \in Endpoints, NEW s \in Sockets, NEW flags \in SUBSET Flags,
           MaySend(e, s, flags), Answer(e, s, flags, s.written)
    PROVE  TCPInv'
<1>. DEFINE w == s.written
            u == s.unacked_packets
            n == Len(u)
            r == AfterSending(e, s, flags, w)
            p == Packet(e, s, flags, w)
            v == FirstSeq[e]
            entry == [ack_number |-> s.sequence_number + 1, packet |-> p]
<1>1. /\ w \in Nat /\ n \in Nat /\ v \in Nat /\ MaxData[e] \in Nat /\ SeqModulus \in Nat
      /\ u \in Seq([ack_number : SeqNumbers, packet : Packets])
  BY Fields, Numbers, TCPAssumption
<1>2. s.sequence_number + 1 < SeqModulus
  <2>1. v + MaxData[e] + 2 < SeqModulus /\ w <= MaxData[e] /\ s.sequence_number = v + w
    BY DEF NoWrap, MaySend
  <2>. HIDE DEF v, w
  <2>. QED BY <1>1, <2>1
<1>3. /\ r \in Sockets /\ p \in Packets /\ r.state = s.state
      /\ r.sequence_number = s.sequence_number + 1 /\ r.ack_number = s.ack_number
      /\ r.unacked_packets = Append(u, entry)
      /\ r.shut_down_for_writing = s.shut_down_for_writing
      /\ r.written = w /\ r.received = s.received /\ r.passed_over = s.passed_over
      /\ r.delayed_ack = s.delayed_ack
  <2>1. ExpectsAck(flags, w) BY DEF MaySend
  <2>. QED BY <1>1, <1>2, <2>1, SendingNumbered
<1>4. /\ p.to = Peer(e) /\ p.flags = flags /\ p.seq = v + w /\ p.data = w
      /\ "ACK" \in flags => p.ack = s.ack_number
  BY DEF Packet, MaySend
<1>5. sock' = [sock EXCEPT ![e] = r] /\ net' = net \cup {p}
  BY DEF Answer
<1>6. entry.packet = p /\ entry.ack_number = (v + w) + 1
  BY DEF MaySend
<1>. HIDE DEF r, p, entry
<1>7. /\ Len(r.unacked_packets) = n + 1 /\ r.unacked_packets[n + 1] = entry
      /\ \A i \in 1..n : r.unacked_packets[i] = u[i]
  <2>1. \A S : \A q \in Seq(S) : \A x :
           /\ Len(Append(q, x)) = Len(q) + 1 /\ Append(q, x)[Len(q) + 1] = x
           /\ \A i \in 1..Len(q) : Append(q, x)[i] = q[i]
    OBVIOUS
  <2>. QED BY <1>1, <1>3, <2>1
<1>8. ASSUME NEW i \in 1..n+1
      PROVE  /\ r.unacked_packets[i].packet.data + (n + 1) = w + i
             /\ r.unacked_packets[i].ack_number = v + 1 + r.unacked_packets[i].packet.data
             /\ r.unacked_packets[i].packet \in net'
  <2>1. CASE i = n + 1
    <3>1. r.unacked_packets[i].packet = p /\ r.unacked_packets[i].ack_number = (v + w) + 1
      BY <1>6, <1>7, <2>1
    <3>. HIDE DEF v, w, n
    <3>2. (v + w) + 1 = v + 1 + w BY <1>1
    <3>. QED BY <1>4, <1>5, <2>1, <3>1, <3>2
  <2>2. CASE i # n + 1
    <3>1. i \in 1..n BY <1>1, <2>2
    <3>2. r.unacked_packets[i] = u[i] BY <1>7, <3>1
    <3>3. u[i].packet \in net BY <3>1 DEF MaySend, InNet
    <3>4. u[i].packet.data + n + 1 = w + i /\ u[i].ack_number = v + 1 + u[i].packet.data
      BY <3>1 DEF MaySend
    <3>5. u[i].packet.data \in Nat BY <3>1, UnackedFields
    <3>6. u[i].packet.data + (n + 1) = w + i
      <4>. DEFINE d == u[i].packet.data
      <4>1. d \in Nat /\ d + n + 1 = w + i /\ i \in Nat BY <1>1, <3>4, <3>5
      <4>. HIDE DEF d, n, w
      <4>2. d + (n + 1) = w + i BY <1>1, <4>1
      <4>. QED BY <4>2 DEF d
    <3>. QED BY <1>5, <3>2, <3>3, <3>4, <3>6
  <2>. QED BY <2>1, <2>2
<1>9. InNet(r, net')
  BY <1>7, <1>8 DEF InNet
<1>10. SendInv(e, r)
  <2>1. r.sequence_number = v + 1 + w
    <3>1. r.sequence_number = (v + w) + 1 BY <1>3 DEF MaySend
    <3>. HIDE DEF v, w
    <3>. QED BY <1>1, <3>1
  <2>2. r.unacked_packets # <<>>
    <3>1. n + 1 # 0 BY <1>1
    <3>. QED BY <1>7, <3>1
  <2>. QED BY <1>3, <1>7, <1>8, <2>1, <2>2 DEF SendInv, MaySend
<1>11. GoesOn(e, r)
  BY <1>3 DEF GoesOn, MaySend
<1>12. ASSUME InStepWith(e, r)
       PROVE  ReceiveInv(r, Peer(e), sock[Peer(e)]) /\ LossInv(r, sock[Peer(e)]) /\ AckInv(Peer(e), r, p)
  <2>1. InStepWith(e, s) BY <1>3, <1>12 DEF InStepWith
  <2>2. ReceiveInv(r, Peer(e), sock[Peer(e)])
    BY <1>3, <2>1 DEF ReceiveInv, MaySend
  <2>3. LossInv(r, sock[Peer(e)])
    BY <1>3, <1>7, <2>1 DEF LossInv, MaySend
  <2>4. AckInv(Peer(e), r, p)
    <3>. SUFFICES ASSUME "ACK" \in flags, s.state \notin Gone, s.state \notin AtEnd
                  PROVE  p.ack <= FirstSeq[Peer(e)] + 1 + Len(s.received)
      BY <1>3, <1>4 DEF AckInv
    <3>1. p.ack = FirstSeq[Peer(e)] + 1 + Len(s.received)
      BY <1>4, <2>1 DEF ReceiveInv, MaySend
    <3>2. FirstSeq[Peer(e)] \in Nat /\ Len(s.received) \in Nat
      BY Fields, Peers, Numbers
    <3>. QED BY <3>1, <3>2
  <2>. QED BY <2>2, <2>3, <2>4
<1>13. Fits(e, r)
  BY <1>3, <1>10, <1>11, <1>12 DEF Fits
<1>14. PacketInv(e, r, p)
  <2>1. w = 0 => v + w = v BY <1>1
  <2>. QED BY <1>1, <1>3, <1>4, <2>1 DEF PacketInv, MaySend
<1>15. Sends(e, r, p)
  BY <1>3, <1>4, <1>12, <1>14 DEF Sends
<1>16. net' # {} /\ net \subseteq net' /\ \A q \in net' : q \in net \/ Sends(e, r, q)
  BY <1>5, <1>15
<1>. QED BY <1>5, <1>9, <1>13, <1>16, Moves

-----------------------------------------------------------------------------
(* The programs and the timers                                              *)

\* A new socket.
LEMMA NewSockets ==
    ASSUME NEW state \in TCPStates
    PROVE  /\ NewSocket(state) \in Sockets /\ NewSocket(state).state = state
           /\ NewSocket(state).written = 0 /\ NewSocket(state).received = <<>>
           /\ NewSocket(state).unacked_packets = <<>> /\ NewSocket(state).retransmit_attempts = 0
           /\ ~NewSocket(state).shut_down_for_writing /\ ~NewSocket(state).passed_over
           /\ ~NewSocket(state).delayed_ack
<1>1. /\ 0 \in SeqNumbers /\ 0 \in 0..MaxRetransmits + 1 /\ 0 \in 0..MaxDupAcks
  BY Numbers, TCPAssumption DEF Endpoints
<1>. QED BY <1>1 DEF NewSocket, Sockets

\* Nothing is sent, written or received in the beginning.
LEMMA InitialState == Init => TCPInv
<1>. SUFFICES ASSUME Init PROVE TCPInv
  OBVIOUS
<1>1. \A e \in Endpoints :
         /\ sock[e] \in Sockets /\ sock[e].state \in {"Closed", "Listen"}
         /\ e = "client" => sock[e].state = "Closed"
         /\ sock[e].written = 0 /\ sock[e].received = <<>>
         /\ sock[e].unacked_packets = <<>> /\ sock[e].retransmit_attempts = 0
         /\ ~sock[e].shut_down_for_writing /\ ~sock[e].delayed_ack /\ ~sock[e].passed_over
  <2>1. "Closed" \in TCPStates /\ "Listen" \in TCPStates BY DEF TCPStates
  <2>. QED BY <2>1, NewSockets DEF Init
<1>2. \A e \in Endpoints : MaxData[e] \in Nat /\ Peer(e) \in Endpoints
  BY Numbers, Peers
<1>3. \A e \in Endpoints : SendInv(e, sock[e]) /\ InNet(sock[e], net)
  BY <1>1, <1>2 DEF SendInv, InNet
<1>4. \A e \in Endpoints :
         ReceiveInv(sock[e], Peer(e), sock[Peer(e)]) /\ LossInv(sock[e], sock[Peer(e)])
  <2>. TAKE e \in Endpoints
  <2>1. /\ sock[e].written = 0 /\ Len(sock[e].received) = 0 /\ Len(sock[e].unacked_packets) = 0
        /\ sock[Peer(e)].written = 0 /\ Len(sock[Peer(e)].received) = 0
    BY <1>1, <1>2
  <2>2. sock[e].state \in {"Closed", "Listen"} BY <1>1
  <2>. QED BY <2>1, <2>2 DEF ReceiveInv, LossInv, AtEnd
<1>5. sock \in [Endpoints -> Sockets] /\ net = {}
  BY <1>1 DEF Init
<1>. QED BY <1>3, <1>4, <1>5 DEF TCPInv

\* protocol_connect() is the first step.
LEMMA ConnectStep == NoWrap /\ TCPInv /\ Connect => TCPInv'
<1>. SUFFICES ASSUME NoWrap, TCPInv, Connect PROVE TCPInv'
  OBVIOUS
<1>. DEFINE c == "client"
            s == In([sock[c] EXCEPT !.sequence_number = FirstSeq[c]], "SynSent")
<1>1. c \in Endpoints /\ "server" \in Endpoints /\ Peer(c) = "server" BY DEF Endpoints, Peer
<1>2. FirstSeq[c] \in SeqNumbers /\ FirstSeq[c] \in Nat /\ MaxData[c] \in Nat BY <1>1, Numbers
<1>3. Init BY DEF TCPInv, Connect
<1>4. /\ sock[c] \in Sockets /\ sock[c].state = "Closed"
      /\ sock[c].written = 0 /\ sock[c].received = <<>> /\ sock[c].unacked_packets = <<>>
      /\ ~sock[c].shut_down_for_writing /\ ~sock[c].passed_over /\ ~sock[c].delayed_ack
  BY <1>1, <1>3, NewSockets DEF Init, TCPStates
<1>5. /\ s \in Sockets /\ s.state = "SynSent" /\ s.sequence_number = FirstSeq[c]
      /\ s.written = 0 /\ s.received = <<>> /\ s.unacked_packets = <<>>
      /\ ~s.shut_down_for_writing /\ ~s.passed_over /\ ~s.delayed_ack
  BY <1>2, <1>4 DEF In, Sockets, TCPStates
<1>6. Answer(c, s, {"SYN"}, s.written) BY <1>5 DEF Connect
<1>. HIDE DEF s
<1>7. Len(s.received) = 0 /\ Len(s.unacked_packets) = 0 BY <1>5
<1>8. sock["server"] \in Sockets /\ sock["server"].written \in Nat /\ Len(sock["server"].received) \in Nat
  BY <1>1, Fields DEF TCPInv
<1>9. GoesOn(c, s)
  BY <1>4, <1>5, <1>7 DEF GoesOn, Connect, AtEnd
<1>10. ReceiveInv(s, Peer(c), sock[Peer(c)])
  BY <1>1, <1>5, <1>7, <1>8 DEF ReceiveInv, AtEnd
<1>11. 0 <= 0 + 1 + Len(sock["server"].received) BY <1>8
<1>12. MaySend(c, s, {"SYN"})
  BY <1>1, <1>2, <1>5, <1>7, <1>9, <1>10, <1>11 DEF MaySend, ExpectsAck, InNet
<1>13. {"SYN"} \in SUBSET Flags BY DEF Flags
<1>. QED BY <1>1, <1>5, <1>6, <1>12, <1>13, NumberedStep

\* protocol_send() gives the next number to the next data.
LEMMA SendStep ==
    ASSUME NoWrap, ~WritesWhenClosed, TCPInv, NEW e \in Endpoints, Send(e)
    PROVE  TCPInv'
<1>. DEFINE o == sock[e]
            s == [o EXCEPT !.written = @ + 1]
            flags == {"PSH", "ACK"}
            f == Peer(e)
<1>1. o \in Sockets /\ sock[f] \in Sockets BY Peers DEF TCPInv
<1>2. /\ o.written \in Nat /\ Len(o.unacked_packets) \in Nat /\ Len(o.received) \in Nat
      /\ sock[f].written \in Nat /\ Len(sock[f].received) \in Nat
      /\ FirstSeq[e] \in Nat /\ MaxData[e] \in Nat
  BY <1>1, Fields, Numbers
<1>3. o.state \in {"Established", "CloseWait"} /\ o.written < MaxData[e] /\ ~o.shut_down_for_writing
  BY DEF Send
<1>4. /\ s \in Sockets /\ s.state = o.state /\ s.sequence_number = o.sequence_number
      /\ s.ack_number = o.ack_number /\ s.written = o.written + 1 /\ s.received = o.received
      /\ s.unacked_packets = o.unacked_packets /\ s.passed_over = o.passed_over
      /\ s.shut_down_for_writing = o.shut_down_for_writing
  <2>. DEFINE w == o.written + 1
  <2>1. w \in Nat /\ s = [o EXCEPT !.written = w] BY <1>2
  <2>. HIDE DEF w, o, s
  <2>2. /\ s \in Sockets /\ s.state = o.state /\ s.sequence_number = o.sequence_number
        /\ s.ack_number = o.ack_number /\ s.written = w /\ s.received = o.received
        /\ s.unacked_packets = o.unacked_packets /\ s.passed_over = o.passed_over
        /\ s.shut_down_for_writing = o.shut_down_for_writing
    BY <1>1, <2>1 DEF Sockets
  <2>. QED BY <2>2 DEF w
<1>5. Answer(e, s, flags, s.written) BY <1>4 DEF Send
<1>. HIDE DEF s
<1>6. SendInv(e, o) /\ InNet(o, net) BY DEF TCPInv
<1>7. GoesOn(e, s) BY <1>2, <1>3, <1>4 DEF GoesOn
<1>8. InStepWith(e, s) => ReceiveInv(o, f, sock[f]) /\ LossInv(o, sock[f])
  BY <1>4 DEF TCPInv, InStepWith, InStep
<1>9. InStepWith(e, s) => ReceiveInv(s, f, sock[f])
  BY <1>4, <1>8 DEF ReceiveInv
<1>10. InStepWith(e, s) /\ sock[f].state \notin Gone =>
          s.written <= Len(s.unacked_packets) + 1 + Len(sock[f].received)
  <2>. SUFFICES ASSUME InStepWith(e, s), sock[f].state \notin Gone
                PROVE  s.written <= Len(s.unacked_packets) + 1 + Len(sock[f].received)
    OBVIOUS
  <2>. DEFINE w == o.written
              n == Len(o.unacked_packets)
              x == Len(sock[f].received)
  <2>1. w <= n + x BY <1>3, <1>8 DEF LossInv
  <2>2. w \in Nat /\ n \in Nat /\ x \in Nat BY <1>2
  <2>. HIDE DEF w, n, x
  <2>3. w + 1 <= n + 1 + x BY <2>1, <2>2
  <2>. QED BY <1>4, <2>3 DEF w, n, x
<1>11. s.sequence_number = FirstSeq[e] + s.written
  <2>. DEFINE w == o.written
              v == FirstSeq[e]
  <2>1. o.sequence_number = v + 1 + w /\ w \in Nat /\ v \in Nat BY <1>2, <1>3, <1>6 DEF SendInv
  <2>. HIDE DEF w, v
  <2>2. v + 1 + w = v + (w + 1) BY <2>1
  <2>. QED BY <1>4, <2>1, <2>2 DEF w, v
<1>12. ASSUME NEW i \in 1..Len(s.unacked_packets)
       PROVE  /\ s.unacked_packets[i].packet.data + Len(s.unacked_packets) + 1 = s.written + i
              /\ s.unacked_packets[i].ack_number = FirstSeq[e] + 1 + s.unacked_packets[i].packet.data
  <2>. DEFINE d == o.unacked_packets[i].packet.data
              w == o.written
              n == Len(o.unacked_packets)
  <2>1. d + n = w + i BY <1>4, <1>6 DEF SendInv
  <2>2. d \in Nat /\ w \in Nat /\ n \in Nat /\ i \in Nat BY <1>1, <1>2, <1>4, UnackedFields
  <2>. HIDE DEF d, w, n
  <2>3. d + n + 1 = w + 1 + i BY <2>1, <2>2
  <2>. QED BY <1>4, <1>6, <2>3 DEF d, w, n, SendInv
<1>13. s.written <= MaxData[e] /\ s.written # 0 BY <1>2, <1>3, <1>4
<1>14. InNet(s, net) BY <1>4, <1>6 DEF InNet
<1>15. MaySend(e, s, flags)
  BY <1>3, <1>4, <1>7, <1>9, <1>10, <1>11, <1>12, <1>13, <1>14 DEF MaySend, ExpectsAck, Opening, AtEnd
<1>16. flags \in SUBSET Flags BY DEF Flags
<1>. QED BY <1>4, <1>5, <1>15, <1>16, NumberedStep

\* Once something has happened there are packets.
LEMMA NotInitial ==
    ASSUME TCPInv, NEW e \in Endpoints,
           \/ sock[e].state \notin {"Closed", "Listen"}
           \/ sock[e].unacked_packets # <<>>
           \/ sock[e].delayed_ack
    PROVE  net # {}
<1>. SUFFICES ASSUME net = {} PROVE FALSE
  OBVIOUS
<1>1. PICK state \in {"Closed", "Listen"} : sock[e] = NewSocket(state)
  BY DEF TCPInv, Init
<1>2. state \in TCPStates BY DEF TCPStates
<1>. QED BY <1>1, <1>2, NewSockets

\* shutdown(): the FIN has the number after the last data.
LEMMA ShutdownStep ==
    ASSUME NoWrap, TCPInv, NEW e \in Endpoints, Shutdown(e)
    PROVE  TCPInv'
<1>. DEFINE o == sock[e]
            r == In([o EXCEPT !.shut_down_for_writing = TRUE], "FinWait1")
<1>1. o \in Sockets /\ o.state = "Established" BY DEF TCPInv, Shutdown
<1>2. Fits(e, o) /\ InNet(o, net) /\ net # {} BY <1>1, FitsNow, NotInitial
<1>3. /\ KeepsData(o, r) /\ r.state = "FinWait1" /\ r.shut_down_for_writing
      /\ r.sequence_number = o.sequence_number
  BY <1>1 DEF KeepsData, In, Sockets, TCPStates, Opening
<1>4. Answer(e, r, {"FIN", "ACK"}, 0) BY DEF Shutdown
<1>. HIDE DEF r
<1>5. Fits(e, r) BY <1>1, <1>2, <1>3, GoneFits DEF Gone
<1>6. InNet(r, net) BY <1>2, <1>3 DEF InNet, KeepsData
<1>7. {"FIN", "ACK"} \in SUBSET Flags BY DEF Flags
<1>. QED BY <1>2, <1>3, <1>4, <1>5, <1>6, <1>7, AnswerStep

\* close() after the other side.
LEMMA CloseStep ==
    ASSUME NoWrap, TCPInv, NEW e \in Endpoints, Close(e)
    PROVE  TCPInv'
<1>. DEFINE o == sock[e]
            r == In([o EXCEPT !.shut_down_for_writing = TRUE], "LastAck")
<1>1. o \in Sockets /\ o.state = "CloseWait" BY DEF TCPInv, Close
<1>2. Fits(e, o) /\ InNet(o, net) /\ net # {} BY <1>1, FitsNow, NotInitial
<1>3. /\ KeepsData(o, r) /\ r.state = "LastAck" /\ r.shut_down_for_writing
      /\ r.sequence_number = o.sequence_number /\ r.ack_number = o.ack_number
  BY <1>1 DEF KeepsData, In, Sockets, TCPStates, Opening
<1>4. Answer(e, r, {"FIN", "ACK"}, 0) BY DEF Close
<1>. HIDE DEF r
<1>5. Fits(e, r)
  <2>1. SendInv(e, r) BY <1>1, <1>2, <1>3 DEF Fits, KeepsData, SendInv, Opening
  <2>2. GoesOn(e, r) BY <1>1, <1>2, <1>3 DEF Fits, KeepsData, GoesOn, AtEnd, Gone
  <2>3. InStepWith(e, r) => InStepWith(e, o) BY <1>3 DEF KeepsData, InStepWith
  <2>4. InStepWith(e, r) => ReceiveInv(r, Peer(e), sock[Peer(e)])
    BY <1>1, <1>2, <1>3, <2>3 DEF Fits, KeepsData, ReceiveInv, AtEnd
  <2>5. InStepWith(e, r) => LossInv(r, sock[Peer(e)])
    BY <1>1, <1>2, <1>3, <2>3 DEF Fits, KeepsData, LossInv
  <2>. QED BY <1>3, <2>1, <2>2, <2>4, <2>5 DEF Fits, KeepsData
<1>6. InNet(r, net) BY <1>2, <1>3 DEF InNet, KeepsData
<1>7. {"FIN", "ACK"} \in SUBSET Flags BY DEF Flags
<1>. QED BY <1>2, <1>3, <1>4, <1>5, <1>6, <1>7, AnswerStep

\* Retransmission sends nothing new.
LEMMA RetransmitStep ==
    ASSUME TCPInv, NEW e \in Endpoints, Retransmit(e)
    PROVE  TCPInv'
<1>. DEFINE o == sock[e]
            s == [o EXCEPT !.retransmit_attempts = Counted(@)]
            r == In(s, "Closed")
<1>1. o \in Sockets /\ o.retransmit_attempts \in 0..MaxRetransmits + 1 /\ MaxRetransmits \in Nat
  <2>1. o \in Sockets /\ o.retransmit_attempts \in 0..MaxRetransmits + 1 BY DEF TCPInv, Sockets
  <2>. QED BY <2>1, TCPAssumption
<1>2. Counted(o.retransmit_attempts) \in 0..MaxRetransmits + 1
  BY <1>1 DEF Counted
<1>3. /\ s \in Sockets /\ s.unacked_packets = o.unacked_packets /\ s.state = o.state
      /\ s.written = o.written /\ s.received = o.received /\ s.passed_over = o.passed_over
      /\ s.shut_down_for_writing = o.shut_down_for_writing /\ s.delayed_ack = o.delayed_ack
      /\ s.sequence_number = o.sequence_number /\ s.ack_number = o.ack_number
  BY <1>1, <1>2 DEF Sockets
<1>4. o.unacked_packets # <<>> BY <1>3 DEF Retransmit
<1>5. Fits(e, o) /\ InNet(o, net) /\ net # {} BY <1>4, FitsNow, NotInitial
<1>6. KeepsData(o, s) BY <1>3, <1>4 DEF KeepsData
<1>7. KeepsData(o, r) /\ r.state = "Closed"
  BY <1>3, <1>4 DEF KeepsData, In, Sockets, TCPStates, Opening
<1>8. \/ Quiet(e, r)
      \/ /\ sock' = [sock EXCEPT ![e] = s]
         /\ net' = net \cup {s.unacked_packets[i].packet : i \in DOMAIN s.unacked_packets}
  BY DEF Retransmit
<1>. HIDE DEF s, r
<1>9. CASE Quiet(e, r)
  <2>1. Fits(e, r) BY <1>5, <1>7, GoneFits DEF Gone
  <2>2. InNet(r, net) BY <1>5, <1>7 DEF InNet, KeepsData
  <2>. QED BY <1>5, <1>9, <2>1, <2>2, QuietStep
<1>10. CASE /\ sock' = [sock EXCEPT ![e] = s]
            /\ net' = net \cup {s.unacked_packets[i].packet : i \in DOMAIN s.unacked_packets}
  <2>1. Fits(e, s) BY <1>3, <1>5, <1>6, StaysFit
  <2>2. InNet(s, net) BY <1>3, <1>5 DEF InNet
  <2>3. DOMAIN s.unacked_packets = 1..Len(s.unacked_packets) BY <1>3, Fields
  <2>4. net' = net BY <1>10, <2>2, <2>3 DEF InNet
  <2>. QED BY <1>5, <1>10, <2>1, <2>2, <2>4, Moves
<1>. QED BY <1>8, <1>9, <1>10

\* A delayed ACK asks for what comes next.
LEMMA FlushDelayedAckStep ==
    ASSUME NoWrap, TCPInv, NEW e \in Endpoints, FlushDelayedAck(e)
    PROVE  TCPInv'
<1>. DEFINE o == sock[e]
            s == [o EXCEPT !.delayed_ack = FALSE]
<1>1. o \in Sockets /\ o.delayed_ack BY DEF TCPInv, FlushDelayedAck
<1>2. Fits(e, o) /\ InNet(o, net) /\ net # {} BY <1>1, FitsNow, NotInitial
<1>3. /\ KeepsData(o, s) /\ s.state = o.state /\ s.shut_down_for_writing = o.shut_down_for_writing
      /\ s.sequence_number = o.sequence_number /\ s.ack_number = o.ack_number
  BY <1>1 DEF KeepsData, Sockets
<1>4. Answer(e, s, {"ACK"}, 0) \/ Quiet(e, s) BY DEF FlushDelayedAck
<1>. HIDE DEF s
<1>5. Fits(e, s) BY <1>2, <1>3, StaysFit
<1>6. InNet(s, net) BY <1>2, <1>3 DEF InNet, KeepsData
<1>7. s.state \notin {"Listen", "SynSent"} BY <1>1, <1>2, <1>3 DEF Fits, SendInv, Opening
<1>8. {"ACK"} \in SUBSET Flags BY DEF Flags
<1>. QED BY <1>2, <1>4, <1>5, <1>6, <1>7, <1>8, AnswerStep, QuietStep

\* The end of TimeWait.
LEMMA TimeWaitElapsesStep ==
    ASSUME TCPInv, NEW e \in Endpoints, TimeWaitElapses(e)
    PROVE  TCPInv'
<1>. DEFINE o == sock[e]
            r == In(o, "Closed")
<1>1. o \in Sockets /\ o.state = "TimeWait" BY DEF TCPInv, TimeWaitElapses
<1>2. Fits(e, o) /\ InNet(o, net) /\ net # {} BY <1>1, FitsNow, NotInitial
<1>3. KeepsData(o, r) /\ r.state = "Closed" BY <1>1 DEF KeepsData, In, Sockets, TCPStates, Opening
<1>4. Quiet(e, r) BY DEF TimeWaitElapses
<1>. HIDE DEF r
<1>5. Fits(e, r) BY <1>2, <1>3, GoneFits DEF Gone
<1>6. InNet(r, net) BY <1>2, <1>3 DEF InNet, KeepsData
<1>. QED BY <1>2, <1>4, <1>5, <1>6, QuietStep

-----------------------------------------------------------------------------
(* handle_tcp()                                                             *)

\* The packet that arrives was sent by the peer; its number, advanced, is a
\* sequence number.
LEMMA Arrival ==
    ASSUME TCPInv, NEW e \in Endpoints, NEW p \in net, p.to = e
    PROVE  /\ p \in Packets /\ PacketInv(Peer(e), sock[Peer(e)], p)
           /\ p.ack \in SeqNumbers /\ p.seq \in Nat /\ p.data \in Nat
           /\ Advance(p.seq, PayloadSize(p) + 0) \in SeqNumbers
           /\ Advance(p.seq, PayloadSize(p) + 1) \in SeqNumbers
<1>1. p \in Packets BY DEF TCPInv
<1>2. p.ack \in SeqNumbers /\ p.seq \in Nat /\ p.data \in Nat BY <1>1, Numbers DEF Packets
<1>3. PacketInv(Peer(e), sock[Peer(e)], p) BY Peers DEF TCPInv
<1>4. PayloadSize(p) + 0 \in Nat /\ PayloadSize(p) + 1 \in Nat BY DEF PayloadSize
<1>. QED BY <1>1, <1>2, <1>3, <1>4, AdvanceOf

\* The socket stops to take data, with or without an answer.
LEMMA GoneStep ==
    ASSUME NoWrap, TCPInv, NEW e \in Endpoints, net # {}, NEW s, Fits(e, s), InNet(s, net),
           NEW r, KeepsData(s, r), r.state \in Gone,
           r.state = "Closed"
              \/ (s.state \notin {"Closed", "Listen"} /\ r.sequence_number = s.sequence_number),
           Quiet(e, r) \/ \E flags \in {{"ACK"}, {"RST"}, {"RST", "ACK"}} : Answer(e, r, flags, 0)
    PROVE  TCPInv'
<1>1. Fits(e, r) BY GoneFits
<1>2. InNet(r, net) BY DEF InNet, KeepsData
<1>3. r.state \notin {"Listen", "SynSent"} BY DEF Gone
<1>4. CASE Quiet(e, r) BY <1>1, <1>2, <1>4, QuietStep
<1>5. ASSUME NEW flags \in {{"ACK"}, {"RST"}, {"RST", "ACK"}}, Answer(e, r, flags, 0) PROVE TCPInv'
  <2>1. flags \in SUBSET Flags /\ "SYN" \notin flags /\ "FIN" \notin flags BY DEF Flags
  <2>. QED BY <1>1, <1>2, <1>3, <1>5, <2>1, AnswerStep
<1>. QED BY <1>4, <1>5

\* A reset.
LEMMA ResetStep ==
    ASSUME NoWrap, TCPInv, NEW e \in Endpoints, net # {}, NEW s, Fits(e, s), InNet(s, net),
           Reset(e, s) \/ Quiet(e, In(s, "Closed"))
    PROVE  TCPInv'
<1>1. KeepsData(s, In(s, "Closed")) /\ In(s, "Closed").state = "Closed"
  BY DEF Fits, KeepsData, In, Sockets, TCPStates, Opening
<1>. QED BY <1>1, GoneStep DEF Reset, Gone

\* In Closed everything but a reset is answered with one.
LEMMA ReceiveClosedStep ==
    ASSUME NoWrap, TCPInv, NEW e \in Endpoints, NEW p \in net, p.to = e,
           NEW s, Fits(e, s), InNet(s, net), ReceiveClosed(e, p, s)
    PROVE  TCPInv'
<1>. DEFINE r == Taken([s EXCEPT !.sequence_number = p.ack], p, 1)
<1>1. p.ack \in SeqNumbers /\ Advance(p.seq, PayloadSize(p) + 1) \in SeqNumbers BY Arrival
<1>2. KeepsData(s, r) /\ r.state = "Closed"
  BY <1>1 DEF Fits, KeepsData, Taken, Sockets, ReceiveClosed
<1>3. Quiet(e, s) \/ Answer(e, r, {"RST", "ACK"}, 0) BY DEF ReceiveClosed
<1>. HIDE DEF r
<1>. QED BY <1>2, <1>3, QuietStep, GoneStep DEF Gone

\* TimeWait and CloseWait know of no packet to take.
LEMMA ReceiveTooLateStep ==
    ASSUME NoWrap, TCPInv, NEW e \in Endpoints, NEW p \in net, p.to = e,
           NEW s, Fits(e, s), InNet(s, net), ReceiveTimeWait(e, p, s) \/ ReceiveCloseWait(e, p, s)
    PROVE  TCPInv'
  BY ResetStep DEF ReceiveTimeWait, ReceiveCloseWait

\* In LastAck an ACK, of whatever, is the last packet.
LEMMA ReceiveLastAckStep ==
    ASSUME NoWrap, TCPInv, NEW e \in Endpoints, NEW p \in net, p.to = e,
           NEW s, Fits(e, s), InNet(s, net), ReceiveLastAck(e, p, s)
    PROVE  TCPInv'
<1>. DEFINE r == Taken(In(s, "Closed"), p, 0)
<1>1. Advance(p.seq, PayloadSize(p) + 0) \in SeqNumbers BY Arrival
<1>2. KeepsData(s, r) /\ r.state = "Closed"
  BY <1>1 DEF Fits, KeepsData, Taken, In, Sockets, TCPStates, Opening
<1>3. Quiet(e, r) \/ Reset(e, s) BY DEF ReceiveLastAck
<1>. HIDE DEF r
<1>. QED BY <1>2, <1>3, ResetStep, GoneStep DEF Gone

\* FinWait1 and FinWait2 take no data, only the ACK and the FIN.
LEMMA ReceiveFinWaitStep ==
    ASSUME NoWrap, TCPInv, NEW e \in Endpoints, NEW p \in net, p.to = e,
           NEW s, Fits(e, s), InNet(s, net), ReceiveFinWait1(e, p, s) \/ ReceiveFinWait2(e, p, s)
    PROVE  TCPInv'
<1>. DEFINE r == Taken(In(s, "FinWait2"), p, 0)
            t == Taken(In(s, "TimeWait"), p, 1)
<1>1. /\ Advance(p.seq, PayloadSize(p) + 0) \in SeqNumbers
      /\ Advance(p.seq, PayloadSize(p) + 1) \in SeqNumbers
  BY Arrival
<1>2. KeepsData(s, r) /\ r.state = "FinWait2" /\ r.sequence_number = s.sequence_number
  BY <1>1 DEF Fits, KeepsData, Taken, In, Sockets, TCPStates, Opening
<1>3. KeepsData(s, t) /\ t.state = "TimeWait" /\ t.sequence_number = s.sequence_number
  BY <1>1 DEF Fits, KeepsData, Taken, In, Sockets, TCPStates, Opening
<1>4. s.state \in {"FinWait1", "FinWait2"} BY DEF ReceiveFinWait1, ReceiveFinWait2
<1>5. \/ Quiet(e, r) \/ Answer(e, t, {"ACK"}, 0) \/ Quiet(e, s)
      \/ Reset(e, s) \/ Quiet(e, In(s, "Closed"))
  BY DEF ReceiveFinWait1, ReceiveFinWait2
<1>. HIDE DEF r, t
<1>6. CASE Quiet(e, r) BY <1>2, <1>4, <1>6, GoneStep DEF Gone
<1>7. CASE Answer(e, t, {"ACK"}, 0) BY <1>3, <1>4, <1>7, GoneStep DEF Gone
<1>8. CASE Quiet(e, s) BY <1>8, QuietStep
<1>9. CASE Reset(e, s) \/ Quiet(e, In(s, "Closed")) BY <1>9, ResetStep
<1>. QED BY <1>5, <1>6, <1>7, <1>8, <1>9

\* As long as the stream is open, a socket that keeps its data goes on.
LEMMA OpenGoesOn ==
    ASSUME NEW e \in Endpoints, net # {}, NEW s, Fits(e, s), s.state \notin Gone \cup AtEnd,
           NEW r, KeepsData(s, r)
    PROVE  GoesOn(e, r)
  BY DEF Fits, GoesOn, KeepsData, Gone, AtEnd

\* A packet without data takes no number but that of its SYN or FIN.
LEMMA TakenPlain ==
    ASSUME TCPInv, NEW e \in Endpoints, NEW p \in net, p.to = e, p.data = 0, NEW extra \in {0, 1},
           p.seq + extra < SeqModulus
    PROVE  Advance(p.seq, PayloadSize(p) + extra) = p.seq + extra
<1>1. PayloadSize(p) + extra = extra BY DEF PayloadSize
<1>2. p.seq \in Nat BY Arrival
<1>. QED BY <1>1, <1>2, AdvanceOf

\* Listen takes a SYN and answers with its own; it passes over the rest.
LEMMA ReceiveListenStep ==
    ASSUME NoWrap, TCPInv, NEW e \in Endpoints, NEW p \in net, p.to = e,
           NEW s, Fits(e, s), InNet(s, net), ReceiveListen(e, p, s)
    PROVE  TCPInv'
<1>. DEFINE f == Peer(e)
            r == Taken([In(s, "SynReceived") EXCEPT !.sequence_number = FirstSeq[e]], p, 1)
            flags == {"SYN", "ACK"}
<1>1. CASE p.flags # {"SYN"}
  <2>1. Quiet(e, sock[e]) BY <1>1 DEF ReceiveListen
  <2>. QED BY <2>1, FitsNow, QuietStep
<1>2. CASE p.flags = {"SYN"}
  <2>1. s \in Sockets /\ s.state = "Listen" /\ SendInv(e, s) BY DEF Fits, ReceiveListen
  <2>2. s.written = 0 /\ s.received = <<>> /\ s.unacked_packets = <<>> /\ ~s.delayed_ack
        /\ ~s.shut_down_for_writing /\ ~s.passed_over /\ e # "client"
    BY <2>1 DEF SendInv, Opening
  <2>3. f \in Endpoints /\ FirstSeq[e] \in SeqNumbers /\ FirstSeq[e] \in Nat /\ FirstSeq[f] \in Nat
        /\ MaxData[e] \in Nat /\ MaxData[f] \in Nat /\ SeqModulus \in Nat
    BY Peers, Numbers, TCPAssumption
  <2>4. Advance(p.seq, PayloadSize(p) + 1) \in SeqNumbers /\ PacketInv(f, sock[f], p)
    BY Arrival
  <2>5. p.data = 0 /\ p.seq = FirstSeq[f] BY <1>2, <2>4 DEF PacketInv
  <2>6. p.seq + 1 < SeqModulus
    <3>1. FirstSeq[f] + MaxData[f] + 2 < SeqModulus BY <2>3 DEF NoWrap
    <3>2. \A a, b, c \in Nat : a + b + 2 < c => a + 1 < c OBVIOUS
    <3>. QED BY <2>3, <2>5, <3>1, <3>2
  <2>7. Advance(p.seq, PayloadSize(p) + 1) = FirstSeq[f] + 1 BY <2>5, <2>6, TakenPlain
  <2>8. /\ KeepsData(s, r) /\ r.state = "SynReceived" /\ r.ack_number = FirstSeq[f] + 1
        /\ r.sequence_number = FirstSeq[e] /\ ~r.delayed_ack /\ ~r.shut_down_for_writing
    BY <2>1, <2>2, <2>3, <2>4, <2>7 DEF KeepsData, In, Taken, Sockets, TCPStates, Opening
  <2>9. Answer(e, r, flags, 0) BY <1>2 DEF ReceiveListen
  <2>. HIDE DEF r
  <2>10. GoesOn(e, r) BY <2>1, <2>8, OpenGoesOn DEF Gone, AtEnd
  <2>11. /\ r \in Sockets /\ r.written = 0 /\ r.received = <<>> /\ r.unacked_packets = <<>>
         /\ ~r.passed_over
    BY <2>2, <2>8 DEF KeepsData
  <2>12. Len(r.received) = 0 /\ Len(r.unacked_packets) = 0 BY <2>11
  <2>13. sock[f] \in Sockets /\ sock[f].written \in Nat /\ Len(sock[f].received) \in Nat
    BY <2>3, Fields DEF TCPInv
  <2>14. ReceiveInv(r, f, sock[f])
    <3>1. FirstSeq[f] + 1 + 0 = FirstSeq[f] + 1 BY <2>3
    <3>. QED BY <2>8, <2>12, <2>13, <3>1 DEF ReceiveInv, AtEnd
  <2>15. 0 <= 0 + 1 + Len(sock[f].received) BY <2>13
  <2>16. MaySend(e, r, flags)
    BY <2>2, <2>3, <2>8, <2>10, <2>11, <2>12, <2>14, <2>15 DEF MaySend, ExpectsAck, InNet
  <2>17. flags \in SUBSET Flags BY DEF Flags
  <2>. QED BY <2>9, <2>11, <2>16, <2>17, NumberedStep
<1>. QED BY <1>1, <1>2

\* SynSent waits for the SYN of the server.
LEMMA ReceiveSynSentStep ==
    ASSUME NoWrap, TCPInv, NEW e \in Endpoints, NEW p \in net, p.to = e,
           NEW s, Fits(e, s), InNet(s, net), ReceiveSynSent(e, p, s)
    PROVE  TCPInv'
<1>. DEFINE f == Peer(e)
            r == Taken(In(s, "Established"), p, 1)
            c == Taken([In(s, "Closed") EXCEPT !.delayed_ack = TRUE], p, 1)
<1>1. s \in Sockets /\ s.state = "SynSent" /\ SendInv(e, s) BY DEF Fits, ReceiveSynSent
<1>2. Advance(p.seq, PayloadSize(p) + 1) \in SeqNumbers /\ PacketInv(f, sock[f], p) BY Arrival
<1>3. \/ p.flags = {"SYN", "ACK"} /\ Answer(e, r, {"ACK"}, 0)
      \/ Quiet(e, c) \/ Quiet(e, In(s, "Closed")) \/ Reset(e, s)
  BY DEF ReceiveSynSent
<1>4. CASE p.flags = {"SYN", "ACK"} /\ Answer(e, r, {"ACK"}, 0)
  <2>1. p.data = 0 /\ p.seq = FirstSeq[f]
    <3>1. "SYN" \in p.flags /\ p.flags # {"PSH", "ACK"} BY <1>4
    <3>. QED BY <1>2, <3>1 DEF PacketInv
  <2>2. f \in Endpoints /\ FirstSeq[f] \in Nat /\ MaxData[f] \in Nat /\ SeqModulus \in Nat
    BY Peers, Numbers, TCPAssumption
  <2>3. p.seq + 1 < SeqModulus
    <3>1. FirstSeq[f] + MaxData[f] + 2 < SeqModulus BY <2>2 DEF NoWrap
    <3>2. \A a, b, d \in Nat : a + b + 2 < d => a + 1 < d OBVIOUS
    <3>. QED BY <2>1, <2>2, <3>1, <3>2
  <2>4. Advance(p.seq, PayloadSize(p) + 1) = FirstSeq[f] + 1 BY <2>1, <2>3, TakenPlain
  <2>5. /\ KeepsData(s, r) /\ r.state = "Established" /\ r.ack_number = FirstSeq[f] + 1
        /\ r.sequence_number = s.sequence_number
        /\ r.shut_down_for_writing = s.shut_down_for_writing
    BY <1>1, <1>2, <2>4 DEF KeepsData, In, Taken, Sockets, TCPStates, Opening
  <2>. HIDE DEF r
  <2>6. GoesOn(e, r) BY <1>1, <2>5, OpenGoesOn DEF Gone, AtEnd
  <2>7. SendInv(e, r) BY <1>1, <2>5 DEF SendInv, KeepsData, Opening
  <2>8. InStepWith(e, r) => InStepWith(e, s) BY <2>5 DEF InStepWith, KeepsData
  <2>9. InStepWith(e, r) => LossInv(r, sock[f])
    BY <1>1, <2>5, <2>8 DEF Fits, LossInv, KeepsData
  <2>10. InStepWith(e, r) => ReceiveInv(r, f, sock[f])
    <3>1. r.received = <<>> BY <1>1, <2>5 DEF SendInv, Opening, KeepsData
    <3>2. Len(r.received) = 0 BY <3>1
    <3>3. FirstSeq[f] + 1 + 0 = FirstSeq[f] + 1 BY <2>2
    <3>4. sock[f].written \in Nat BY <2>2, Fields DEF TCPInv
    <3>. QED BY <2>5, <3>2, <3>3, <3>4 DEF ReceiveInv, AtEnd
  <2>11. Fits(e, r) BY <2>5, <2>6, <2>7, <2>9, <2>10 DEF Fits, KeepsData
  <2>12. InNet(r, net) BY <2>5 DEF InNet, KeepsData
  <2>13. {"ACK"} \in SUBSET Flags BY DEF Flags
  <2>. QED BY <1>4, <2>5, <2>11, <2>12, <2>13, AnswerStep
<1>5. CASE Quiet(e, c)
  <2>1. KeepsData(s, c) /\ c.state = "Closed"
    BY <1>1, <1>2 DEF KeepsData, In, Taken, Sockets, TCPStates, Opening
  <2>. HIDE DEF c
  <2>. QED BY <1>5, <2>1, GoneStep DEF Gone
<1>6. CASE Quiet(e, In(s, "Closed")) \/ Reset(e, s)
  BY <1>6, ResetStep
<1>. QED BY <1>3, <1>4, <1>5, <1>6

\* SynReceived believes an ACK: when its number is the one expected, the
\* stream begins at its beginning, and otherwise data are passed over.
LEMMA ReceiveSynReceivedStep ==
    ASSUME NoWrap, TCPInv, NEW e \in Endpoints, NEW p \in net, p.to = e,
           NEW s, Fits(e, s), InNet(s, net), ReceiveSynReceived(e, p, s)
    PROVE  TCPInv'
<1>. DEFINE f == Peer(e)
            over == p.seq # s.ack_number
            r == Taken([In(s, "Established") EXCEPT !.passed_over = over], p, 0)
<1>1. s \in Sockets /\ s.state = "SynReceived" /\ SendInv(e, s) BY DEF Fits, ReceiveSynReceived
<1>2. Advance(p.seq, PayloadSize(p) + 0) \in SeqNumbers /\ PacketInv(f, sock[f], p) BY Arrival
<1>3. \/ p.flags = {"ACK"} /\ Quiet(e, r)
      \/ Quiet(e, s) \/ Reset(e, s)
  BY DEF ReceiveSynReceived
<1>4. CASE p.flags = {"ACK"} /\ Quiet(e, r)
  <2>1. e = "server" /\ ~s.passed_over BY <1>1 DEF SendInv, Endpoints, Opening
  <2>2. over \in BOOLEAN OBVIOUS
  <2>. HIDE DEF over
  <2>3. /\ r \in Sockets /\ r.state = "Established" /\ r.passed_over = over
        /\ r.ack_number = Advance(p.seq, PayloadSize(p) + 0)
        /\ r.sequence_number = s.sequence_number /\ r.written = s.written
        /\ r.received = s.received /\ r.unacked_packets = s.unacked_packets
        /\ r.retransmit_attempts = s.retransmit_attempts
        /\ r.shut_down_for_writing = s.shut_down_for_writing
    BY <1>1, <1>2, <2>2 DEF In, Taken, Sockets, TCPStates
  <2>. HIDE DEF r
  <2>4. SendInv(e, r) BY <1>1, <2>3 DEF SendInv, Opening
  <2>5. GoesOn(e, r) BY <1>1, <2>1, <2>3 DEF Fits, GoesOn, Gone, AtEnd
  <2>6. InNet(r, net) BY <2>3 DEF InNet
  <2>7. ASSUME InStepWith(e, r) PROVE ReceiveInv(r, f, sock[f]) /\ LossInv(r, sock[f])
    <3>1. p.seq = s.ack_number BY <2>1, <2>3, <2>7 DEF InStepWith, over
    <3>2. InStepWith(e, s) BY <2>1 DEF InStepWith
    <3>3. ReceiveInv(s, f, sock[f]) /\ LossInv(s, sock[f]) BY <3>2 DEF Fits
    <3>4. p.data = 0 BY <1>2, <1>4 DEF PacketInv
    <3>5. p.seq + 0 < SeqModulus /\ p.seq + 0 = p.seq
      <4>1. s.ack_number \in 0..SeqModulus-1 BY <1>1, Fields DEF SeqNumbers
      <4>. QED BY <3>1, <4>1, TCPAssumption
    <3>6. r.ack_number = s.ack_number BY <2>3, <3>1, <3>4, <3>5, TakenPlain
    <3>7. ReceiveInv(r, f, sock[f]) BY <1>1, <2>3, <3>3, <3>6 DEF ReceiveInv, AtEnd
    <3>8. LossInv(r, sock[f]) BY <1>1, <2>3, <3>3 DEF LossInv
    <3>. QED BY <3>7, <3>8
  <2>8. Fits(e, r) BY <2>3, <2>4, <2>5, <2>7 DEF Fits
  <2>. QED BY <1>4, <2>6, <2>8, QuietStep
<1>5. CASE Quiet(e, s) BY <1>5, QuietStep
<1>6. CASE Reset(e, s) BY <1>6, ResetStep
<1>. QED BY <1>3, <1>4, <1>5, <1>6

\* Established takes the data and the FIN that it waits for, and only these.
LEMMA ReceiveFinStep ==
    ASSUME NoWrap, TCPInv, NEW e \in Endpoints, NEW p \in net, p.to = e,
           NEW s, Fits(e, s), InNet(s, net), s.state = "Established",
           InSequence(p, s), "FIN" \in p.flags,
           Quiet(e, Taken([In(s, "CloseWait") EXCEPT !.delayed_ack = TRUE], p, 1))
    PROVE  TCPInv'
<1>. DEFINE f == Peer(e)
            t == sock[f]
            r == Taken([In(s, "CloseWait") EXCEPT !.delayed_ack = TRUE], p, 1)
<1>1. s \in Sockets /\ SendInv(e, s) BY DEF Fits
<1>2. /\ Advance(p.seq, PayloadSize(p) + 1) \in SeqNumbers /\ PacketInv(f, t, p)
      /\ p.seq \in Nat
  BY Arrival
<1>3. /\ f \in Endpoints /\ FirstSeq[f] \in Nat /\ MaxData[f] \in Nat /\ SeqModulus \in Nat
      /\ t \in Sockets /\ t.written \in Nat /\ Len(s.received) \in Nat /\ t.written <= MaxData[f]
  BY <1>1, Peers, Numbers, Fields, TCPAssumption DEF TCPInv, SendInv
<1>4. p.data = 0 /\ t.shut_down_for_writing /\ p.seq = FirstSeq[f] + 1 + t.written
  <2>1. p.flags # {"PSH", "ACK"} OBVIOUS
  <2>. QED BY <1>2, <2>1 DEF PacketInv
<1>5. p.seq + 1 < SeqModulus /\ p.seq + 1 = FirstSeq[f] + 2 + t.written
  <2>1. FirstSeq[f] + MaxData[f] + 2 < SeqModulus BY <1>3 DEF NoWrap
  <2>2. \A a, b, c, d \in Nat : a + b + 2 < c /\ d <= b =>
           (a + 1 + d) + 1 < c /\ (a + 1 + d) + 1 = a + 2 + d
    OBVIOUS
  <2>. QED BY <1>3, <1>4, <2>1, <2>2
<1>6. Advance(p.seq, PayloadSize(p) + 1) = FirstSeq[f] + 2 + t.written
  BY <1>4, <1>5, TakenPlain
<1>7. /\ KeepsData(s, r) /\ r.state = "CloseWait" /\ r.ack_number = FirstSeq[f] + 2 + t.written
      /\ r.sequence_number = s.sequence_number
      /\ r.shut_down_for_writing = s.shut_down_for_writing
  BY <1>1, <1>2, <1>6 DEF KeepsData, In, Taken, Sockets, TCPStates, Opening
<1>8. Quiet(e, r) OBVIOUS
<1>. HIDE DEF r
<1>9. GoesOn(e, r) BY <1>7, OpenGoesOn DEF Gone, AtEnd
<1>10. SendInv(e, r) BY <1>1, <1>7 DEF SendInv, KeepsData, Opening
<1>11. InNet(r, net) BY <1>7 DEF InNet, KeepsData
<1>12. ASSUME InStepWith(e, r) PROVE ReceiveInv(r, f, t) /\ LossInv(r, t)
  <2>1. InStepWith(e, s) BY <1>7, <1>12 DEF InStepWith, KeepsData
  <2>2. ReceiveInv(s, f, t) /\ LossInv(s, t) BY <2>1 DEF Fits
  <2>3. p.seq = FirstSeq[f] + 1 + Len(s.received) BY <2>2 DEF ReceiveInv, InSequence
  <2>4. Len(s.received) = t.written
    <3>1. \A a, b, c \in Nat : a + 1 + b = a + 1 + c => b = c OBVIOUS
    <3>. QED BY <1>3, <1>4, <2>3, <3>1
  <2>5. ReceiveInv(r, f, t) BY <1>3, <1>4, <1>7, <2>2, <2>4 DEF ReceiveInv, KeepsData
  <2>6. LossInv(r, t) BY <1>7, <2>2 DEF LossInv, KeepsData
  <2>. QED BY <2>5, <2>6
<1>13. Fits(e, r) BY <1>7, <1>9, <1>10, <1>12 DEF Fits, KeepsData
<1>. QED BY <1>8, <1>11, <1>13, QuietStep

\* did_receive() of the data that are expected next.
LEMMA ReceiveDataStep ==
    ASSUME NoWrap, TCPInv, NEW e \in Endpoints, NEW p \in net, p.to = e,
           NEW s, Fits(e, s), InNet(s, net), s.state = "Established",
           InSequence(p, s), p.data # 0,
           Quiet(e, Taken([s EXCEPT !.received = Append(@, p.data), !.delayed_ack = TRUE], p, 0))
    PROVE  TCPInv'
<1>. DEFINE f == Peer(e)
            t == sock[f]
            q == Append(s.received, p.data)
            r == Taken([s EXCEPT !.received = q, !.delayed_ack = TRUE], p, 0)
            n == Len(s.received)
            a == Advance(p.seq, PayloadSize(p) + 0)
<1>1. s \in Sockets /\ SendInv(e, s) BY DEF Fits
<1>2. a \in SeqNumbers /\ PacketInv(f, t, p) /\ p.seq \in Nat /\ p.data \in Nat
  BY Arrival
<1>3. /\ f \in Endpoints /\ FirstSeq[f] \in Nat /\ MaxData[f] \in Nat /\ SeqModulus \in Nat
      /\ t \in Sockets /\ t.written \in Nat /\ n \in Nat /\ t.written <= MaxData[f]
      /\ s.received \in Seq(Nat)
  BY <1>1, Peers, Numbers, Fields, TCPAssumption DEF TCPInv, SendInv
<1>4. p.data <= t.written /\ p.seq = FirstSeq[f] + p.data
  BY <1>2 DEF PacketInv
<1>5. a = (FirstSeq[f] + p.data) + 1
  <2>1. FirstSeq[f] + MaxData[f] + 2 < SeqModulus BY <1>3 DEF NoWrap
  <2>2. \A b, m, c, d, w \in Nat : b + m + 2 < c /\ w <= m /\ d <= w => (b + d) + 1 < c
    OBVIOUS
  <2>3. p.seq + 1 < SeqModulus BY <1>2, <1>3, <1>4, <2>1, <2>2
  <2>4. PayloadSize(p) + 0 = 1 BY DEF PayloadSize
  <2>. QED BY <1>2, <1>4, <2>3, <2>4, AdvanceOf
<1>6. q \in Seq(Nat) /\ Len(q) = n + 1 /\ q[n + 1] = p.data /\ \A i \in 1..n : q[i] = s.received[i]
  BY <1>2, <1>3
<1>7. r = [s EXCEPT !.received = q, !.delayed_ack = TRUE, !.ack_number = a]
  BY <1>1 DEF Taken, Sockets
<1>8. Quiet(e, r) OBVIOUS
<1>. HIDE DEF q, a, r
<1>9. /\ r \in Sockets /\ r.state = s.state /\ r.ack_number = a /\ r.received = q
      /\ r.written = s.written /\ r.unacked_packets = s.unacked_packets
      /\ r.retransmit_attempts = s.retransmit_attempts /\ r.passed_over = s.passed_over
      /\ r.shut_down_for_writing = s.shut_down_for_writing
      /\ r.sequence_number = s.sequence_number
  BY <1>1, <1>2, <1>6, <1>7 DEF Sockets
<1>10. SendInv(e, r) BY <1>1, <1>9 DEF SendInv, Opening
<1>11. GoesOn(e, r)
  <2>1. /\ sock[e] \in Sockets /\ Len(sock[e].received) \in Nat /\ n >= Len(sock[e].received)
    BY Fields DEF TCPInv, Fits, GoesOn
  <2>2. Len(r.received) >= Len(sock[e].received)
    <3>1. \A x, y \in Nat : x >= y => x + 1 >= y OBVIOUS
    <3>. QED BY <1>3, <1>6, <1>9, <2>1, <3>1
  <2>. QED BY <1>9, <2>2 DEF Fits, GoesOn, Gone, AtEnd
<1>12. InNet(r, net) BY <1>9 DEF InNet
<1>13. ASSUME InStepWith(e, r) PROVE ReceiveInv(r, f, t) /\ LossInv(r, t)
  <2>1. InStepWith(e, s) BY <1>9, <1>13 DEF InStepWith
  <2>2. ReceiveInv(s, f, t) /\ LossInv(s, t) BY <2>1 DEF Fits
  <2>3. p.seq = FirstSeq[f] + 1 + n BY <2>2 DEF ReceiveInv, InSequence
  <2>4. p.data = n + 1
    <3>. DEFINE v == FirstSeq[f]
                x == p.data
    <3>1. v \in Nat /\ x \in Nat /\ n \in Nat /\ v + x = v + 1 + n BY <1>2, <1>3, <1>4, <2>3
    <3>. HIDE DEF n, v, x
    <3>2. x = n + 1 BY <3>1
    <3>. QED BY <3>2 DEF x
  <2>5. a = FirstSeq[f] + 1 + (n + 1)
    <3>. DEFINE v == FirstSeq[f]
    <3>1. v \in Nat /\ n \in Nat /\ a = (v + (n + 1)) + 1 BY <1>3, <1>5, <2>4
    <3>. HIDE DEF n, v
    <3>2. a = v + 1 + (n + 1) BY <3>1
    <3>. QED BY <3>2 DEF v
  <2>6. \A i \in 1..n+1 : q[i] = i
    <3>. TAKE i \in 1..n+1
    <3>1. CASE i = n + 1 BY <1>6, <2>4, <3>1
    <3>2. CASE i # n + 1
      <4>1. i \in 1..n BY <1>3, <3>2
      <4>2. s.received[i] = i BY <2>2, <4>1 DEF ReceiveInv
      <4>. QED BY <1>6, <4>1, <4>2
    <3>. QED BY <3>1, <3>2
  <2>7. n + 1 <= t.written BY <1>4, <2>4
  <2>. HIDE DEF n
  <2>8. ReceiveInv(r, f, t) BY <1>6, <1>9, <2>5, <2>6, <2>7 DEF ReceiveInv, AtEnd
  <2>9. LossInv(r, t) BY <1>9, <2>2 DEF LossInv
  <2>. QED BY <2>8, <2>9
<1>14. Fits(e, r) BY <1>9, <1>10, <1>11, <1>13 DEF Fits
<1>. QED BY <1>8, <1>12, <1>14, QuietStep

\* Established.
LEMMA ReceiveEstablishedStep ==
    ASSUME NoWrap, TCPInv, NEW e \in Endpoints, NEW p \in net, p.to = e,
           NEW s, Fits(e, s), InNet(s, net), ReceiveEstablished(e, p, s)
    PROVE  TCPInv'
<1>. DEFINE t == [s EXCEPT !.duplicate_acks = 0]
            d == [s EXCEPT !.duplicate_acks = @ + 1]
<1>1. s \in Sockets /\ s.state = "Established" BY DEF Fits, ReceiveEstablished
<1>2. s.duplicate_acks \in Nat /\ MaxDupAcks \in Nat /\ 0 \in 0..MaxDupAcks
  <2>1. s.duplicate_acks \in 0..MaxDupAcks BY <1>1 DEF Sockets
  <2>. QED BY <2>1, TCPAssumption
<1>3. CASE "RST" \in p.flags
  <2>1. Quiet(e, In(s, "Closed")) BY <1>3 DEF ReceiveEstablished
  <2>. QED BY <2>1, ResetStep
<1>4. CASE "RST" \notin p.flags /\ ~InSequence(p, s)
  <2>1. Discarded(e, p, s) BY <1>4 DEF ReceiveEstablished
  <2>2. CASE s.duplicate_acks < MaxDupAcks
    <3>1. Answer(e, d, {"ACK"}, 0) BY <2>1, <2>2 DEF Discarded
    <3>2. s.duplicate_acks + 1 \in 0..MaxDupAcks BY <1>2, <2>2
    <3>3. /\ KeepsData(s, d) /\ d.state = s.state
          /\ d.shut_down_for_writing = s.shut_down_for_writing
          /\ d.sequence_number = s.sequence_number /\ d.ack_number = s.ack_number
      BY <1>1, <3>2 DEF KeepsData, Sockets
    <3>. HIDE DEF d
    <3>4. Fits(e, d) BY <3>3, StaysFit
    <3>5. InNet(d, net) BY <3>3 DEF InNet, KeepsData
    <3>6. {"ACK"} \in SUBSET Flags BY DEF Flags
    <3>. QED BY <1>1, <3>1, <3>3, <3>4, <3>5, <3>6, AnswerStep
  <2>3. CASE ~(s.duplicate_acks < MaxDupAcks)
    <3>1. Quiet(e, s) BY <2>1, <2>3 DEF Discarded
    <3>. QED BY <3>1, QuietStep
  <2>. QED BY <2>2, <2>3
<1>5. CASE "RST" \notin p.flags /\ InSequence(p, s)
  <2>1. /\ KeepsData(s, t) /\ t.state = s.state
        /\ t.shut_down_for_writing = s.shut_down_for_writing
        /\ t.sequence_number = s.sequence_number /\ t.ack_number = s.ack_number
    BY <1>1, <1>2 DEF KeepsData, Sockets
  <2>2. \/ "FIN" \in p.flags /\ Quiet(e, Taken([In(t, "CloseWait") EXCEPT !.delayed_ack = TRUE], p, 1))
        \/ p.data # 0 /\ DidReceive(e, p, t)
        \/ Quiet(e, t)
    BY <1>5 DEF ReceiveEstablished
  <2>. HIDE DEF t
  <2>3. Fits(e, t) BY <2>1, StaysFit
  <2>4. InNet(t, net) BY <2>1 DEF InNet, KeepsData
  <2>5. InSequence(p, t) BY <1>5, <2>1 DEF InSequence
  <2>6. CASE Quiet(e, t) BY <2>3, <2>4, <2>6, QuietStep
  <2>7. CASE "FIN" \in p.flags /\ Quiet(e, Taken([In(t, "CloseWait") EXCEPT !.delayed_ack = TRUE], p, 1))
    BY <1>1, <2>1, <2>3, <2>4, <2>5, <2>7, ReceiveFinStep
  <2>8. CASE /\ p.data # 0
             /\ Quiet(e, Taken([t EXCEPT !.received = Append(@, p.data), !.delayed_ack = TRUE], p, 0))
    BY <1>1, <2>1, <2>3, <2>4, <2>5, <2>8, ReceiveDataStep
  <2>. QED BY <2>2, <2>6, <2>7, <2>8 DEF DidReceive
<1>. QED BY <1>3, <1>4, <1>5

\* handle_tcp() takes the acknowledgement first and then acts as its state
\* says.
LEMMA ReceiveStep ==
    ASSUME NoWrap, TCPInv, NEW e \in Endpoints, Receive(e)
    PROVE  TCPInv'
<1>1. PICK p \in net :
         LET s == AfterAck(sock[e], p)
         IN  /\ p.to = e
             /\ \/ ReceiveClosed(e, p, s) \/ ReceiveListen(e, p, s)
                \/ ReceiveSynSent(e, p, s) \/ ReceiveSynReceived(e, p, s)
                \/ ReceiveTimeWait(e, p, s) \/ ReceiveCloseWait(e, p, s)
                \/ ReceiveLastAck(e, p, s)
                \/ ReceiveFinWait1(e, p, s) \/ ReceiveFinWait2(e, p, s)
                \/ ReceiveEstablished(e, p, s)
  BY DEF Receive
<1>. DEFINE s == AfterAck(sock[e], p)
<1>2. p.to = e /\ Fits(e, s) /\ InNet(s, net) BY <1>1, AckTaken
<1>. HIDE DEF s
<1>3. \/ ReceiveClosed(e, p, s) \/ ReceiveListen(e, p, s)
      \/ ReceiveSynSent(e, p, s) \/ ReceiveSynReceived(e, p, s)
      \/ ReceiveTimeWait(e, p, s) \/ ReceiveCloseWait(e, p, s)
      \/ ReceiveLastAck(e, p, s)
      \/ ReceiveFinWait1(e, p, s) \/ ReceiveFinWait2(e, p, s)
      \/ ReceiveEstablished(e, p, s)
  BY <1>1 DEF s
<1>4. CASE ReceiveClosed(e, p, s) BY <1>2, <1>4, ReceiveClosedStep
<1>5. CASE ReceiveListen(e, p, s) BY <1>2, <1>5, ReceiveListenStep
<1>6. CASE ReceiveSynSent(e, p, s) BY <1>2, <1>6, ReceiveSynSentStep
<1>7. CASE ReceiveSynReceived(e, p, s) BY <1>2, <1>7, ReceiveSynReceivedStep
<1>8. CASE ReceiveTimeWait(e, p, s) \/ ReceiveCloseWait(e, p, s)
  BY <1>2, <1>8, ReceiveTooLateStep
<1>9. CASE ReceiveLastAck(e, p, s) BY <1>2, <1>9, ReceiveLastAckStep
<1>10. CASE ReceiveFinWait1(e, p, s) \/ ReceiveFinWait2(e, p, s)
  BY <1>2, <1>10, ReceiveFinWaitStep
<1>11. CASE ReceiveEstablished(e, p, s) BY <1>2, <1>11, ReceiveEstablishedStep
<1>. QED BY <1>3, <1>4, <1>5, <1>6, <1>7, <1>8, <1>9, <1>10, <1>11

-----------------------------------------------------------------------------
(* The theorems                                                             *)

\* The invariant of the connection: every call, timer and packet keeps what
\* is sent, what may still arrive and what was received in agreement.
THEOREM TCPInvHolds ==
    ASSUME NoWrap, ~WritesWhenClosed
    PROVE  Spec => []TCPInv
<1>1. Init => TCPInv
  BY InitialState
<1>2. TCPInv /\ [Next]_vars => TCPInv'
  <2>. SUFFICES ASSUME TCPInv, [Next]_vars PROVE TCPInv'
    OBVIOUS
  <2>1. CASE Connect BY <2>1, ConnectStep
  <2>2. ASSUME NEW e \in Endpoints, Send(e) PROVE TCPInv' BY <2>2, SendStep
  <2>3. ASSUME NEW e \in Endpoints, Shutdown(e) PROVE TCPInv' BY <2>3, ShutdownStep
  <2>4. ASSUME NEW e \in Endpoints, Close(e) PROVE TCPInv' BY <2>4, CloseStep
  <2>5. ASSUME NEW e \in Endpoints, Retransmit(e) PROVE TCPInv' BY <2>5, RetransmitStep
  <2>6. ASSUME NEW e \in Endpoints, FlushDelayedAck(e) PROVE TCPInv' BY <2>6, FlushDelayedAckStep
  <2>7. ASSUME NEW e \in Endpoints, TimeWaitElapses(e) PROVE TCPInv' BY <2>7, TimeWaitElapsesStep
  <2>8. ASSUME NEW e \in Endpoints, Receive(e) PROVE TCPInv' BY <2>8, ReceiveStep
  <2>9. CASE UNCHANGED vars
    <3>1. sock' = sock /\ net' = net BY <2>9 DEF vars
    <3>2. \A e \in Endpoints :
             /\ SendInv(e, sock[e])' /\ InNet(sock[e], net)'
             /\ \A p \in net : p.to = Peer(e) => PacketInv(e, sock[e], p)'
      BY <3>1 DEF TCPInv, SendInv, InNet, PacketInv
    <3>3. InStep => \A e \in Endpoints :
             /\ ReceiveInv(sock[e], Peer(e), sock[Peer(e)])' /\ LossInv(sock[e], sock[Peer(e)])'
             /\ \A p \in net : p.to = Peer(e) => AckInv(Peer(e), sock[e], p)'
      BY <3>1 DEF TCPInv, ReceiveInv, LossInv, AckInv
    <3>4. Init => Init' BY <3>1 DEF Init
    <3>5. InStep' <=> InStep BY <3>1 DEF InStep
    <3>. QED BY <3>1, <3>2, <3>3, <3>4, <3>5 DEF TCPInv
  <2>. QED BY <2>1, <2>2, <2>3, <2>4, <2>5, <2>6, <2>7, <2>8, <2>9 DEF Next
<1>. QED BY <1>1, <1>2, PTL DEF Spec

\* What TCPInv says of the order of the stream.
LEMMA InvInOrder == TCPInv => InOrder
<1>. SUFFICES ASSUME TCPInv, InStep, NEW e \in Endpoints
              PROVE  /\ \A i \in DOMAIN sock[e].received : sock[e].received[i] = i
                     /\ Len(sock[e].received) <= sock[Peer(e)].written
  BY DEF InOrder
<1>1. sock[e] \in Sockets BY DEF TCPInv
<1>2. sock[e].received \in Seq(Nat) BY <1>1, Fields
<1>3. DOMAIN sock[e].received = 1..Len(sock[e].received) BY <1>2
<1>. QED BY <1>3 DEF TCPInv, ReceiveInv

\* What it says of the packets to be retransmitted.
LEMMA InvTypeOK == TCPInv => TypeOK
<1>. SUFFICES ASSUME TCPInv, NEW e \in Endpoints
              PROVE  LET s == sock[e] IN
                     /\ s.state \in TCPStates
                     /\ s.sequence_number \in SeqNumbers /\ s.ack_number \in SeqNumbers
                     /\ s.retransmit_attempts \in 0..MaxRetransmits + 1
                     /\ s.duplicate_acks \in 0..MaxDupAcks
                     /\ \A i \in DOMAIN s.unacked_packets :
                          /\ s.unacked_packets[i].packet \in net
                          /\ i > 1 => s.unacked_packets[i].packet.data
                                        = s.unacked_packets[i-1].packet.data + 1
                     /\ s.unacked_packets = <<>> => s.retransmit_attempts = 0
  BY DEF TypeOK
<1>. DEFINE s == sock[e]
            u == s.unacked_packets
            n == Len(u)
            w == s.written
<1>1. s \in Sockets /\ SendInv(e, s) /\ InNet(s, net) BY DEF TCPInv
<1>2. DOMAIN u = 1..n /\ n \in Nat /\ w \in Nat BY <1>1, Fields
<1>3. /\ s.state \in TCPStates /\ s.sequence_number \in SeqNumbers /\ s.ack_number \in SeqNumbers
      /\ s.retransmit_attempts \in 0..MaxRetransmits + 1 /\ s.duplicate_acks \in 0..MaxDupAcks
  BY <1>1 DEF Sockets
<1>4. ASSUME NEW i \in 1..n, i > 1 PROVE u[i].packet.data = u[i-1].packet.data + 1
  <2>. DEFINE x == u[i].packet.data
              y == u[i-1].packet.data
  <2>1. i \in Nat /\ i - 1 \in 1..n BY <1>2, <1>4
  <2>2. x \in Nat /\ y \in Nat BY <1>1, <2>1, UnackedFields
  <2>3. x + n = w + i /\ y + n = w + (i - 1) BY <1>1, <2>1 DEF SendInv
  <2>. HIDE DEF n, w, x, y
  <2>4. x = y + 1 BY <1>2, <2>1, <2>2, <2>3
  <2>. QED BY <2>4 DEF x, y
<1>5. \A i \in 1..n : u[i].packet \in net BY <1>1 DEF InNet
<1>6. u = <<>> => s.retransmit_attempts = 0 BY <1>1 DEF SendInv
<1>. HIDE DEF n
<1>. QED BY <1>2, <1>3, <1>4, <1>5, <1>6

\* The data not acknowledged are all the packets not acknowledged but a SYN.
LEMMA OutstandingData ==
    ASSUME TCPInv, NEW e \in Endpoints
    PROVE  /\ Outstanding(e) \in Nat
           /\ Outstanding(e) = Len(sock[e].unacked_packets) \/ Outstanding(e) = sock[e].written
<1>. DEFINE u == sock[e].unacked_packets
            n == Len(u)
            w == sock[e].written
            D == {i \in DOMAIN u : u[i].packet.data # 0}
<1>1. sock[e] \in Sockets /\ SendInv(e, sock[e]) BY DEF TCPInv
<1>2. DOMAIN u = 1..n /\ n \in Nat /\ w \in Nat BY <1>1, Fields
<1>3. \A i \in 1..n : u[i].packet.data \in Nat /\ u[i].packet.data + n = w + i
  BY <1>1, UnackedFields DEF SendInv
<1>4. Outstanding(e) = Cardinality(D) BY DEF Outstanding
<1>. HIDE DEF u, n, w, D
<1>5. \A m \in Nat : Cardinality(1..m) = m /\ Cardinality(2..m+1) = m
  <2>. TAKE m \in Nat
  <2>1. Cardinality(1..m) = IF 1 > m THEN 0 ELSE m - 1 + 1 BY FS_Interval
  <2>2. m + 1 \in Int /\ 2 \in Int /\ 1 \in Int /\ m \in Int OBVIOUS
  <2>3. Cardinality(2..m+1) = IF 2 > m + 1 THEN 0 ELSE (m + 1) - 2 + 1 BY <2>2, FS_Interval
  <2>. QED BY <2>1, <2>3
<1>6. CASE n <= w
  <2>1. D = 1..n BY <1>2, <1>3, <1>6 DEF D
  <2>. QED BY <1>2, <1>4, <1>5, <2>1 DEF n, u
<1>7. CASE ~(n <= w)
  <2>1. n = w + 1
    <3>1. 1 \in 1..n BY <1>2, <1>7
    <3>. QED BY <1>2, <1>3, <1>7, <3>1
  <2>2. D = 2..w+1 BY <1>2, <1>3, <2>1 DEF D
  <2>. QED BY <1>2, <1>4, <1>5, <2>2 DEF w
<1>. QED BY <1>6, <1>7

\* What it says of the data that are not acknowledged.
LEMMA InvAckedIsDelivered == TCPInv => AckedIsDelivered
<1>. SUFFICES ASSUME TCPInv, InStep, NEW e \in Endpoints, sock[e].state # "Closed",
                     sock[Peer(e)].state \notin {"FinWait1", "FinWait2", "TimeWait", "Closed"}
              PROVE  sock[e].written - Outstanding(e) <= Len(sock[Peer(e)].received)
  BY DEF AckedIsDelivered
<1>. DEFINE w == sock[e].written
            n == Len(sock[e].unacked_packets)
            x == Len(sock[Peer(e)].received)
            o == Outstanding(e)
<1>1. sock[e] \in Sockets /\ sock[Peer(e)] \in Sockets BY Peers DEF TCPInv
<1>2. w \in Nat /\ n \in Nat /\ x \in Nat BY <1>1, Fields
<1>3. w <= n + x BY DEF TCPInv, LossInv, Gone
<1>4. o \in Nat /\ (o = n \/ o = w) BY OutstandingData
<1>. HIDE DEF w, n, x, o
<1>5. w - o <= x BY <1>2, <1>3, <1>4
<1>. QED BY <1>5 DEF w, x, o

\* The bytes come as they were written, none missing, doubled or out of
\* order, although receive_tcp_packet() and handle_tcp() get packets lost,
\* doubled and reordered at will, unless the ACK of the handshake passed data
\* over.
THEOREM InOrderHolds ==
    ASSUME NoWrap, ~WritesWhenClosed
    PROVE  Spec => []InOrder
  BY TCPInvHolds, InvInOrder, PTL

\* The packets kept for retransmit_packets() are in order and are all that
\* the peer may be missing: receive_tcp_packet() drops none that is not yet
\* received.
THEOREM UnackedAreSoundHolds ==
    ASSUME NoWrap, ~WritesWhenClosed
    PROVE  Spec => []UnackedAreSound
<1>1. TCPInv => UnackedAreSound
  BY InvTypeOK, InvAckedIsDelivered DEF UnackedAreSound
<1>. QED BY <1>1, TCPInvHolds, PTL

\* handle_tcp() takes a FIN in Established only when everything that the peer
\* has written is received, so that from then on, in CloseWait and LastAck, the
\* end of the file is the end of the stream.
THEOREM FinComesLastHolds ==
    ASSUME NoWrap, ~WritesWhenClosed
    PROVE  Spec => []FinComesLast
<1>1. TCPInv => FinComesLast
  BY DEF TCPInv, FinComesLast, ReceiveInv, AtEnd
<1>. QED BY <1>1, TCPInvHolds, PTL
=============================================================================
