------------------------------ MODULE TCPSocket ------------------------------
(***************************************************************************)
(* A TCP connection between two machines that run this kernel: TCPSocket   *)
(* (Kernel/Net/TCPSocket.cpp) and handle_tcp() of the network task         *)
(* (Kernel/Net/NetworkTask.cpp), over a network that loses, duplicates and *)
(* reorders packets.  What happens under the mutex of a socket is one      *)
(* step.  A segment carries one unit of data, numbered in the order of the *)
(* writes; the window, the options and the checksum are left out.  The     *)
(* server is the listening socket until it gets a SYN and from then on the *)
(* socket made for that connection.                                        *)
(***************************************************************************)
EXTENDS Naturals, Sequences, FiniteSets

CONSTANTS MaxData,          \* bounds what an endpoint writes: [Endpoints -> Nat]
          SeqModulus,       \* 2^32 in the code
          FirstSeq,         \* the initial sequence numbers: [Endpoints -> Nat]
          MaxRetransmits,   \* maximum_retransmits
          MaxDupAcks,       \* maximum_duplicate_acks
          MaxPackets,       \* bounds the packets on the network
          WritesWhenClosed  \* do programs write to a connection that was closed?

Endpoints == {"client", "server"}

ASSUME TCPAssumption ==
    /\ MaxData \in [Endpoints -> Nat] /\ SeqModulus \in Nat \ {0}
    /\ FirstSeq \in [Endpoints -> 0..SeqModulus - 1]
    /\ MaxRetransmits \in Nat /\ MaxDupAcks \in Nat /\ MaxPackets \in Nat
    /\ WritesWhenClosed \in BOOLEAN

VARIABLES sock,   \* the socket of an endpoint
          net     \* the packets sent, each of which may arrive at any time, more
                  \* than once or never

vars == <<sock, net>>

Peer(e) == IF e = "client" THEN "server" ELSE "client"

TCPStates == {"Closed", "Listen", "SynSent", "SynReceived", "Established", "CloseWait",
              "LastAck", "FinWait1", "FinWait2", "TimeWait"}

Advance(n, by) == (n + by) % SeqModulus

\* A socket before it is used.  The last line is history: what was given to
\* protocol_send() and taken by did_receive(), and whether data were passed
\* over in the handshake.
NewSocket(state) ==
    [state |-> state, sequence_number |-> 0, ack_number |-> 0, last_ack_number_sent |-> 0,
     unacked_packets |-> <<>>, retransmit_attempts |-> 0, duplicate_acks |-> 0,
     delayed_ack |-> FALSE, shut_down_for_writing |-> FALSE,
     written |-> 0, received |-> <<>>, passed_over |-> FALSE]

Init ==
    /\ sock = [e \in Endpoints |-> NewSocket(IF e = "client" THEN "Closed" ELSE "Listen")]
    /\ net = {}

-----------------------------------------------------------------------------
(* send_tcp_packet().                                                       *)

Packet(e, s, flags, data) ==
    [to |-> Peer(e), flags |-> flags, seq |-> s.sequence_number,
     ack |-> IF "ACK" \in flags THEN s.ack_number ELSE 0, data |-> data]

\* A packet that takes a sequence number; a FIN does not.
ExpectsAck(flags, data) == "SYN" \in flags \/ data # 0

\* The socket after the packet is sent.
AfterSending(e, s, flags, data) ==
    LET next == Advance(s.sequence_number, IF ExpectsAck(flags, data) THEN 1 ELSE 0)
    IN  [s EXCEPT
          !.last_ack_number_sent = IF "ACK" \in flags THEN s.ack_number ELSE @,
          !.sequence_number = next,
          !.unacked_packets = IF ExpectsAck(flags, data)
                                THEN Append(@, [ack_number |-> next,
                                                packet |-> Packet(e, s, flags, data)])
                                ELSE @]

\* The two ways in which a step ends: with a packet and without.
Answer(e, s, flags, data) ==
    /\ sock' = [sock EXCEPT ![e] = AfterSending(e, s, flags, data)]
    /\ net' = net \cup {Packet(e, s, flags, data)}
    /\ Cardinality(net') <= MaxPackets

Quiet(e, s) ==
    /\ sock' = [sock EXCEPT ![e] = s]
    /\ UNCHANGED net

In(s, state) == [s EXCEPT !.state = state]

-----------------------------------------------------------------------------
(* The calls of the programs.  accept() changes nothing here, and close()   *)
(* while the connection is being made is left out.                          *)

\* protocol_connect() of the client.
Connect ==
    /\ net = {}
    /\ Answer("client", In([sock["client"] EXCEPT !.sequence_number = FirstSeq["client"]], "SynSent"),
              {"SYN"}, 0)

\* protocol_send(), which does not look at the state.  (can_write() does while
\* the connection is being made.)  Nagle's algorithm and the window delay a
\* write; after shutdown() a write fails.
Send(e) ==
    LET s == sock[e]
    IN  /\ s.state \in {"Established", "CloseWait"} \cup (IF WritesWhenClosed THEN {"Closed"} ELSE {})
        /\ net # {}
        /\ s.written < MaxData[e] /\ ~s.shut_down_for_writing
        /\ Answer(e, [s EXCEPT !.written = @ + 1], {"PSH", "ACK"}, s.written + 1)

\* shutdown(SHUT_WR), or the shutdown() in close().
Shutdown(e) ==
    /\ sock[e].state = "Established"
    /\ Answer(e, In([sock[e] EXCEPT !.shut_down_for_writing = TRUE], "FinWait1"), {"FIN", "ACK"}, 0)

\* close() of the side that was closed second.
Close(e) ==
    /\ sock[e].state = "CloseWait"
    /\ Answer(e, In([sock[e] EXCEPT !.shut_down_for_writing = TRUE], "LastAck"), {"FIN", "ACK"}, 0)

-----------------------------------------------------------------------------
(* The timers of the network task.                                          *)

\* Fault: the attempts are not counted.
CountedNot(attempts) == attempts

\* The counter is capped where giving up has come: it only grows on from there.
Counted(attempts) == IF attempts > MaxRetransmits THEN attempts ELSE attempts + 1

\* retransmit_packets(): a socket with packets that were not acknowledged
\* sends them all again, or gives up (and once more whenever it is looked at:
\* it stays in the list).
Retransmit(e) ==
    LET s == [sock[e] EXCEPT !.retransmit_attempts = Counted(@)]
    IN  /\ s.unacked_packets # <<>>
        /\ IF s.retransmit_attempts > MaxRetransmits
             THEN Quiet(e, In(s, "Closed"))
             ELSE /\ sock' = [sock EXCEPT ![e] = s]
                  /\ net' = net \cup {s.unacked_packets[i].packet : i \in DOMAIN s.unacked_packets}

\* flush_delayed_tcp_acks(), when the time has come, or send_delayed_tcp_ack()
\* itself when there is nothing to wait for; send_ack() does not repeat itself.
FlushDelayedAck(e) ==
    LET s == [sock[e] EXCEPT !.delayed_ack = FALSE]
    IN  /\ sock[e].delayed_ack
        /\ IF s.last_ack_number_sent # s.ack_number THEN Answer(e, s, {"ACK"}, 0) ELSE Quiet(e, s)

\* The timer set on entry to TimeWait.
TimeWaitElapses(e) ==
    /\ sock[e].state = "TimeWait"
    /\ Quiet(e, In(sock[e], "Closed"))

-----------------------------------------------------------------------------
(* handle_tcp(): packet p arrives at endpoint e.                            *)

\* Fault: an acknowledgement covers the packet that is asked for next.
AckedNext(u, p) == u.ack_number <= p.ack + 1

\* The comparison of receive_tcp_packet(), which does not wrap.
Acked(u, p) == u.ack_number <= p.ack

AttemptsAfter(rest, attempts) == IF rest = <<>> THEN 0 ELSE attempts

\* receive_tcp_packet(): the first packets, as far as they are acknowledged,
\* are dropped, and with the last of them the attempts.
AfterAck(s, p) ==
    LET u    == s.unacked_packets
        done == Cardinality({i \in DOMAIN u : \A j \in 1..i : Acked(u[j], p)})
        rest == SubSeq(u, done + 1, Len(u))
    IN  IF "ACK" \notin p.flags THEN s
        ELSE [s EXCEPT !.unacked_packets = rest,
                       !.retransmit_attempts = AttemptsAfter(rest, @)]

PayloadSize(p) == IF p.data # 0 THEN 1 ELSE 0

\* set_ack_number(): the packet is taken, and a SYN or FIN with it.
Taken(s, p, extra) == [s EXCEPT !.ack_number = Advance(p.seq, PayloadSize(p) + extra)]

Reset(e, s) == Answer(e, In(s, "Closed"), {"RST"}, 0)

ReceiveClosed(e, p, s) ==
    /\ s.state = "Closed"
    /\ IF "RST" \in p.flags THEN Quiet(e, s)
       ELSE Answer(e, Taken([s EXCEPT !.sequence_number = p.ack], p, 1), {"RST", "ACK"}, 0)

ReceiveTimeWait(e, p, s) ==
    /\ s.state = "TimeWait"
    /\ Reset(e, s)

\* A SYN makes a socket, with a fixed initial sequence number.
ReceiveListen(e, p, s) ==
    /\ s.state = "Listen"
    /\ IF p.flags = {"SYN"}
         THEN Answer(e, Taken([In(s, "SynReceived") EXCEPT !.sequence_number = FirstSeq[e]], p, 1),
                     {"SYN", "ACK"}, 0)
         ELSE Quiet(e, sock[e])

\* Between a client and a server only the SYN of both at once is missing.
ReceiveSynSent(e, p, s) ==
    /\ s.state = "SynSent"
    /\ CASE p.flags = {"SYN", "ACK"} ->
              Answer(e, Taken(In(s, "Established"), p, 1), {"ACK"}, 0)
         [] p.flags = {"FIN", "ACK"} ->
              Quiet(e, Taken([In(s, "Closed") EXCEPT !.delayed_ack = TRUE], p, 1))
         [] p.flags = {"RST", "ACK"} -> Quiet(e, In(s, "Closed"))
         [] OTHER -> Reset(e, s)

\* Any ACK ends the handshake, and is believed as to where the data begin.
ReceiveSynReceived(e, p, s) ==
    /\ s.state = "SynReceived"
    /\ CASE p.flags = {"ACK"} ->
              Quiet(e, Taken([In(s, "Established") EXCEPT !.passed_over = p.seq # s.ack_number], p, 0))
         [] p.flags = {"SYN"} -> Quiet(e, s)
         [] OTHER -> Reset(e, s)

ReceiveCloseWait(e, p, s) ==
    /\ s.state = "CloseWait"
    /\ Reset(e, s)

ReceiveLastAck(e, p, s) ==
    /\ s.state = "LastAck"
    /\ IF p.flags = {"ACK"} THEN Quiet(e, Taken(In(s, "Closed"), p, 0)) ELSE Reset(e, s)

ReceiveFinWait1(e, p, s) ==
    /\ s.state = "FinWait1"
    /\ CASE p.flags = {"ACK"} -> Quiet(e, Taken(In(s, "FinWait2"), p, 0))
         [] p.flags = {"FIN", "ACK"} -> Answer(e, Taken(In(s, "TimeWait"), p, 1), {"ACK"}, 0)
         [] OTHER -> Reset(e, s)

\* Data without PSH, which did_receive() would take here, come from others.
ReceiveFinWait2(e, p, s) ==
    /\ s.state = "FinWait2"
    /\ CASE p.flags = {"FIN", "ACK"} ->
              Answer(e, Taken(In(s, "TimeWait"), p, 1), {"ACK"}, 0)
         [] p.flags = {"RST", "ACK"} -> Quiet(e, In(s, "Closed"))
         [] p.flags = {"ACK"} -> Quiet(e, s)
         [] OTHER -> Reset(e, s)

\* Fault: a packet is taken whatever its sequence number.
InSequenceAlways(p, s) == TRUE

InSequence(p, s) == p.seq = s.ack_number

\* A packet out of sequence, a FIN too, is answered with the number expected,
\* MaxDupAcks times between two packets in sequence.
Discarded(e, p, s) ==
    IF s.duplicate_acks < MaxDupAcks
      THEN Answer(e, [s EXCEPT !.duplicate_acks = @ + 1], {"ACK"}, 0)
      ELSE Quiet(e, s)

\* did_receive() refuses data when the buffer is full or not read any more.
DidReceive(e, p, s) ==
    \/ Quiet(e, s)
    \/ Quiet(e, Taken([s EXCEPT !.received = Append(@, p.data), !.delayed_ack = TRUE], p, 0))

ReceiveEstablished(e, p, s) ==
    LET t == [s EXCEPT !.duplicate_acks = 0]
    IN  /\ s.state = "Established"
        /\ IF "RST" \in p.flags THEN Quiet(e, In(s, "Closed"))
           ELSE IF ~InSequence(p, s) THEN Discarded(e, p, s)
           ELSE IF "FIN" \in p.flags
             THEN Quiet(e, Taken([In(t, "CloseWait") EXCEPT !.delayed_ack = TRUE], p, 1))
           ELSE IF p.data # 0 THEN DidReceive(e, p, t)
           ELSE Quiet(e, t)

Receive(e) ==
    \E p \in net :
        LET s == AfterAck(sock[e], p)
        IN  /\ p.to = e
            /\ \/ ReceiveClosed(e, p, s)
               \/ ReceiveTimeWait(e, p, s)
               \/ ReceiveListen(e, p, s)
               \/ ReceiveSynSent(e, p, s)
               \/ ReceiveSynReceived(e, p, s)
               \/ ReceiveCloseWait(e, p, s)
               \/ ReceiveLastAck(e, p, s)
               \/ ReceiveFinWait1(e, p, s)
               \/ ReceiveFinWait2(e, p, s)
               \/ ReceiveEstablished(e, p, s)

-----------------------------------------------------------------------------
Next ==
    \/ Connect
    \/ \E e \in Endpoints :
         \/ Send(e) \/ Shutdown(e) \/ Close(e)
         \/ Retransmit(e) \/ FlushDelayedAck(e) \/ TimeWaitElapses(e)
         \/ Receive(e)

\* The network task looks for packets to retransmit again and again.  Nothing
\* is said of the network.
Spec == Init /\ [][Next]_vars /\ \A e \in Endpoints : WF_vars(Retransmit(e))

-----------------------------------------------------------------------------
SeqNumbers == 0..SeqModulus - 1

\* The state is well formed; packets wait for an acknowledgement in the order
\* in which they were sent, the SYN before the data.
TypeOK ==
    \A e \in Endpoints :
        LET s == sock[e] IN
        /\ s.state \in TCPStates
        /\ s.sequence_number \in SeqNumbers /\ s.ack_number \in SeqNumbers
        /\ s.retransmit_attempts \in 0..MaxRetransmits + 1
        /\ s.duplicate_acks \in 0..MaxDupAcks
        /\ \A i \in DOMAIN s.unacked_packets :
             /\ s.unacked_packets[i].packet \in net
             /\ i > 1 => s.unacked_packets[i].packet.data = s.unacked_packets[i-1].packet.data + 1
        /\ s.unacked_packets = <<>> => s.retransmit_attempts = 0

\* The data that e has sent and that were not acknowledged.
Outstanding(e) ==
    Cardinality({i \in DOMAIN sock[e].unacked_packets : sock[e].unacked_packets[i].packet.data # 0})

InStep == ~sock["server"].passed_over

\* The bytes come as they were written, none missing, doubled or out of order,
\* whatever the network does, unless data were passed over in the handshake.
InOrder ==
    InStep => \A e \in Endpoints :
        /\ \A i \in DOMAIN sock[e].received : sock[e].received[i] = i
        /\ Len(sock[e].received) <= sock[Peer(e)].written

\* Nothing is dropped from the packets to be retransmitted before the peer
\* has it, as long as the connection is there and the peer has not shut it
\* down.  (In FinWait1 and FinWait2 anything is acknowledged.)
AckedIsDelivered ==
    InStep => \A e \in Endpoints :
        sock[e].state # "Closed" /\ sock[Peer(e)].state \notin {"FinWait1", "FinWait2", "TimeWait", "Closed"} =>
            sock[e].written - Outstanding(e) <= Len(sock[Peer(e)].received)

\* The packets to be retransmitted are in order and are all that the peer may
\* be missing.
UnackedAreSound == TypeOK /\ AckedIsDelivered

\* A FIN taken by a socket in Established comes after all the data: as long as
\* the connection is there, in CloseWait and LastAck, whoever is told of the end
\* of the file has got all that was written.  (protocol_is_disconnected() tells
\* of an end also in FinWait1, FinWait2 and TimeWait, where data of the peer are
\* not taken any more, and in Closed, after a reset or when the socket has given
\* up: there some of the data may be missing.)
FinComesLast ==
    InStep => \A e \in Endpoints :
        sock[e].state \in {"CloseWait", "LastAck"} =>
            Len(sock[e].received) = sock[Peer(e)].written

\* Nobody waits for ever for an acknowledgement: it comes or the connection,
\* or the attempt to connect, is given up.
RetransmissionEnds ==
    \A e \in Endpoints :
        sock[e].unacked_packets # <<>> ~>
            sock[e].unacked_packets = <<>> \/ sock[e].state = "Closed"
=============================================================================
