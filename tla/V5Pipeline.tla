------------------------------ MODULE V5Pipeline ------------------------------
(***************************************************************************)
(* The v5 node's datagram pipeline as Application.run wires it: services  *)
(* joined by zero-capacity trio memory channels, inbound                   *)
(*   socket -> DatagramReceiver -> PacketDecoder -> Packer -> dispatcher   *)
(*   -> routing-table manager (its subscription)                           *)
(* and outbound                                                            *)
(*   routing-table manager -> Packer -> PacketEncoder -> DatagramSender    *)
(* with the Packer also answering a packet of an unknown session with a    *)
(* WHOAREYOU, and pongs turned into endpoint votes for the EndpointTracker. *)
(* The datagram services are translated from datagram.py; the other        *)
(* services are not under src/ and follow spec 2, 4.F, 4.G and 5: the      *)
(* Packer reads its two input channels in two loops of its own, and the    *)
(* dispatcher drops a message for a subscriber whose buffer stays full for *)
(* 100 ms.                                                                 *)
(* A send on a zero-capacity channel blocks until the reader takes the     *)
(* item, so a service "holds" the one item it is sending, and the reader   *)
(* processes an item in the step that takes it (no checkpoint between     *)
(* receive, processing and the next send). Each datagram comes from the   *)
(* network once; the kernel's receive buffer holds SockBuf of them and     *)
(* drops the rest. Once every datagram is done with, every service waits  *)
(* in its receive for traffic that does not come.                          *)
(***************************************************************************)
EXTENDS Naturals, Sequences

CONSTANTS
    Datagrams,  \* datagrams remote peers send us, model values
    Kind,       \* Kind[d]: "ping", "pong", "junk" (undecodable), "nosession"
    SockBuf,    \* datagrams the socket's kernel buffer holds
    SubCap      \* capacity of the dispatcher subscription's buffer

ASSUME SockBuf \in Nat \ {0} /\ SubCap \in Nat \ {0}

VARIABLES
    where,   \* where[d]: the service holding d, or its fate
    sockQ,   \* the kernel receive buffer, oldest first
    subQ     \* the routing-table manager's subscription buffer

pipeVars == <<where, sockQ, subQ>>

\* The services that hold an item while sending it on a channel.
Holders == {"receiver", "decoder", "packerIn", "dispatcher", "rtm",
            "packerOut", "encoder"}

\* Where an item's journey ends: dropped by the kernel, discarded by the
\* decoder, dropped by the dispatcher, applied by the endpoint tracker, or
\* written to the socket.
Fates == {"lost", "discarded", "dropped", "voted", "sent"}

Locations == {"net", "sock", "sub"} \cup Holders \cup Fates

\* The channel a holder sends its item on.
OutChannel(s, d) ==
    CASE s = "receiver"  -> "incoming_datagram"
      [] s = "decoder"   -> "incoming_packet"
      [] s = "packerIn"  -> IF Kind[d] = "nosession" THEN "outgoing_packet"
                                                   ELSE "incoming_message"
      [] s = "rtm"       -> IF Kind[d] = "ping" THEN "outgoing_message"
                                              ELSE "endpoint_vote"
      [] s = "packerOut" -> "outgoing_packet"
      [] s = "encoder"   -> "outgoing_datagram"

\* Application.run: the service given each channel's receive end.
Reader(c) ==
    CASE c = "incoming_datagram" -> "decoder"
      [] c = "incoming_packet"   -> "packerIn"
      [] c = "incoming_message"  -> "dispatcher"
      [] c = "outgoing_message"  -> "packerOut"
      [] c = "outgoing_packet"   -> "encoder"
      [] c = "outgoing_datagram" -> "sender"
      [] c = "endpoint_vote"     -> "tracker"

\* A service waits in its receive when it holds nothing; DatagramSender and
\* the EndpointTracker finish an item in the step that takes it.
Idle(s) == \A d \in Datagrams : where[d] # s

\* What the reader does with an item it takes: PacketDecoder discards an
\* undecodable datagram (spec 7: log, drop, never fatal); DatagramSender's
\* sock.sendto and the tracker's vote complete at once; the others go on to
\* send the result.
Receive(r, d) ==
    CASE r = "decoder" /\ Kind[d] = "junk" -> "discarded"
      [] r = "sender"                      -> "sent"
      [] r = "tracker"                     -> "voted"
      [] OTHER                             -> r

\* A remote peer sends d: the kernel queues it, or drops it when its buffer
\* is full.
Arrive(d) ==
    /\ where[d] = "net"
    /\ IF Len(sockQ) < SockBuf
       THEN /\ sockQ' = Append(sockQ, d) /\ where' = [where EXCEPT ![d] = "sock"]
       ELSE /\ where' = [where EXCEPT ![d] = "lost"] /\ UNCHANGED sockQ
    /\ UNCHANGED subQ

\* DatagramReceiver: one turn of its loop up to the send, sock.recvfrom
\* returning the oldest queued datagram.
DatagramReceiver ==
    /\ Idle("receiver")
    /\ sockQ # <<>>
    /\ where' = [where EXCEPT ![Head(sockQ)] = "receiver"]
    /\ sockQ' = Tail(sockQ)
    /\ UNCHANGED subQ

\* A send on a zero-capacity channel completes: the reader, waiting in its
\* receive, takes the item from holder s.
Pass(s) ==
    \E d \in Datagrams :
        /\ where[d] = s
        /\ s # "dispatcher"
        /\ LET r == Reader(OutChannel(s, d))
           IN  /\ Idle(r)
               /\ where' = [where EXCEPT ![d] = Receive(r, d)]
    /\ UNCHANGED <<sockQ, subQ>>

\* The dispatcher broadcasts a request to its subscriber (spec 4.G).
DispatchDeliver ==
    \E d \in Datagrams :
        /\ where[d] = "dispatcher"
        /\ Len(subQ) < SubCap
        /\ subQ' = Append(subQ, d)
        /\ where' = [where EXCEPT ![d] = "sub"]
        /\ UNCHANGED sockQ

\* A dispatcher that awaits the subscriber's send with no move_on_after.
DispatchWithoutTimeout == FALSE

\* Spec 4.G: the subscriber's buffer stayed full for 100 ms; the message is
\* dropped for it, and the dispatcher returns to its receive.
DispatchDrop ==
    \E d \in Datagrams :
        /\ where[d] = "dispatcher"
        /\ Len(subQ) = SubCap
        /\ where' = [where EXCEPT ![d] = "dropped"]
        /\ UNCHANGED <<sockQ, subQ>>

\* The routing-table manager reads its subscription: a ping becomes a pong
\* to send, a pong an endpoint vote.
RtmReceive ==
    /\ Idle("rtm")
    /\ subQ # <<>>
    /\ where' = [where EXCEPT ![Head(subQ)] = "rtm"]
    /\ subQ' = Tail(subQ)
    /\ UNCHANGED sockQ

Init ==
    /\ where = [d \in Datagrams |-> "net"]
    /\ sockQ = <<>>
    /\ subQ = <<>>

\* Every datagram is done with: the node waits for traffic.
Settled == \A d \in Datagrams : where[d] \in Fates

Next ==
    \/ \E d \in Datagrams : Arrive(d)
    \/ DatagramReceiver
    \/ \E s \in Holders : Pass(s)
    \/ DispatchDeliver \/ DispatchDrop
    \/ RtmReceive
    \/ Settled /\ UNCHANGED pipeVars

\* trio runs every runnable service, and the dispatcher's 100 ms timeout
\* expires. The network sends when it likes, and the routing-table manager,
\* a subscriber busy with its own requests, may be arbitrarily slow: neither
\* gets fairness.
Fairness ==
    /\ WF_pipeVars(DatagramReceiver)
    /\ \A s \in Holders \ {"rtm", "dispatcher"} : WF_pipeVars(Pass(s))
    /\ WF_pipeVars(DispatchDeliver \/ DispatchDrop)

Spec == Init /\ [][Next]_pipeVars /\ Fairness

TypeOK ==
    /\ where \in [Datagrams -> Locations]
    /\ sockQ \in Seq(Datagrams) /\ Len(sockQ) <= SockBuf
    /\ subQ \in Seq(Datagrams) /\ Len(subQ) <= SubCap

\* Spec 4.G: "the dispatcher must never block the receive loop". However
\* slowly the routing-table manager reads its subscription, DatagramReceiver
\* is back in sock.recvfrom again and again: the zero-capacity channels
\* block it while the decoder, the packer or the dispatcher is busy, but
\* never for good.
ReceiveLoopNeverBlocked == []<>Idle("receiver")
====
