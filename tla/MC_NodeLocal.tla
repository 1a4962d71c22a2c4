----------------------------- MODULE MC_NodeLocal -----------------------------
(***************************************************************************)
(* Parts of one node that share no state, checked in one model:            *)
(*   "enr"    its record across restarts and the bootnode seeding          *)
(*            (LocalEnr), with one bootnode of another node id;            *)
(*   "codec"  the v5 packet tag (PacketTag, over 4-bit ids, with a fixed   *)
(*            scrambling that is neither the identity nor injective as a   *)
(*            stand-in for sha256), the Alexandria message codec           *)
(*            (AlexandriaMessages) and the exceptions of the v5.1          *)
(*            Network's bond and lookups (BondErrors), whose inputs are    *)
(*            enumerated, one function at a time, by the initial states;   *)
(*   "pacing" the keep-alive loop and the _last_pong_at LRU                *)
(*            (LastPongCache);                                             *)
(*   "stream" a streamed find-nodes request relaying three responses, one  *)
(*            of them empty, through a channel of capacity two             *)
(*            (StreamFindNodes);                                           *)
(*   "pipeline" the v5 application's datagram pipeline (V5Pipeline), five *)
(*            datagrams (two pings, a pong, an undecodable one, one of an  *)
(*            unknown session), a kernel buffer of one and a               *)
(*            subscription buffer of one.                                  *)
(* `part` picks one of them in the initial state and never changes: the    *)
(* states reached are the disjoint union of the parts' states, each part   *)
(* steps only in its own, and the others stay at their initial values.     *)
(* Each part's fairness is conditioned on the part, so that a behaviour of *)
(* one part never satisfies another part's liveness vacuously.             *)
(***************************************************************************)
EXTENDS Naturals

CONSTANTS Keys, Ports, Ips, MaxSeq, NoKey, NoIp, NoRecord, OtherNode,
          TableIds, OtherIds, Capacity, KeepAlive

VARIABLES part,
          keyFile, nodeDb, running, localKey, port, published, table,
          source, destination, msgId, msgIx, data,
          lru, age, pongSeq, untracked, kaPc, kaNode, sleepLeft,
          caller, hasIp, pong, recent, answer,
          pPc, resp, pos, chan, sendClosed, recvOpen, cPc, got,
          where, sockQ, subQ

\* A bootnode of another node id, at sequence number 2.
MCBootnodes == {[key |-> OtherNode, rec |-> [seq |-> 2, udp |-> 30304, ip |-> NoIp]]}

MCResponses == <<<<"e1", "e2">>, <<>>, <<"e3", "e4", "e5">>>>

MCSha256 == [x \in 0..15 |-> (x * 11 + x \div 4 + 7) % 16]

\* Two pings, so that a full subscription buffer, the dispatcher, the packer,
\* the decoder and the receiver can all hold a datagram at once.
MCDatagrams == {"ping1", "ping2", "pong", "junk", "nosession"}

MCKind == [d \in MCDatagrams |-> IF d \in {"ping1", "ping2"} THEN "ping" ELSE d]

Enr == INSTANCE LocalEnr WITH Bootnodes <- MCBootnodes
Tag == INSTANCE PacketTag WITH IdBits <- 4, Sha256 <- MCSha256
Talk == INSTANCE AlexandriaMessages
Lp == INSTANCE LastPongCache
Err == INSTANCE BondErrors WITH Distances <- {0, 1}
Stream == INSTANCE StreamFindNodes WITH Responses <- MCResponses, Capacity <- 2
Pipe == INSTANCE V5Pipeline WITH Datagrams <- MCDatagrams,
            Kind <- MCKind, SockBuf <- 1, SubCap <- 1

enrVars == <<keyFile, nodeDb, running, localKey, port, published, table>>
codecVars == <<source, destination, msgId, msgIx, data,
               caller, hasIp, pong, recent, answer>>
lpVars == <<lru, age, pongSeq, untracked, kaPc, kaNode, sleepLeft>>
streamVars == <<pPc, resp, pos, chan, sendClosed, recvOpen, cPc, got>>
pipeVars == <<where, sockQ, subQ>>
vars == <<part, keyFile, nodeDb, running, localKey, port, published, table,
          source, destination, msgId, msgIx, data,
          lru, age, pongSeq, untracked, kaPc, kaNode, sleepLeft,
          caller, hasIp, pong, recent, answer, streamVars, pipeVars>>

TagDefault == source = 0 /\ destination = 0
TalkDefault == msgId = 1 /\ msgIx = 1 /\ data = Talk!Shape("empty", 0, 1, 1)
ErrDefault == /\ caller = "lookup" /\ hasIp = TRUE /\ pong = TRUE /\ recent = TRUE
              /\ answer = [timeout |-> TRUE, enrs |-> {}]

Init ==
    /\ part \in {"enr", "codec", "pacing", "stream",
                 "pipeline"}
    /\ Enr!Init /\ Lp!Init /\ Stream!Init /\ Pipe!Init
    \* LocalEnr's one nondeterministic initial variable, fixed outside its part
    /\ part = "enr" \/ port = CHOOSE p \in Ports : TRUE
    /\ IF part = "codec"
       THEN \/ Tag!Init /\ TalkDefault /\ ErrDefault
            \/ TagDefault /\ Talk!Init /\ ErrDefault
            \/ TagDefault /\ TalkDefault /\ Err!Init
       ELSE TagDefault /\ TalkDefault /\ ErrDefault

Next ==
    \/ part = "enr" /\ Enr!Next /\ UNCHANGED <<part, codecVars, lpVars, streamVars, pipeVars>>
    \/ part = "pacing" /\ Lp!Next /\ UNCHANGED <<part, enrVars, codecVars, streamVars, pipeVars>>
    \/ part = "stream" /\ Stream!Next
       /\ UNCHANGED <<part, enrVars, codecVars, lpVars, pipeVars>>
    \/ part = "pipeline" /\ Pipe!Next
       /\ UNCHANGED <<part, enrVars, codecVars, lpVars, streamVars>>
    \/ part = "codec" /\ UNCHANGED vars

\* Each part's fairness, for the steps of that part.
Pacing(A) == part = "pacing" /\ A
Streaming(A) == part = "stream" /\ A
Pipeline(A) == part = "pipeline" /\ A

Spec == Init /\ [][Next]_vars
        /\ WF_lpVars(Pacing(Lp!KeepAlivePick)) /\ WF_lpVars(Pacing(Lp!KeepAliveWake))
        /\ WF_lpVars(Pacing(Lp!KeepAlivePonged)) /\ WF_lpVars(Pacing(Lp!Tick))
        /\ \A n \in Lp!Ids : WF_lpVars(Pacing(Lp!TrackLastPong(n)))
        /\ WF_streamVars(Streaming(Stream!ProducerNextResponse))
        /\ WF_streamVars(Streaming(Stream!ProducerSend))
        /\ WF_streamVars(Streaming(Stream!CallerReceive))
        /\ WF_streamVars(Streaming(Stream!CallerLeave(TRUE)))
        /\ WF_streamVars(Streaming(Stream!CallerCancel))
        /\ WF_pipeVars(Pipeline(Pipe!DatagramReceiver))
        /\ \A s \in Pipe!Holders \ {"rtm", "dispatcher"} :
               WF_pipeVars(Pipeline(Pipe!Pass(s)))
        /\ WF_pipeVars(Pipeline(Pipe!DispatchDeliver \/ Pipe!DispatchDrop))

TypeOK == /\ Enr!TypeOK /\ Tag!TypeOK /\ Talk!TypeOK /\ Lp!TypeOK /\ Err!TypeOK
          /\ Stream!TypeOK /\ Pipe!TypeOK

\* LocalEnr.NoSequenceReuse: no two different records of one node id
\* published across restarts and endpoint votes share a sequence number,
\* and the stored one is the newest, whatever the bootnode seeding stores.
NoSequenceReuse == part = "enr" => Enr!NoSequenceReuse

\* LocalEnr.AdvertisesOwnPort: the running node's record has its port.
AdvertisesOwnPort == part = "enr" => Enr!AdvertisesOwnPort

\* Spec 6: the recipient recovers the sender's id from every tag.
TagRoundTrip == part = "codec" => Tag!TagRoundTrip

\* Every Alexandria message decodes from its own wire bytes to an equal one.
RoundTrip == part = "codec" => Talk!RoundTrip

\* BondErrors.TransientErrorsAbsorbed: timeouts, missing endpoints and
\* empty answers never raise out of bond, _maybe_add_to_routing_table or
\* do_lookup into the daemon task that runs them.
TransientErrorsAbsorbed == part = "codec" => Err!TransientErrorsAbsorbed

\* LastPongCache.EveryEntryChecked: every routing-table entry is pinged
\* again and again by the keep-alive loop.
EveryEntryChecked == part = "pacing" => Lp!EveryEntryChecked

\* StreamFindNodes.DeliveredInOrder: the caller gets the responses' ENRs
\* in order, none lost or repeated, through the bounded channel.
DeliveredInOrder == part = "stream" => Stream!DeliveredInOrder

\* StreamFindNodes.StreamEnds: the stream's context manager is always left
\* with the producer finished or cancelled.
StreamEnds == part = "stream" => Stream!StreamEnds

\* V5Pipeline.ReceiveLoopNeverBlocked: DatagramReceiver returns to
\* sock.recvfrom again and again, whatever the routing-table manager does.
ReceiveLoopNeverBlocked == []<>(part = "pipeline" => Pipe!Idle("receiver"))
====
