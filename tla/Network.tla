------------------------------- MODULE Network -------------------------------
(***************************************************************************)
(* The routing-table maintenance of ddht.v5_1.network.Network              *)
(* (src/ddht/v5_1/network.py 392-813): bond, lookup_enr / _fetch_enr, the  *)
(* keep-alive loop _ping_oldest_routing_table_entry with _track_last_pong, *)
(* the ping handler _pong_when_pinged, _serve_find_nodes, and the          *)
(* bootstrap and refresh phases of _manage_routing_table, as trio tasks    *)
(* that interleave at their checkpoints around one routing table and one   *)
(* ENR database.                                                           *)
(*                                                                         *)
(* Remote nodes are alive or dead. An alive node answers a request unless  *)
(* the datagram is lost or its ENR advertises an endpoint that does not    *)
(* reach it; otherwise the request ends in TooSlowError. An ENR is reduced *)
(* to its node id and sequence number.                                     *)
(***************************************************************************)
EXTENDS Naturals, FiniteSets, SequencesExt

CONSTANTS
    LocalNodeId,     \* our node id
    Nodes,           \* remote node ids
    BucketSize,      \* routing_table.bucket_size
    NumBuckets,      \* routing_table.num_buckets (the id width)
    Bootnodes,       \* node ids of the configured bootnode ENRs
    PingNodes,       \* remote nodes that may send us PING
    RefreshNodes,    \* node ids a refresh lookup may stream
    CrashNodes,      \* remote nodes that may stop answering for good
    Unreachable,     \* nodes whose ENR endpoint does not reach them
    MaxSeq,          \* bound on a remote node's ENR sequence number
    DistanceRequests \* distance lists a remote FINDNODE may carry

ASSUME /\ LocalNodeId \notin Nodes
       /\ Bootnodes \cup PingNodes \cup RefreshNodes \cup CrashNodes \cup Unreachable
          \subseteq Nodes
       /\ MaxSeq \in Nat \ {0}

KRT == INSTANCE KademliaRoutingTable

VARIABLES
    alive,       \* remote nodes that answer requests
    remoteSeq,   \* remoteSeq[n]: sequence number of n's current ENR
    enrDb,       \* enrDb[n]: sequence number of the stored ENR of n, 0 if none
    table,       \* the routing table, [buckets, replacements]
    ready,       \* _routing_table_ready is set
    pongOrder,   \* _last_pong_at: node ids, least recently ponged first
    fresh,       \* nodes whose last pong is younger than ROUTING_TABLE_KEEP_ALIVE
    untracked,   \* pongs received and not yet seen by _track_last_pong
    bonding,     \* bonding[n]: step of the spawned _bond(n) task
    kaPc,        \* step of _ping_oldest_routing_table_entry
    kaNode,      \* the node it is bonding with
    handler,     \* handler[n]: step of _maybe_add_to_routing_table for n's PING
    handlerSeq,  \* enr_seq carried by that PING
    served,      \* FOUNDNODES response computed and not yet sent, or NoResponse
    bootPc       \* phase of _manage_routing_table

vars == <<alive, remoteSeq, enrDb, table, ready, pongOrder, fresh, untracked,
          bonding, kaPc, kaNode, handler, handlerSeq, served, bootPc>>

NoNode == LocalNodeId
NoResponse == [distances |-> {}, enrs |-> {}]

TableNodes == KRT!TableNodes(table)

\* Nodes that answer a request sent to the endpoint of their ENR, as
\* bond, the keep-alive and the bootnode bonds send them. A PING handler
\* answers the sender's observed endpoint, which reaches any live node.
Reachable == alive \ Unreachable

\* The ENR database (eth_enr, spec: "rejects any set_enr whose sequence
\* number is less than the stored value"); OldSequenceNumber is ignored by
\* every caller here.
SetEnr(db, n, s) == [db EXCEPT ![n] = IF s >= @ THEN s ELSE @]

\* lookup_enr(n, enr_seq=s) returns the stored ENR without a request when
\* it is at least as recent as the one the peer advertises.
HasRecentEnr(n, s) == enrDb[n] > 0 /\ enrDb[n] >= s

\* The tail of bond() and of _maybe_add_to_routing_table once lookup_enr
\* returned: routing_table.update(enr.node_id), _routing_table_ready.set().
Bonded(n) == /\ table' = KRT!UpdateNode(table, n)
             /\ ready' = TRUE

\* _fetch_enr answered: find_nodes(n, 0) returns n's current ENR, which
\* lookup_enr stores (set_enr, OldSequenceNumber ignored) before returning.
FetchedEnr(n) == enrDb' = SetEnr(enrDb, n, remoteSeq[n])

\* The PONG reaches the request and the PingMessage subscription.
Ponged(n) == untracked' = untracked \cup {n}

(***************************************************************************)
(* bond(n), as the tasks spawned by _manage_routing_table run it.          *)
(***************************************************************************)

\* await ping(n): a PONG carrying enr_seq = remoteSeq[n], then lookup_enr
\* either returns the stored ENR (no checkpoint: the bond completes in the
\* same step) or goes on to _fetch_enr.  TooSlowError: return False.
BondPingAnswered(n) ==
    /\ bonding[n] = "ping"
    /\ n \in Reachable
    /\ Ponged(n)
    /\ IF HasRecentEnr(n, remoteSeq[n])
       THEN Bonded(n) /\ bonding' = [bonding EXCEPT ![n] = "idle"]
       ELSE bonding' = [bonding EXCEPT ![n] = "fetch"] /\ UNCHANGED <<table, ready>>
    /\ UNCHANGED <<alive, remoteSeq, enrDb, pongOrder, fresh, kaPc, kaNode,
                   handler, handlerSeq, served, bootPc>>

\* await _fetch_enr(n): stored, then routing_table.update.
BondFetchAnswered(n) ==
    /\ bonding[n] = "fetch"
    /\ n \in Reachable
    /\ bonding' = [bonding EXCEPT ![n] = "idle"]
    /\ FetchedEnr(n)
    /\ Bonded(n)
    /\ UNCHANGED <<alive, remoteSeq, pongOrder, fresh, untracked, kaPc, kaNode,
                   handler, handlerSeq, served, bootPc>>

\* The ping or the fetch ends in TooSlowError (or EmptyFindNodesResponse):
\* bond returns False and _bond drops it.
BondTimesOut(n) ==
    /\ bonding[n] \in {"ping", "fetch"}
    /\ bonding' = [bonding EXCEPT ![n] = "idle"]
    /\ UNCHANGED <<alive, remoteSeq, enrDb, table, ready, pongOrder, fresh,
                   untracked, kaPc, kaNode, handler, handlerSeq, served, bootPc>>

(***************************************************************************)
(* _ping_oldest_routing_table_entry and _track_last_pong.                  *)
(***************************************************************************)

\* Mutant: max instead of min, the most recently ponged entry first.
MostRecentlyPonged(t) ==
    LET nodes == KRT!TableNodes(t)
        never == nodes \ ToSet(pongOrder)
    IN  IF nodes = {} THEN {}
        ELSE IF never = nodes THEN never
        ELSE {pongOrder[CHOOSE k \in DOMAIN pongOrder :
                 /\ pongOrder[k] \in nodes
                 /\ \A j \in (k + 1)..Len(pongOrder) : pongOrder[j] \notin nodes]}

\* min(iter_all_random(), key=_last_pong_at.get(node_id, 0)): a node never
\* ponged has key 0; ties go to whichever the random iteration yields first.
LeastRecentlyPonged(t) ==
    LET nodes == KRT!TableNodes(t)
        never == nodes \ ToSet(pongOrder)
    IN  IF nodes = {} THEN {}
        ELSE IF never # {} THEN never
        ELSE {pongOrder[CHOOSE k \in DOMAIN pongOrder :
                 /\ pongOrder[k] \in nodes
                 /\ \A j \in 1..(k - 1) : pongOrder[j] \notin nodes]}

\* The entries of table t the loop may bond with now: least recently
\* ponged, and with no pong younger than ROUTING_TABLE_KEEP_ALIVE.
Due(t) == {n \in LeastRecentlyPonged(t) : n \notin fresh}

\* The loop's next iteration over table t up to its next checkpoint: the
\* `await self.bond(...)` of a due entry, or a sleep (an empty table, or
\* an entry ponged too recently), after which KeepAlivePick picks again.
\* The iteration follows the end of the previous one, and the return of
\* _routing_table_ready.wait(), with no checkpoint in between.
KeepAliveNext(t) ==
    IF Due(t) # {}
    THEN \E n \in Due(t) : kaNode' = n /\ kaPc' = "ping"
    ELSE kaPc' = "pick" /\ UNCHANGED kaNode

\* await _routing_table_ready.wait(), then the first iteration.
KeepAliveStart ==
    /\ kaPc = "wait"
    /\ ready
    /\ KeepAliveNext(table)
    /\ UNCHANGED <<alive, remoteSeq, enrDb, table, ready, pongOrder, fresh,
                   untracked, bonding, handler, handlerSeq, served, bootPc>>

\* The sleep ends (time passed, or the table changed) and the loop picks
\* a due entry.
KeepAlivePick ==
    /\ kaPc = "pick"
    /\ Due(table) # {}
    /\ KeepAliveNext(table)
    /\ UNCHANGED <<alive, remoteSeq, enrDb, table, ready, pongOrder, fresh,
                   untracked, bonding, handler, handlerSeq, served, bootPc>>

\* bond(kaNode) without an endpoint: the PONG arrives, and lookup_enr
\* returns the stored ENR or goes on to _fetch_enr.
KeepAlivePingAnswered ==
    /\ kaPc = "ping"
    /\ kaNode \in Reachable
    /\ Ponged(kaNode)
    /\ IF HasRecentEnr(kaNode, remoteSeq[kaNode])
       THEN Bonded(kaNode) /\ KeepAliveNext(KRT!UpdateNode(table, kaNode))
       ELSE kaPc' = "fetch" /\ UNCHANGED <<table, ready, kaNode>>
    /\ UNCHANGED <<alive, remoteSeq, enrDb, pongOrder, fresh, bonding,
                   handler, handlerSeq, served, bootPc>>

KeepAliveFetchAnswered ==
    /\ kaPc = "fetch"
    /\ kaNode \in Reachable
    /\ FetchedEnr(kaNode)
    /\ Bonded(kaNode)
    /\ KeepAliveNext(KRT!UpdateNode(table, kaNode))
    /\ UNCHANGED <<alive, remoteSeq, pongOrder, fresh, untracked, bonding,
                   handler, handlerSeq, served, bootPc>>

\* The ping or the fetch times out: bond returns False and the loop calls
\* routing_table.remove(least_recently_ponged_node_id), then iterates.
KeepAliveTimesOut ==
    /\ kaPc \in {"ping", "fetch"}
    /\ table' = KRT!RemoveNode(table, kaNode)
    /\ KeepAliveNext(KRT!RemoveNode(table, kaNode))
    /\ UNCHANGED <<alive, remoteSeq, enrDb, ready, pongOrder, fresh, untracked,
                   bonding, handler, handlerSeq, served, bootPc>>

\* Mutant: the pong time appended as a new entry instead of replacing
\* the sender's old one.
TrackPongAppend(n) ==
    /\ n \in untracked
    /\ untracked' = untracked \ {n}
    /\ pongOrder' = Append(pongOrder, n)
    /\ fresh' = fresh \cup {n}
    /\ UNCHANGED <<alive, remoteSeq, enrDb, table, ready, bonding, kaPc, kaNode,
                   handler, handlerSeq, served, bootPc>>

\* _last_pong_at[message.sender_node_id] = trio.current_time()
TrackPong(n) ==
    /\ n \in untracked
    /\ untracked' = untracked \ {n}
    /\ pongOrder' = Append(Remove(pongOrder, n), n)
    /\ fresh' = fresh \cup {n}
    /\ UNCHANGED <<alive, remoteSeq, enrDb, table, ready, bonding, kaPc, kaNode,
                   handler, handlerSeq, served, bootPc>>

\* Time passes: the oldest pong younger than ROUTING_TABLE_KEEP_ALIVE
\* becomes too old.
Tick ==
    /\ \E k \in DOMAIN pongOrder :
          /\ pongOrder[k] \in fresh
          /\ \A j \in 1..(k - 1) : pongOrder[j] \notin fresh
          /\ fresh' = fresh \ {pongOrder[k]}
    /\ UNCHANGED <<alive, remoteSeq, enrDb, table, ready, pongOrder, untracked,
                   bonding, kaPc, kaNode, handler, handlerSeq, served, bootPc>>

(***************************************************************************)
(* _pong_when_pinged and its _maybe_add_to_routing_table tasks.            *)
(***************************************************************************)

\* A PING from n is answered (send_message) and a task is spawned with
\* the enr_seq it carries. One task per sender at a time is modelled.
InboundPing(n) ==
    /\ n \in alive
    /\ handler[n] = "idle"
    /\ handler' = [handler EXCEPT ![n] = "start"]
    /\ handlerSeq' = [handlerSeq EXCEPT ![n] = remoteSeq[n]]
    /\ UNCHANGED <<alive, remoteSeq, enrDb, table, ready, pongOrder, fresh,
                   untracked, bonding, kaPc, kaNode, served, bootPc>>

\* lookup_enr(sender, enr_seq, endpoint=sender_endpoint): a recent enough
\* stored ENR returns at once and the node is added in the same step.
HandlerStart(n) ==
    /\ handler[n] = "start"
    /\ IF HasRecentEnr(n, handlerSeq[n])
       THEN Bonded(n) /\ handler' = [handler EXCEPT ![n] = "idle"]
       ELSE handler' = [handler EXCEPT ![n] = "fetch"] /\ UNCHANGED <<table, ready>>
    /\ UNCHANGED <<alive, remoteSeq, enrDb, pongOrder, fresh, untracked, bonding,
                   kaPc, kaNode, handlerSeq, served, bootPc>>

\* Mutant: the fetched ENR is used but not stored.
HandlerFetchNoStore(n) ==
    /\ handler[n] = "fetch"
    /\ handler' = [handler EXCEPT ![n] = "idle"]
    /\ \/ n \in alive /\ Bonded(n) /\ UNCHANGED enrDb
       \/ UNCHANGED <<enrDb, table, ready>>
    /\ UNCHANGED <<alive, remoteSeq, pongOrder, fresh, untracked, bonding,
                   kaPc, kaNode, handlerSeq, served, bootPc>>

\* _fetch_enr with the sender's endpoint; TooSlowError or
\* EmptyFindNodesResponse: return without touching the table.
HandlerFetch(n) ==
    /\ handler[n] = "fetch"
    /\ handler' = [handler EXCEPT ![n] = "idle"]
    /\ \/ n \in alive /\ FetchedEnr(n) /\ Bonded(n)
       \/ UNCHANGED <<enrDb, table, ready>>
    /\ UNCHANGED <<alive, remoteSeq, pongOrder, fresh, untracked, bonding,
                   kaPc, kaNode, handlerSeq, served, bootPc>>

(***************************************************************************)
(* _serve_find_nodes                                                       *)
(***************************************************************************)

\* Mutant: the buckets indexed from the far end.
FoundNodesResponseReversed(dset) ==
    (IF 0 \in dset THEN {LocalNodeId} ELSE {})
    \cup UNION {ToSet(KRT!NodesAtLogDistance(table, NumBuckets + 1 - d)) : d \in dset \ {0}}

\* The ENRs answered for a set of valid distances: our own for 0, and the
\* stored ENR of every node in bucket d otherwise.
FoundNodesResponse(dset) ==
    (IF 0 \in dset THEN {LocalNodeId} ELSE {})
    \cup UNION {ToSet(KRT!NodesAtLogDistance(table, d)) : d \in dset \ {0}}

\* A FINDNODE with duplicate, no, or out-of-range distances is ignored;
\* otherwise the response is built before `await send_found_nodes`.
ServeFindNodes(ds) ==
    /\ served = NoResponse
    /\ LET dset == ToSet(ds)
       IN  IF Len(ds) # Cardinality(dset) \/ dset = {}
              \/ \E d \in dset : d > NumBuckets
           THEN UNCHANGED served
           ELSE served' = [distances |-> dset, enrs |-> FoundNodesResponse(dset)]
    /\ UNCHANGED <<alive, remoteSeq, enrDb, table, ready, pongOrder, fresh,
                   untracked, bonding, kaPc, kaNode, handler, handlerSeq, bootPc>>

SendFoundNodes ==
    /\ served # NoResponse
    /\ served' = NoResponse
    /\ UNCHANGED <<alive, remoteSeq, enrDb, table, ready, pongOrder, fresh,
                   untracked, bonding, kaPc, kaNode, handler, handlerSeq, bootPc>>

(***************************************************************************)
(* _manage_routing_table                                                   *)
(***************************************************************************)

\* Load the bootnode ENRs (sequence number 1), then open the first 20 s
\* window: a _bond(enr.node_id, endpoint) task per bootnode.
BootLoad ==
    /\ bootPc = "load"
    /\ enrDb' = [n \in Nodes |-> IF n \in Bootnodes THEN SetEnr(enrDb, n, 1)[n]
                                 ELSE enrDb[n]]
    /\ bonding' = [n \in Nodes |-> IF n \in Bootnodes THEN "ping" ELSE bonding[n]]
    /\ bootPc' = "window"
    /\ UNCHANGED <<alive, remoteSeq, table, ready, pongOrder, fresh, untracked,
                   kaPc, kaNode, handler, handlerSeq, served>>

\* Mutant: the bonds are started once, outside the retry loop.
BootWindowExpiresNoRespawn ==
    /\ bootPc = "window"
    /\ bonding' = [n \in Nodes |-> IF n \in Bootnodes THEN "idle" ELSE bonding[n]]
    /\ bootPc' = IF ready THEN "refresh" ELSE "window"
    /\ UNCHANGED <<alive, remoteSeq, enrDb, table, ready, pongOrder, fresh,
                   untracked, kaPc, kaNode, handler, handlerSeq, served>>

\* move_on_after(20) expires: the bootnode bonds are cancelled; if ready
\* was set the loop has broken out, otherwise a new window starts.
BootWindowExpires ==
    /\ bootPc = "window"
    /\ bonding' = [n \in Nodes |-> IF n \in Bootnodes
                                   THEN IF ready THEN "idle" ELSE "ping"
                                   ELSE bonding[n]]
    /\ bootPc' = IF ready THEN "refresh" ELSE "window"
    /\ UNCHANGED <<alive, remoteSeq, enrDb, table, ready, pongOrder, fresh,
                   untracked, kaPc, kaNode, handler, handlerSeq, served>>

\* _routing_table_ready.wait() returned and the nursery's bonds are done.
BootReady ==
    /\ bootPc = "window"
    /\ ready
    /\ \A b \in Bootnodes : bonding[b] = "idle"
    /\ bootPc' = "refresh"
    /\ UNCHANGED <<alive, remoteSeq, enrDb, table, ready, pongOrder, fresh,
                   untracked, bonding, kaPc, kaNode, handler, handlerSeq, served>>

\* The refresh lookup streams an ENR of n with sequence number s (a peer may
\* hold an older copy): set_enr, then start_soon(_bond, n). A bond already
\* running for n stands for the new one.
RefreshFound(n, s) ==
    /\ bootPc = "refresh"
    /\ s <= remoteSeq[n]
    /\ enrDb' = SetEnr(enrDb, n, s)
    /\ bonding' = [bonding EXCEPT ![n] = IF @ = "idle" THEN "ping" ELSE @]
    /\ UNCHANGED <<alive, remoteSeq, table, ready, pongOrder, fresh, untracked,
                   kaPc, kaNode, handler, handlerSeq, served, bootPc>>

(***************************************************************************)
(* Remote nodes                                                            *)
(***************************************************************************)

Crash(n) ==
    /\ n \in alive \cap CrashNodes
    /\ alive' = alive \ {n}
    /\ UNCHANGED <<remoteSeq, enrDb, table, ready, pongOrder, fresh, untracked,
                   bonding, kaPc, kaNode, handler, handlerSeq, served, bootPc>>

\* n publishes a new ENR (its endpoint changed).
UpdateEnr(n) ==
    /\ n \in alive
    /\ remoteSeq[n] < MaxSeq
    /\ remoteSeq' = [remoteSeq EXCEPT ![n] = @ + 1]
    /\ UNCHANGED <<alive, enrDb, table, ready, pongOrder, fresh, untracked,
                   bonding, kaPc, kaNode, handler, handlerSeq, served, bootPc>>

(***************************************************************************)
(* The specification                                                       *)
(***************************************************************************)

Init ==
    /\ alive = Nodes
    /\ remoteSeq = [n \in Nodes |-> 1]
    /\ enrDb = [n \in Nodes |-> 0]
    /\ table = KRT!EmptyTable
    /\ ready = FALSE
    /\ pongOrder = <<>>
    /\ fresh = {}
    /\ untracked = {}
    /\ bonding = [n \in Nodes |-> "idle"]
    /\ kaPc = "wait"
    /\ kaNode = NoNode
    /\ handler = [n \in Nodes |-> "idle"]
    /\ handlerSeq = [n \in Nodes |-> 0]
    /\ served = NoResponse
    /\ bootPc = "load"

KeepAliveStep == \/ KeepAliveStart \/ KeepAlivePick \/ KeepAlivePingAnswered
                 \/ KeepAliveFetchAnswered \/ KeepAliveTimesOut
BondStep(n) == BondPingAnswered(n) \/ BondFetchAnswered(n) \/ BondTimesOut(n)
HandlerStep(n) == HandlerStart(n) \/ HandlerFetch(n)
BootStep == BootLoad \/ BootWindowExpires \/ BootReady

Next ==
    \/ KeepAliveStep
    \/ \E n \in Nodes : TrackPong(n) \/ BondStep(n) \/ Crash(n) \/ UpdateEnr(n)
    \/ Tick
    \/ \E n \in PingNodes : InboundPing(n) \/ HandlerStep(n)
    \/ \E ds \in DistanceRequests : ServeFindNodes(ds)
    \/ SendFoundNodes
    \/ BootStep
    \/ \E n \in RefreshNodes, s \in 1..MaxSeq : RefreshFound(n, s)

\* trio runs every runnable task, a request ends in a response or in
\* TooSlowError, and time passes. Remote nodes, the refresh lookup and the
\* token bucket owe us nothing.
Fairness ==
    /\ WF_vars(KeepAliveStep)
    /\ WF_vars(Tick)
    /\ WF_vars(SendFoundNodes)
    /\ WF_vars(BootStep)
    /\ \A n \in Nodes : WF_vars(TrackPong(n)) /\ WF_vars(BondStep(n))
                        /\ WF_vars(HandlerStep(n))

Spec == Init /\ [][Next]_vars /\ Fairness

\* Datagrams to a reachable node are not lost forever. (The answers of a
\* node in Unreachable are never enabled, so fairness on them is vacuous.)
AnsweredFairness ==
    /\ SF_vars(KeepAlivePingAnswered) /\ SF_vars(KeepAliveFetchAnswered)
    /\ \A n \in Nodes \ Unreachable :
          SF_vars(BondPingAnswered(n)) /\ SF_vars(BondFetchAnswered(n))

LossySpec == Spec /\ AnsweredFairness

(***************************************************************************)
(* Properties                                                              *)
(***************************************************************************)

TypeOK ==
    /\ alive \subseteq Nodes
    /\ remoteSeq \in [Nodes -> 1..MaxSeq]
    /\ enrDb \in [Nodes -> 0..MaxSeq]
    /\ TableNodes \cup KRT!ReplacementNodes(table) \subseteq Nodes
    /\ \A d \in 1..NumBuckets :
          /\ Len(table.buckets[d]) <= BucketSize
          /\ Len(table.replacements[d]) <= BucketSize
    /\ ready \in BOOLEAN
    /\ ToSet(pongOrder) \subseteq Nodes /\ Len(pongOrder) = Cardinality(ToSet(pongOrder))
    /\ fresh \subseteq ToSet(pongOrder)
    /\ untracked \subseteq Nodes
    /\ bonding \in [Nodes -> {"idle", "ping", "fetch"}]
    /\ kaPc \in {"wait", "pick", "ping", "fetch"}
    /\ kaNode \in Nodes \cup {NoNode}
    /\ handler \in [Nodes -> {"idle", "start", "fetch"}]
    /\ handlerSeq \in [Nodes -> 0..MaxSeq]
    /\ bootPc \in {"load", "window", "refresh"}

\* Every node in a bucket or a replacement cache has an ENR in the
\* database: _serve_find_nodes (enr_db.get_enr) and the keep-alive bond
\* (endpoint_for_node_id) read it for any entry, and a missing one raises
\* KeyError out of a daemon task. Entries come from bond, the ping handler
\* and replacement promotion on remove.
RoutingTableHasEnrs ==
    \A n \in TableNodes \cup KRT!ReplacementNodes(table) : enrDb[n] > 0

\* A FOUNDNODES response of _serve_find_nodes holds only ENRs at one of
\* the requested log distances from us, so the requester's
\* validate_found_nodes_distances accepts it.
ServedAtRequestedDistance ==
    \A m \in served.enrs : KRT!LogDistance(LocalNodeId, m) \in served.distances

\* A node that stopped answering and sits in a bucket is eventually
\* removed by the keep-alive loop, however the pongs of the live entries
\* are ordered.
DeadEntriesRemoved ==
    \A n \in CrashNodes : (n \notin alive /\ n \in TableNodes) ~> (n \notin TableNodes)

\* If a bootnode stays reachable, the bootstrap loop eventually bonds and
\* _routing_table_ready is set, however often its 20 s window cancels the
\* bonds in flight.
BootstrapCompletes ==
    (\E b \in Bootnodes \ Unreachable : [](b \in alive)) => <>ready

====
