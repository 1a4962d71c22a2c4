------------------------- MODULE KademliaRoutingTable -------------------------
(***************************************************************************)
(* The Kademlia routing table (ddht.kademlia.KademliaRoutingTable, not in   *)
(* src/; spec section 3 "RoutingTable" and 4.C) as operators over a value  *)
(* [buckets, replacements]: bucket d holds the node ids at log distance d  *)
(* from the local node, least recently witnessed first, and a replacement  *)
(* cache of the same capacity, most recent first.                          *)
(***************************************************************************)
EXTENDS Naturals, SequencesExt, Bitwise

CONSTANTS LocalNodeId, BucketSize, NumBuckets

RECURSIVE BitLength(_)
BitLength(x) == IF x = 0 THEN 0 ELSE 1 + BitLength(x \div 2)

\* log_distance(a, b): floor(log2(a XOR b)) + 1, and 0 when a = b.
LogDistance(a, b) == BitLength(a ^^ b)

BucketOf(n) == LogDistance(LocalNodeId, n)

EmptyTable ==
    [buckets |-> [d \in 1..NumBuckets |-> <<>>],
     replacements |-> [d \in 1..NumBuckets |-> <<>>]]

\* get_nodes_at_log_distance(d): bucket d, head to tail.
NodesAtLogDistance(t, d) == t.buckets[d]

\* Every node id in a bucket (iter_all_random yields these).
TableNodes(t) == UNION {ToSet(t.buckets[d]) : d \in 1..NumBuckets}

\* Every node id in a replacement cache.
ReplacementNodes(t) == UNION {ToSet(t.replacements[d]) : d \in 1..NumBuckets}

\* update(node_id): a bucket member moves to the tail; a new node is
\* appended if the bucket has room; otherwise it goes to the head of the
\* replacement cache, which drops its oldest entry when over capacity.
UpdateNode(t, n) ==
    LET d == BucketOf(n)
        b == t.buckets[d]
        r == t.replacements[d]
    IN  IF Contains(b, n) \/ Len(b) < BucketSize
        THEN [t EXCEPT !.buckets[d] = Append(Remove(b, n), n)]
        ELSE LET r1 == Cons(n, Remove(r, n))
             IN  [t EXCEPT !.replacements[d] =
                      SubSeq(r1, 1, IF Len(r1) > BucketSize
                                    THEN BucketSize ELSE Len(r1))]

\* remove(node_id): drop it from its bucket and promote the head of the
\* replacement cache, if any, to the tail of the bucket.
RemoveNode(t, n) ==
    LET d == BucketOf(n)
        b == t.buckets[d]
        r == t.replacements[d]
    IN  IF ~Contains(b, n) THEN t
        ELSE IF r = <<>> THEN [t EXCEPT !.buckets[d] = Remove(b, n)]
        ELSE [t EXCEPT !.buckets[d] = Append(Remove(b, n), Head(r)),
                       !.replacements[d] = Tail(r)]
====
