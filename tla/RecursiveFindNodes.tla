------------------------- MODULE RecursiveFindNodes -------------------------
(***************************************************************************)
(* The recursive find-nodes lookup of ddht/v5_1/network.py                 *)
(* (common_recursive_find_nodes): `Concurrency` worker tasks and one       *)
(* `_monitor_done` task share the lookup state under one trio.Condition;   *)
(* every worker batch of more than one node runs its do_lookup calls as    *)
(* concurrent tasks under adaptive_timeout, which cancels the slow ones.   *)
(*                                                                         *)
(* Atomicity follows trio's cooperative scheduling: an action is the code  *)
(* between two checkpoints.  The condition's lock is trio's fair lock: a   *)
(* task that finds it taken parks in a FIFO queue, release hands the lock  *)
(* to the head of that queue, and notify_all moves every condition waiter  *)
(* to the tail of the lock's queue.                                        *)
(*                                                                         *)
(* The local routing table is shared with the rest of the Network service: *)
(* bonding, the ping handler and the keep-alive loop add and remove        *)
(* entries while a lookup runs; ChangeRoutingTable is that environment.    *)
(***************************************************************************)
EXTENDS Naturals, FiniteSets, Sequences, Bitwise

CONSTANTS
    NodeIds,            \* the node ids of the model, small naturals
    LocalNodeId,        \* network.local_node_id
    Target,             \* the lookup target
    Concurrency,        \* number of worker tasks (`concurrency`, default 3)
    BucketSize,         \* routing_table.bucket_size, the `k` of the lookup
    PeerTable,          \* [NodeIds -> SUBSET NodeIds]: each remote's routing table
    InitRoutingTable,   \* the local routing table when the lookup starts
    CachedUnresponsive, \* UNRESPONSIVE_CACHE entries younger than 300 s
    ChurnNodes,         \* nodes other tasks may add to or remove from the routing table
    MaxTableChanges     \* bound on routing-table changes during the lookup

ASSUME /\ LocalNodeId \in NodeIds /\ Target \in NodeIds
       /\ Concurrency \in Nat \ {0} /\ BucketSize \in Nat \ {0}
       /\ PeerTable \in [NodeIds -> SUBSET NodeIds]
       /\ InitRoutingTable \subseteq NodeIds \ {LocalNodeId}
       /\ CachedUnresponsive \subseteq NodeIds
       /\ ChurnNodes \subseteq NodeIds \ {LocalNodeId}
       /\ MaxTableChanges \in Nat

Workers == 1..Concurrency

\* The tasks that contend for the condition's lock.
WorkerTask(i) == <<"worker", i>>
LookupTask(n) == <<"lookup", n>>
MonitorTask == <<"monitor", 0>>
Tasks == {WorkerTask(i) : i \in Workers} \cup {LookupTask(n) : n \in NodeIds}
            \cup {MonitorTask}
NoTask == <<"none", 0>>

VARIABLES
    queried,            \* queried_node_ids
    inFlight,           \* in_flight
    received,           \* received_node_ids
    unresponsive,       \* unresponsive_node_ids
    unresponsiveCache,  \* nodes with a fresh entry in UNRESPONSIVE_CACHE
    routingTable,       \* network.routing_table (shared with the Network service)
    streamed,           \* [NodeIds -> Nat]: ENRs sent on the result channel per node
    lockOwner,          \* owner of the condition's lock
    lockQueue,          \* tasks parked on the lock, in FIFO order
    condWaiters,        \* tasks parked in condition.wait(), in FIFO order
    wpc,                \* worker program counters
    batch,              \* [Workers -> SUBSET NodeIds]: node_ids of the current round
    deadline,           \* [Workers -> BOOLEAN]: adaptive_timeout of the round expired
    mpc,                \* monitor program counter
    lpc,                \* [NodeIds -> ...]: program counter of do_lookup(node_id)
    pending,            \* [NodeIds -> SUBSET NodeIds]: new_enrs do_lookup has yet to send
    requests,           \* [NodeIds -> Nat]: find_nodes requests sent to each node
    tableChanges        \* routing-table changes so far

vars == <<queried, inFlight, received, unresponsive, unresponsiveCache,
          routingTable, streamed, lockOwner, lockQueue, condWaiters, wpc,
          batch, deadline, mpc, lpc, pending, requests, tableChanges>>
lookupVars == <<queried, inFlight, received, unresponsive, unresponsiveCache,
                streamed, requests>>

-----------------------------------------------------------------------------
(* Kademlia metric (ddht.kademlia, spec section 3 and glossary).            *)

RECURSIVE BitLength(_)
BitLength(x) == IF x = 0 THEN 0 ELSE 1 + BitLength(x \div 2)

LogDistance(a, b) == BitLength(a ^^ b)

\* The `k` members of S closest to Target (XOR distances to one point are
\* distinct, so the `k` closest are exactly those with fewer than k closer).
DistanceToTarget == [n \in NodeIds |-> n ^^ Target]

Closest(S, k) ==
    {n \in S : Cardinality({m \in S : DistanceToTarget[m] < DistanceToTarget[n]}) < k}

\* The ENRs remote `n` answers find_nodes(n, distance) with: do_lookup asks
\* for the distance of the target (0 for the target itself) and the remote's
\* _serve_find_nodes answers its own ENR at distance 0, else its bucket.
FoundNodes ==
    [n \in NodeIds |->
        IF n = Target THEN {n}
        ELSE {m \in PeerTable[n] : LogDistance(n, m) = LogDistance(n, Target)}]

\* Mutation of Unqueried: only in-flight nodes are filtered out.
UnqueriedIgnoringQueried ==
    LET closestK == Closest((routingTable \cup received) \ unresponsive, BucketSize)
    IN  Closest(closestK \ inFlight, 3)

\* get_unqueried_node_ids: of the `k` closest responsive known nodes, the
\* (at most) three closest that are neither queried nor in flight.
Unqueried ==
    LET closestK == Closest((routingTable \cup received) \ unresponsive, BucketSize)
    IN  Closest(closestK \ (queried \cup inFlight), 3)

\* Mutation of FromRoutingTable: every node of the batch is sent.
FromRoutingTableAll(ids) == ids

\* The nodes of a batch that came from the routing table, not from a
\* response: those not yet in received_node_ids, whose ENRs the worker sends.
FromRoutingTable(ids) == ids \ received

-----------------------------------------------------------------------------
(* trio.Lock and trio.Condition.                                            *)

Holds(t) == lockOwner = t

Acquire(t) ==
    \/ /\ lockOwner = NoTask /\ lockQueue = <<>>
       /\ lockOwner' = t
       /\ UNCHANGED lockQueue
    \/ /\ lockOwner # NoTask \/ lockQueue # <<>>
       /\ lockQueue' = Append(lockQueue, t)
       /\ UNCHANGED lockOwner

\* Mutation of ReleaseTo: the lock is handed over without dequeuing its
\* new owner.
ReleaseToKeepHead(q) ==
    IF q = <<>> THEN lockOwner' = NoTask /\ lockQueue' = <<>>
    ELSE lockOwner' = Head(q) /\ lockQueue' = q

\* Release the lock, handing it to the first task of queue q.
ReleaseTo(q) ==
    IF q = <<>> THEN lockOwner' = NoTask /\ lockQueue' = <<>>
    ELSE lockOwner' = Head(q) /\ lockQueue' = Tail(q)

Release == ReleaseTo(lockQueue) /\ UNCHANGED condWaiters

\* condition.wait(): release the lock and park on the condition.
Wait(t) == ReleaseTo(lockQueue) /\ condWaiters' = Append(condWaiters, t)

\* condition.notify_all() followed by leaving `async with condition`.
NotifyAllAndRelease == ReleaseTo(lockQueue \o condWaiters) /\ condWaiters' = <<>>

\* The adaptive timeout of the round that `n` belongs to has expired.
Expired(n) == \E i \in Workers : wpc[i] = "lookup" /\ n \in batch[i] /\ deadline[i]

-----------------------------------------------------------------------------
Init ==
    /\ queried = {}
    /\ inFlight = {}
    /\ received = {}
    /\ unresponsive = {LocalNodeId} \cup CachedUnresponsive
    /\ unresponsiveCache = CachedUnresponsive
    /\ routingTable = InitRoutingTable
    /\ streamed = [n \in NodeIds |-> 0]
    /\ lockOwner = NoTask
    /\ lockQueue = <<>>
    /\ condWaiters = <<>>
    /\ wpc = [i \in Workers |-> "acquire"]
    /\ batch = [i \in Workers |-> {}]
    /\ deadline = [i \in Workers |-> FALSE]
    /\ mpc = "acquire"
    /\ lpc = [n \in NodeIds |-> "idle"]
    /\ pending = [n \in NodeIds |-> {}]
    /\ requests = [n \in NodeIds |-> 0]
    /\ tableChanges = 0
-----------------------------------------------------------------------------
(* worker(): one round of the `for round in itertools.count()` loop.        *)

\* `async with condition:` at the top of the round.
WorkerAcquire(i) ==
    /\ wpc[i] = "acquire"
    /\ Acquire(WorkerTask(i))
    /\ wpc' = [wpc EXCEPT ![i] = "select"]
    /\ UNCHANGED <<lookupVars, routingTable, condWaiters, batch, deadline, mpc,
                   lpc, pending, tableChanges>>

\* Under the lock: with nothing to query, condition.wait(); otherwise mark the
\* batch queried and in flight, send the ENRs of the nodes that came from the
\* routing table (not yet in received), leave the lock and start one
\* do_lookup per node.
WorkerSelect(i) ==
    /\ wpc[i] = "select"
    /\ Holds(WorkerTask(i))
    /\ LET ids == Unqueried IN
       \/ /\ ids = {}
          /\ Wait(WorkerTask(i))
          /\ wpc' = [wpc EXCEPT ![i] = "woken"]
          /\ UNCHANGED <<lookupVars, batch, deadline, lpc>>
       \/ /\ ids # {}
          /\ queried' = queried \cup ids
          /\ inFlight' = inFlight \cup ids
          /\ received' = received \cup ids
          /\ streamed' = [n \in NodeIds |->
                            IF n \in FromRoutingTable(ids) THEN streamed[n] + 1
                            ELSE streamed[n]]
          /\ requests' = [n \in NodeIds |->
                            IF n \in ids THEN requests[n] + 1 ELSE requests[n]]
          /\ lpc' = [n \in NodeIds |-> IF n \in ids THEN "request" ELSE lpc[n]]
          /\ batch' = [batch EXCEPT ![i] = ids]
          /\ deadline' = [deadline EXCEPT ![i] = FALSE]
          /\ Release
          /\ wpc' = [wpc EXCEPT ![i] = "lookup"]
          /\ UNCHANGED <<unresponsive, unresponsiveCache>>
    /\ UNCHANGED <<routingTable, mpc, pending, tableChanges>>

\* Woken from condition.wait() holding the lock: `continue` leaves it.
WorkerResume(i) ==
    /\ wpc[i] = "woken"
    /\ Holds(WorkerTask(i))
    /\ Release
    /\ wpc' = [wpc EXCEPT ![i] = "acquire"]
    /\ UNCHANGED <<lookupVars, routingTable, batch, deadline, mpc, lpc,
                   pending, tableChanges>>

\* adaptive_timeout(threshold=1, variance=2): once one do_lookup of a batch
\* of several has returned, the rest get a deadline that may expire.
AdaptiveTimeout(i) ==
    /\ wpc[i] = "lookup"
    /\ Cardinality(batch[i]) > 1
    /\ ~deadline[i]
    /\ \E n \in batch[i] : lpc[n] = "done"
    /\ \E n \in batch[i] : lpc[n] # "done"
    /\ deadline' = [deadline EXCEPT ![i] = TRUE]
    /\ UNCHANGED <<lookupVars, routingTable, lockOwner, lockQueue, condWaiters,
                   wpc, batch, mpc, lpc, pending, tableChanges>>

\* All do_lookup calls of the round have returned or been cancelled:
\* `async with condition:` to end the round.
WorkerAwaitRound(i) ==
    /\ wpc[i] = "lookup"
    /\ \A n \in batch[i] : lpc[n] = "done"
    /\ Acquire(WorkerTask(i))
    /\ wpc' = [wpc EXCEPT ![i] = "finish"]
    /\ UNCHANGED <<lookupVars, routingTable, condWaiters, batch, deadline, mpc,
                   lpc, pending, tableChanges>>

\* Mutation of WorkerFinishRound: the round's nodes stay in flight.
WorkerFinishRoundKeepInFlight(i) ==
    /\ wpc[i] = "finish"
    /\ Holds(WorkerTask(i))
    /\ NotifyAllAndRelease
    /\ wpc' = [wpc EXCEPT ![i] = "acquire"]
    /\ UNCHANGED <<lookupVars, routingTable, batch, deadline, mpc, lpc, pending,
                   tableChanges>>

\* in_flight.difference_update(node_ids); condition.notify_all().
WorkerFinishRound(i) ==
    /\ wpc[i] = "finish"
    /\ Holds(WorkerTask(i))
    /\ inFlight' = inFlight \ batch[i]
    /\ NotifyAllAndRelease
    /\ wpc' = [wpc EXCEPT ![i] = "acquire"]
    /\ UNCHANGED <<queried, received, unresponsive, unresponsiveCache, streamed,
                   requests, routingTable, batch, deadline, mpc, lpc, pending,
                   tableChanges>>

-----------------------------------------------------------------------------
(* do_lookup(node_id): one find_nodes request.                              *)

\* TooSlowError, MissingEndpointFields or ValidationError: the node is
\* unresponsive for this lookup and in the shared cache.
LookupFails(n) ==
    /\ lpc[n] = "request"
    /\ ~Expired(n)
    /\ unresponsive' = unresponsive \cup {n}
    /\ unresponsiveCache' = unresponsiveCache \cup {n}
    /\ lpc' = [lpc EXCEPT ![n] = "done"]
    /\ UNCHANGED <<queried, inFlight, received, streamed, requests, routingTable,
                   lockOwner, lockQueue, condWaiters, wpc, batch, deadline, mpc,
                   pending, tableChanges>>

\* The response arrives (the ENRs go to enr_db): `async with condition:`.
LookupResponds(n) ==
    /\ lpc[n] = "request"
    /\ ~Expired(n)
    /\ Acquire(LookupTask(n))
    /\ lpc' = [lpc EXCEPT ![n] = "locking"]
    /\ UNCHANGED <<lookupVars, routingTable, condWaiters, wpc, batch, deadline,
                   mpc, pending, tableChanges>>

\* Mutation of LookupRecord: every found ENR counts as new.
LookupRecordAllFound(n) ==
    /\ lpc[n] = "locking"
    /\ Holds(LookupTask(n))
    /\ LET new == FoundNodes[n] IN
       /\ received' = received \cup new
       /\ pending' = [pending EXCEPT ![n] = new]
       /\ lpc' = [lpc EXCEPT ![n] = IF new = {} THEN "done" ELSE "sending"]
    /\ Release
    /\ UNCHANGED <<queried, inFlight, unresponsive, unresponsiveCache, streamed,
                   requests, routingTable, wpc, batch, deadline, mpc,
                   tableChanges>>

\* Under the lock: the found ENRs not yet received are new; record them.
LookupRecord(n) ==
    /\ lpc[n] = "locking"
    /\ Holds(LookupTask(n))
    /\ LET new == FoundNodes[n] \ received IN
       /\ received' = received \cup new
       /\ pending' = [pending EXCEPT ![n] = new]
       /\ lpc' = [lpc EXCEPT ![n] = IF new = {} THEN "done" ELSE "sending"]
    /\ Release
    /\ UNCHANGED <<queried, inFlight, unresponsive, unresponsiveCache, streamed,
                   requests, routingTable, wpc, batch, deadline, mpc,
                   tableChanges>>

\* `await send_channel.send(enr)` for one of the new ENRs.
LookupSend(n) ==
    /\ lpc[n] = "sending"
    /\ ~Expired(n)
    /\ \E m \in pending[n] :
         /\ streamed' = [streamed EXCEPT ![m] = @ + 1]
         /\ pending' = [pending EXCEPT ![n] = @ \ {m}]
         /\ lpc' = [lpc EXCEPT ![n] = IF pending'[n] = {} THEN "done" ELSE "sending"]
    /\ UNCHANGED <<queried, inFlight, received, unresponsive, unresponsiveCache,
                   requests, routingTable, lockOwner, lockQueue, condWaiters,
                   wpc, batch, deadline, mpc, tableChanges>>

\* trio.Cancelled at the next checkpoint once the deadline expired: in the
\* request the node is marked unresponsive (not cached); parked on the lock
\* it leaves the queue; in a send the remaining new ENRs are never sent.  A
\* task already handed the lock runs LookupRecord first.
LookupCancelled(n) ==
    /\ Expired(n)
    /\ \/ /\ lpc[n] = "request"
          /\ unresponsive' = unresponsive \cup {n}
          /\ UNCHANGED <<lockOwner, lockQueue, pending>>
       \/ /\ lpc[n] = "locking" /\ ~Holds(LookupTask(n))
          /\ lockQueue' = SelectSeq(lockQueue, LAMBDA t : t # LookupTask(n))
          /\ UNCHANGED <<unresponsive, lockOwner, pending>>
       \/ /\ lpc[n] = "sending"
          /\ pending' = [pending EXCEPT ![n] = {}]
          /\ UNCHANGED <<unresponsive, lockOwner, lockQueue>>
    /\ lpc' = [lpc EXCEPT ![n] = "done"]
    /\ UNCHANGED <<queried, inFlight, received, unresponsiveCache, streamed,
                   requests, routingTable, condWaiters, wpc, batch, deadline,
                   mpc, tableChanges>>

-----------------------------------------------------------------------------
(* _monitor_done(): holds the lock except while waiting on the condition.   *)

MonitorAcquire ==
    /\ mpc = "acquire"
    /\ Acquire(MonitorTask)
    /\ mpc' = "check"
    /\ UNCHANGED <<lookupVars, routingTable, condWaiters, wpc, batch, deadline,
                   lpc, pending, tableChanges>>

\* Nothing left to query and nothing in flight: break, which closes the send
\* channel and ends the lookup; otherwise condition.wait().
MonitorCheck ==
    /\ mpc = "check"
    /\ Holds(MonitorTask)
    /\ \/ /\ Unqueried = {} /\ inFlight = {}
          /\ Release
          /\ mpc' = "exited"
       \/ /\ Unqueried # {} \/ inFlight # {}
          /\ Wait(MonitorTask)
          /\ UNCHANGED mpc
    /\ UNCHANGED <<lookupVars, routingTable, wpc, batch, deadline, lpc, pending,
                   tableChanges>>

Parked(t) == \E k \in DOMAIN condWaiters : condWaiters[k] = t

\* trio.move_on_after(60) expires while the monitor waits: Condition.wait
\* leaves the condition and re-acquires the lock; "Deadlock" is logged and
\* the loop checks again.  Every round ends in notify_all and a request
\* gives up within 10 s, so 60 s pass without a notify only when every
\* worker is parked on the condition too.
MonitorWatchdog ==
    /\ mpc = "check"
    /\ Parked(MonitorTask)
    /\ \A i \in Workers : Parked(WorkerTask(i))
    /\ condWaiters' = SelectSeq(condWaiters, LAMBDA t : t # MonitorTask)
    \* every other task is parked: the lock is free and the monitor takes it
    /\ lockOwner = NoTask
    /\ lockOwner' = MonitorTask
    /\ UNCHANGED lockQueue
    /\ UNCHANGED <<lookupVars, routingTable, wpc, batch, deadline, mpc, lpc,
                   pending, tableChanges>>

-----------------------------------------------------------------------------
(* The rest of the Network service updates (bond, ping handler) or removes  *)
(* (keep-alive) routing-table entries between any two checkpoints.          *)
ChangeRoutingTable ==
    /\ tableChanges < MaxTableChanges
    /\ \E n \in ChurnNodes :
         routingTable' = IF n \in routingTable THEN routingTable \ {n}
                         ELSE routingTable \cup {n}
    /\ tableChanges' = tableChanges + 1
    /\ UNCHANGED <<lookupVars, lockOwner, lockQueue, condWaiters, wpc, batch,
                   deadline, mpc, lpc, pending>>

\* The monitor closed the channel: the consumer's iteration ends and the
\* nursery is cancelled.
LookupDone == mpc = "exited"

WorkerStep(i) ==
    \/ WorkerAcquire(i) \/ WorkerSelect(i) \/ WorkerResume(i)
    \/ WorkerAwaitRound(i) \/ WorkerFinishRound(i)

LookupStep(n) ==
    \/ LookupFails(n) \/ LookupResponds(n) \/ LookupRecord(n)
    \/ LookupSend(n) \/ LookupCancelled(n)

MonitorStep == MonitorAcquire \/ MonitorCheck \/ MonitorWatchdog

Next ==
    \/ /\ ~LookupDone
       /\ \/ \E i \in Workers : WorkerStep(i) \/ AdaptiveTimeout(i)
          \/ \E n \in NodeIds : LookupStep(n)
          \/ MonitorStep
          \/ ChangeRoutingTable
    \/ LookupDone /\ UNCHANGED vars

\* Every task runs when it can (the trio scheduler runs every runnable task)
\* and every request ends (the request timeout); the adaptive deadline and
\* the routing-table changes need not happen.
Fairness ==
    /\ \A i \in Workers : WF_vars(WorkerStep(i))
    /\ \A n \in NodeIds : WF_vars(LookupStep(n))
    /\ WF_vars(MonitorStep)

Spec == Init /\ [][Next]_vars /\ Fairness
-----------------------------------------------------------------------------
(* Properties.                                                              *)

TypeOK ==
    /\ queried \subseteq NodeIds /\ inFlight \subseteq NodeIds
    /\ received \subseteq NodeIds /\ unresponsive \subseteq NodeIds
    /\ unresponsiveCache \subseteq NodeIds /\ routingTable \subseteq NodeIds
    /\ streamed \in [NodeIds -> Nat] /\ requests \in [NodeIds -> Nat]
    /\ lockOwner \in Tasks \cup {NoTask}
    /\ lockQueue \in Seq(Tasks) /\ condWaiters \in Seq(Tasks)
    \* a task is parked at most once, and never on the lock it owns
    /\ \A k, l \in DOMAIN lockQueue : k # l => lockQueue[k] # lockQueue[l]
    /\ \A k \in DOMAIN lockQueue : lockQueue[k] # lockOwner
    /\ wpc \in [Workers -> {"acquire", "select", "woken", "lookup", "finish"}]
    /\ batch \in [Workers -> SUBSET NodeIds]
    /\ deadline \in [Workers -> BOOLEAN]
    /\ mpc \in {"acquire", "check", "exited"}
    /\ lpc \in [NodeIds -> {"idle", "request", "locking", "sending", "done"}]
    /\ pending \in [NodeIds -> SUBSET NodeIds]
    /\ tableChanges \in 0..MaxTableChanges

\* Concurrent workers pick their batches from one shared candidate list:
\* no node is ever sent more than one find_nodes request in one lookup, and
\* the local node none.
NoDoubleQuery ==
    /\ \A n \in NodeIds : requests[n] <= 1
    /\ requests[LocalNodeId] = 0

\* ENRs reach the result channel on two paths, a worker sending the ones it
\* took from the routing table and do_lookup sending the ones a peer
\* returned: no node's ENR is sent twice.
NoDuplicateStream == \A n \in NodeIds : streamed[n] <= 1

\* Every node recorded in received_node_ids has had its ENR sent on the
\* result channel, or its do_lookup is still about to send it (spec 4.I
\* step 7: add new node ids to received and stream the new ENRs).
ReceivedAreStreamed ==
    \A n \in received :
        streamed[n] > 0 \/ \E m \in NodeIds : n \in pending[m]

\* The lookup ends: the monitor closes the result channel.
LookupTerminates == <>LookupDone
====
