---------------------------- MODULE LastPongCache ----------------------------
(***************************************************************************)
(* The keep-alive pacing of ddht.v5_1.network.Network                      *)
(* (src/ddht/v5_1/network.py 341, 608-645): _last_pong_at is an LRU(2048)  *)
(* from node id to the trio time of its last PONG, written by              *)
(* _track_last_pong for every PONG we receive and read by                  *)
(* _ping_oldest_routing_table_entry, which pings the routing-table entry   *)
(* with the smallest `_last_pong_at.get(node_id, 0)` unless that pong is   *)
(* younger than ROUTING_TABLE_KEEP_ALIVE, and then sleeps until it is not. *)
(*                                                                         *)
(* The LRU (lru-dict, not in src/) keeps its keys least recently used      *)
(* first; `get`, `[]` and assignment make a key most recently used, and    *)
(* assigning a new key to a full LRU evicts the least recently used one.   *)
(*                                                                         *)
(* Time is counted in ticks; the age of a pong is capped at KeepAlive,     *)
(* which stands for "at least ROUTING_TABLE_KEEP_ALIVE old", and the order *)
(* of the pong times is kept apart from the ages. The routing table is     *)
(* fixed and every entry answers: this module is about which entry is      *)
(* pinged when, the Network module about what bonding does to the table.  *)
(***************************************************************************)
EXTENDS Naturals, FiniteSets, SequencesExt

CONSTANTS
    TableIds,   \* node ids in the routing table
    OtherIds,   \* node ids outside it whose PONGs we receive (other bonds)
    Capacity,   \* LRU(2048)
    KeepAlive   \* ROUTING_TABLE_KEEP_ALIVE, in ticks

ASSUME /\ TableIds # {} /\ TableIds \cap OtherIds = {}
       /\ Capacity \in Nat \ {0} /\ KeepAlive \in Nat \ {0}

Ids == TableIds \cup OtherIds

VARIABLES
    lru,        \* keys of _last_pong_at, least recently used first
    age,        \* age[n]: ticks since the last PONG of n was tracked (capped)
    pongSeq,    \* node ids by the time of their last tracked PONG, oldest first
    untracked,  \* PONGs in the subscription channel, not yet tracked
    kaPc,       \* "pick", "sleep" or "ping": where the keep-alive loop is
    kaNode,     \* the entry it pings
    sleepLeft   \* ticks left of its trio.sleep

vars == <<lru, age, pongSeq, untracked, kaPc, kaNode, sleepLeft>>

\* Mutant: max() instead of min(), the most recently ponged entry first.
PongKeyReversed(n) ==
    IF Contains(lru, n)
    THEN Len(pongSeq) + 1 - SelectInSeq(pongSeq, LAMBDA m : m = n)
    ELSE Len(pongSeq) + 1

\* The sort key of min(): `_last_pong_at.get(node_id, 0)`, as the rank of
\* the cached time among all pong times; an absent key is 0, below all.
PongKey(n) ==
    IF Contains(lru, n) THEN SelectInSeq(pongSeq, LAMBDA m : m = n) ELSE 0

\* Mutant: the deadline taken one tick short, too_old_at = now - KEEP_ALIVE + 1.
IsRecentOffByOne(n) == Contains(lru, n) /\ age[n] < KeepAlive - 1

\* `last_pong_at > too_old_at`, with too_old_at = now - KEEP_ALIVE; the
\* KeyError branch (no cached pong) falls through to bond.
IsRecent(n) == Contains(lru, n) /\ age[n] < KeepAlive

Init ==
    /\ lru = <<>>
    /\ age = [n \in Ids |-> KeepAlive]
    /\ pongSeq = <<>>
    /\ untracked = {}
    /\ kaPc = "pick"
    /\ kaNode = CHOOSE n \in TableIds : TRUE
    /\ sleepLeft = 0

\* One loop iteration up to its await: iter_all_random() yields the entries
\* in some order, min() calls `get` on each (touching the cached ones in
\* that order) and returns the first with the smallest key, and
\* `_last_pong_at[least]` touches it once more. A recent pong means
\* trio.sleep(last_pong_at - too_old_at), otherwise await bond(least).
KeepAlivePick ==
    /\ kaPc = "pick"
    /\ \E order \in SetToSeqs(TableIds) :
          LET keys    == {PongKey(m) : m \in TableIds}
              n       == order[SelectInSeq(order, LAMBDA m :
                                  \A k \in keys : PongKey(m) <= k)]
              scanned == SelectSeq(lru, LAMBDA m : m \notin TableIds)
                            \o SelectSeq(order, LAMBDA m : Contains(lru, m))
          IN  /\ lru' = IF Contains(lru, n) THEN Append(Remove(scanned, n), n)
                        ELSE scanned
              /\ IF IsRecent(n)
                 THEN /\ kaPc' = "sleep"
                      /\ sleepLeft' = KeepAlive - age[n]
                      /\ UNCHANGED kaNode
                 ELSE /\ kaPc' = "ping"
                      /\ kaNode' = n
                      /\ UNCHANGED sleepLeft
    /\ UNCHANGED <<age, pongSeq, untracked>>

\* The sleep ends: `continue`.
KeepAliveWake ==
    /\ kaPc = "sleep"
    /\ sleepLeft = 0
    /\ kaPc' = "pick"
    /\ UNCHANGED <<lru, age, pongSeq, untracked, kaNode, sleepLeft>>

\* bond(least) returns: its PONG is also delivered to the PongMessage
\* subscription of _track_last_pong.
KeepAlivePonged ==
    /\ kaPc = "ping"
    /\ kaPc' = "pick"
    /\ untracked' = untracked \cup {kaNode}
    /\ UNCHANGED <<lru, age, pongSeq, kaNode, sleepLeft>>

\* Another task (a refresh or ping-handler bond, a lookup's ping) pings a
\* node outside the routing table and receives its PONG.
OtherPonged(n) ==
    /\ n \notin untracked
    /\ untracked' = untracked \cup {n}
    /\ UNCHANGED <<lru, age, pongSeq, kaPc, kaNode, sleepLeft>>

\* _last_pong_at[sender] = trio.current_time(): the key becomes most
\* recently used; a new key in a full LRU evicts the least recently used.
TrackLastPong(n) ==
    /\ n \in untracked
    /\ untracked' = untracked \ {n}
    /\ age' = [age EXCEPT ![n] = 0]
    /\ pongSeq' = Append(Remove(pongSeq, n), n)
    /\ lru' = IF Contains(lru, n) THEN Append(Remove(lru, n), n)
              ELSE IF Len(lru) = Capacity THEN Append(Tail(lru), n)
              ELSE Append(lru, n)
    /\ UNCHANGED <<kaPc, kaNode, sleepLeft>>

\* One tick of trio's clock.
Tick ==
    /\ \/ \E n \in Ids : age[n] < KeepAlive
       \/ sleepLeft > 0
    /\ age' = [n \in Ids |-> IF age[n] < KeepAlive THEN age[n] + 1 ELSE age[n]]
    /\ sleepLeft' = IF sleepLeft > 0 THEN sleepLeft - 1 ELSE 0
    /\ UNCHANGED <<lru, pongSeq, untracked, kaPc, kaNode>>

Next ==
    \/ KeepAlivePick \/ KeepAliveWake \/ KeepAlivePonged
    \/ \E n \in OtherIds : OtherPonged(n)
    \/ \E n \in Ids : TrackLastPong(n)
    \/ Tick

\* trio runs each runnable task, the subscription drains its channel, and
\* the clock advances; no fairness for pings of other tasks.
Spec == Init /\ [][Next]_vars
        /\ WF_vars(KeepAlivePick) /\ WF_vars(KeepAliveWake)
        /\ WF_vars(KeepAlivePonged) /\ WF_vars(Tick)
        /\ \A n \in Ids : WF_vars(TrackLastPong(n))

TypeOK ==
    /\ ToSet(lru) \subseteq Ids /\ Len(lru) <= Capacity
    /\ age \in [Ids -> 0..KeepAlive]
    /\ ToSet(pongSeq) \subseteq Ids /\ Len(pongSeq) <= Cardinality(Ids)
    /\ untracked \subseteq Ids
    /\ kaPc \in {"pick", "sleep", "ping"} /\ kaNode \in TableIds
    /\ sleepLeft \in 0..KeepAlive

\* The keep-alive loop never pings a routing-table entry whose last PONG,
\* as _track_last_pong recorded it, is younger than ROUTING_TABLE_KEEP_ALIVE:
\* the sleep in _ping_oldest_routing_table_entry paces the pings, whatever
\* the LRU has done to the cached times in between.
PingSpacing ==
    [][kaPc = "pick" /\ kaPc' = "ping" => age[kaNode'] = KeepAlive]_vars

\* Every routing-table entry is pinged again and again: the pick by oldest
\* pong visits them all, so none (a dead one included) escapes the check.
EveryEntryChecked ==
    \A n \in TableIds : []<>(kaPc = "ping" /\ kaNode = n)
====
