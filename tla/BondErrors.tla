------------------------------ MODULE BondErrors ------------------------------
(***************************************************************************)
(* The exceptions of the v5.1 Network's request helpers (ping, find_nodes, *)
(* _fetch_enr, lookup_enr, bond) and how far each travels up the daemon    *)
(* tasks that call them. A request is modelled by its outcome only: a pong *)
(* or a timeout for PING, a timeout or the set of log distances (from the  *)
(* peer) of the ENRs in the answer for FINDNODE. An exception that leaves  *)
(* a task started in a daemon task's nursery ends that daemon task, and    *)
(* with it the Network service (async_service's run_daemon_task).          *)
(* Each state is one call: the caller and the remote outcomes are chosen   *)
(* in the initial state, and a call's result is a function of them.       *)
(***************************************************************************)
EXTENDS FiniteSets

CONSTANTS Distances  \* log distances the ENRs of a FINDNODE answer can be at

VARIABLES
    caller,   \* the code path making the call
    hasIp,    \* the stored ENR of the peer has an ip and udp port
    pong,     \* the PING is answered
    recent,   \* the stored ENR's sequence number is >= the one asked for
    answer    \* the FINDNODE answer: a timeout, or the distances of its ENRs

vars == <<caller, hasIp, pong, recent, answer>>

None == "none"

\* The code paths that call bond, lookup_enr or find_nodes, each in a task
\* of its own.
Callers == {"bootstrap", "refresh", "keepalive", "pingHandler", "lookup"}

Answers == {[timeout |-> TRUE, enrs |-> {}]}
           \cup [timeout : {FALSE}, enrs : SUBSET Distances]

\* A call either raises an exception or returns a value.
Raise(e) == [raised |-> e, value |-> FALSE]
Return(v) == [raised |-> None, value |-> v]

\* A raised exception of a class in `caught` becomes the except clause's
\* `return False`; any other passes through.
Catching(r, caught) == IF r.raised \in caught THEN Return(FALSE) ELSE r

\* endpoint_for_node_id, then Endpoint.from_enr: a caller that passes an
\* endpoint skips it; a stored ENR without ip or port raises.
EndpointFor(given) ==
    IF given \/ hasIp THEN Return(TRUE) ELSE Raise("MissingEndpointFields")

\* Network.ping: the endpoint, then the request (client.ping raises
\* trio.TooSlowError when no PONG arrives in time).
Ping(given) ==
    LET e == EndpointFor(given)
    IN  CASE e.raised # None -> e
          [] ~pong           -> Raise("TooSlowError")
          [] OTHER           -> Return(TRUE)

\* validate_found_nodes_distances (ddht.validation): every ENR of the
\* answer is at one of the requested distances from the peer.
ValidFoundNodesDistances(enrs, distances) == enrs \subseteq distances

\* Network.find_nodes: the endpoint, the request, then the validation of
\* every response, which raises ValidationError.
FindNodes(given, distances) ==
    LET e == EndpointFor(given)
    IN  CASE e.raised # None     -> e
          [] answer.timeout        -> Raise("TooSlowError")
          [] ~ValidFoundNodesDistances(answer.enrs, distances)
                                   -> Raise("ValidationError")
          [] OTHER                 -> Return(answer.enrs)

\* Network._fetch_enr: FINDNODE at distance 0; no ENR raises
\* EmptyFindNodesResponse, else the highest-sequence one is returned.
FetchEnr(given) ==
    LET r == FindNodes(given, {0})
    IN  CASE r.raised # None -> r
          [] r.value = {}    -> Raise("EmptyFindNodesResponse")
          [] OTHER           -> Return(TRUE)

\* Network.lookup_enr with the peer's ENR stored or an endpoint given: a
\* stored ENR that is recent enough is returned, else it is fetched (and
\* stored).
LookupEnr(given) == IF recent THEN Return(TRUE) ELSE FetchEnr(given)

\* A bond whose PING catches timeouts only.
BondCatchingTimeoutOnly(given) ==
    LET p == Ping(given)
        l == LookupEnr(given)
    IN  IF p.raised # None
        THEN Catching(p, {"TooSlowError"})
        ELSE Catching(l, {"TooSlowError", "EmptyFindNodesResponse"})

\* Network.bond: PING, then lookup_enr; each step catches only the
\* exceptions its except clauses name, and a bond returns True only after
\* both steps succeed.
Bond(given) ==
    LET p == Ping(given)
        l == LookupEnr(given)
    IN  IF p.raised # None
        THEN Catching(p, {"TooSlowError", "MissingEndpointFields"})
        ELSE Catching(l, {"TooSlowError", "EmptyFindNodesResponse"})

\* The result of the call in the task it runs in:
\*  - _manage_routing_table's bootstrap _bond(node_id, Endpoint.from_enr(enr))
\*    and its refresh _bond(node_id), both without an except clause;
\*  - _ping_oldest_routing_table_entry's bond(node_id), likewise;
\*  - _pong_when_pinged's _maybe_add_to_routing_table, a lookup_enr with
\*    the sender's endpoint catching TooSlowError and EmptyFindNodesResponse;
\*  - the recursive lookup's do_lookup, a find_nodes at the peer's distance
\*    to the target (1 here) catching TooSlowError, MissingEndpointFields
\*    and ValidationError.
CallResult ==
    CASE caller = "bootstrap" -> Bond(TRUE)
      [] caller = "refresh"   -> Bond(FALSE)
      [] caller = "keepalive" -> Bond(FALSE)
      [] caller = "pingHandler" ->
            Catching(LookupEnr(TRUE), {"TooSlowError", "EmptyFindNodesResponse"})
      [] caller = "lookup" ->
            Catching(FindNodes(FALSE, {1}),
                     {"TooSlowError", "MissingEndpointFields", "ValidationError"})

\* The distances the caller's FINDNODE asks for.
Requested == IF caller = "lookup" THEN {1} ELSE {0}

Init ==
    /\ caller \in Callers
    /\ hasIp \in BOOLEAN
    /\ pong \in BOOLEAN
    /\ recent \in BOOLEAN
    /\ answer \in Answers

Next == UNCHANGED vars

Spec == Init /\ [][Next]_vars

TypeOK ==
    /\ caller \in Callers /\ hasIp \in BOOLEAN /\ pong \in BOOLEAN
    /\ recent \in BOOLEAN /\ answer \in Answers

\* Spec section 7: "only initialization-time errors are fatal; steady-state
\* errors never terminate the node", and a FINDNODE answer that violates
\* its distances is "treat[ed] as unresponsive". So no remote answer makes
\* bond, lookup_enr or find_nodes raise out of a daemon task's nursery.
NeverFatal == CallResult.raised = None

\* A timeout, a missing endpoint or an empty answer to any of the calls is
\* absorbed by its caller's except clauses: as long as every ENR a peer
\* returns is at a distance it was asked for, no call raises out of its
\* task.
TransientErrorsAbsorbed ==
    ValidFoundNodesDistances(answer.enrs, Requested)
        => CallResult.raised = None
====
