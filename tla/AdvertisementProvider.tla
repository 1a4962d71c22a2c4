------------------------- MODULE AdvertisementProvider -------------------------
(***************************************************************************)
(* ddht.v5_1.alexandria.advertisement_provider.AdvertisementProvider:      *)
(* run() spawns serve_request for every LOCATE request; serve_request      *)
(* holds one of `concurrency` permits of a trio.Semaphore while it sends   *)
(* LOCATIONS, all under move_on_after(10), which may cancel it while it    *)
(* waits for a permit or while it sends.                                   *)
(*                                                                         *)
(* trio.Semaphore (not in src/): acquire takes a permit if one is free and *)
(* otherwise parks the task in a FIFO parking lot; release hands the       *)
(* permit to the first parked task if there is one, else returns it.       *)
(***************************************************************************)
EXTENDS Naturals, FiniteSets, SequencesExt

CONSTANTS
    Requests,     \* LOCATE requests that may arrive, each once
    Concurrency   \* the `concurrency` argument (3 by default)

ASSUME Concurrency \in Nat \ {0}

VARIABLES
    pc,      \* pc[r]: where the serve_request task of r is
    value,   \* the semaphore's free permits
    lot      \* its parking lot: tasks waiting for a permit, first first

vars == <<pc, value, lot>>

Holders == {r \in Requests : pc[r] = "sending"}

\* AdvertisementProvider.__init__: trio.Semaphore(concurrency).
Init ==
    /\ pc = [r \in Requests |-> "absent"]
    /\ value = Concurrency
    /\ lot = <<>>

\* run(): a request from the LOCATE subscription, nursery.start_soon.
Arrive(r) ==
    /\ pc[r] = "absent"
    /\ pc' = [pc EXCEPT ![r] = "spawned"]
    /\ UNCHANGED <<value, lot>>

\* serve_request enters move_on_after(10) and `async with` the semaphore:
\* acquire_nowait, or park.
Acquire(r) ==
    /\ pc[r] = "spawned"
    /\ IF value > 0
       THEN /\ value' = value - 1
            /\ pc' = [pc EXCEPT ![r] = "sending"]
            /\ UNCHANGED lot
       ELSE /\ lot' = Append(lot, r)
            /\ pc' = [pc EXCEPT ![r] = "waiting"]
            /\ UNCHANGED value

ReleaseAnd(r, to) ==
    IF lot # <<>>
    THEN /\ lot' = Tail(lot)
         /\ pc' = [pc EXCEPT ![r] = to, ![Head(lot)] = "sending"]
         /\ UNCHANGED value
    ELSE /\ value' = value + 1
         /\ pc' = [pc EXCEPT ![r] = to]
         /\ UNCHANGED lot

\* await send_locations(...) returns; leaving `async with` releases.
SendLocations(r) ==
    /\ pc[r] = "sending"
    /\ ReleaseAnd(r, "served")

Timeout(r) ==
    /\ pc[r] \in {"waiting", "sending"}
    /\ IF pc[r] = "waiting"
       THEN /\ lot' = Remove(lot, r)
            /\ pc' = [pc EXCEPT ![r] = "timedout"]
            /\ UNCHANGED value
       ELSE ReleaseAnd(r, "timedout")

Finished == \A r \in Requests : pc[r] \in {"served", "timedout"}

Next ==
    \/ \E r \in Requests : Arrive(r) \/ Acquire(r) \/ SendLocations(r) \/ Timeout(r)
    \/ Finished /\ UNCHANGED vars

\* trio runs every runnable task and the 10 s deadline expires. Nothing
\* makes a request arrive, and send_locations, which waits for the
\* node's outbound pipeline, may never return on its own.
Spec == Init /\ [][Next]_vars
        /\ \A r \in Requests : WF_vars(Acquire(r)) /\ WF_vars(Timeout(r))

TypeOK ==
    /\ pc \in [Requests -> {"absent", "spawned", "waiting", "sending",
                            "served", "timedout"}]
    /\ value \in 0..Concurrency
    /\ ToSet(lot) \subseteq Requests /\ Len(lot) = Cardinality(ToSet(lot))

====
