------------------------------- MODULE LocalEnr -------------------------------
(***************************************************************************)
(* The local node record over restarts (src/ddht/app.py 43-109):           *)
(* get_local_private_key reads boot_info.private_key or the nodekey file,  *)
(* generating it once; get_local_enr builds the minimal record             *)
(* {id, secp256k1, udp} and either reuses the stored one, or signs         *)
(* sequence_number + 1 over the stored pairs merged with the new ones;     *)
(* Application.run stores it in the node DB before any service starts.    *)
(* While running, the endpoint tracker (ddht.v5.endpoint_tracker, not in   *)
(* src/) re-signs the record with the external ip the peers report.        *)
(*                                                                         *)
(* A record is [seq, udp, ip]; id and secp256k1 follow from the key, which *)
(* is also the node id the node DB is keyed by.                            *)
(***************************************************************************)
EXTENDS Naturals, FiniteSetsExt

CONSTANTS
    Keys,     \* private keys (model values)
    Ports,    \* boot_info.port values across restarts
    Ips,      \* external ips the endpoint tracker may adopt
    MaxSeq,   \* bound on sequence numbers
    Bootnodes, \* boot_info.bootnodes: records [key, rec] of distinct node ids
    NoKey, NoIp, NoRecord

VARIABLES
    keyFile,    \* contents of <base_dir>/nodekey, or NoKey
    nodeDb,     \* nodeDb[k]: the record stored for node id k, or NoRecord
    running,    \* the application is running
    localKey,   \* key of the running node
    port,       \* boot_info.port of the running node
    published,  \* every record of ours peers may have seen: [key, rec]
    table       \* node ids in the running node's routing table

vars == <<keyFile, nodeDb, running, localKey, port, published, table>>

\* The node DB holds our records and the bootnodes'.
NodeIds == Keys \cup {b.key : b \in Bootnodes}

Records == [seq : 1..MaxSeq, udp : Ports, ip : Ips \cup {NoIp}]

\* UnsignedENR(sequence_number=1, {id, secp256k1, udp: port}).
MinimalEnr(p) == [seq |-> 1, udp |-> p, ip |-> NoIp]

\* Mutant: only the presence of each minimal key is compared.
GetLocalEnrKeysOnly(k, p) ==
    IF nodeDb[k] = NoRecord THEN MinimalEnr(p) ELSE nodeDb[k]

\* Mutant: the merged record is signed with the stored sequence number.
GetLocalEnrNoBump(k, p) ==
    LET base == nodeDb[k]
    IN  IF base = NoRecord THEN MinimalEnr(p)
        ELSE IF base.udp = p THEN base
        ELSE [base EXCEPT !.udp = p]

\* get_local_enr: a stored record that already holds every pair of the
\* minimal one is reused; otherwise sequence_number + 1 over
\* merge(base, minimal), the minimal pairs winning.
GetLocalEnr(k, p) ==
    LET base == nodeDb[k]
    IN  IF base = NoRecord THEN MinimalEnr(p)
        ELSE IF base.udp = p THEN base
        ELSE [base EXCEPT !.seq = @ + 1, !.udp = p]

\* get_local_private_key with boot_info.private_key = given: a given key
\* wins; otherwise the nodekey file, generated if missing.
LocalPrivateKeys(given) ==
    IF given # NoKey THEN {given}
    ELSE IF keyFile # NoKey THEN {keyFile}
    ELSE Keys

\* node_db.set_enr: the database rejects an older sequence number.
SetEnr(db, k, r) ==
    [db EXCEPT ![k] = IF @ = NoRecord \/ r.seq >= @.seq THEN r ELSE @]

\* `node_db.set_enr(enr)` for the bootnode records bs, OldSequenceNumber
\* ignored; the node ids are distinct, so the order does not matter.
SeedBootnodes(db, bs) == FoldSet(LAMBDA b, acc : SetEnr(acc, b.key, b.rec), db, bs)

\* `routing_table.update(enr.node_id)` for every bootnode: the table of the
\* new run holds them all.
SeededTable == {b.key : b \in Bootnodes}

\* The bootnode records carrying our own node id k. The routing table's
\* update (ddht.kademlia, not under src/) is defined for ids other than
\* the local one (spec 4.C): log_distance of two equal ids is not computed
\* (compute_log_distance rejects them, which is why do_lookup special-cases
\* them, network.py 148-151), so update(local id) raises ValueError.
OwnBootnodes(k) == {b \in Bootnodes : b.key = k}

Init ==
    /\ keyFile = NoKey
    /\ nodeDb = [k \in NodeIds |-> NoRecord]
    /\ running = FALSE
    /\ localKey = NoKey
    /\ port \in Ports
    /\ published = {}
    /\ table = {}

\* Mutant: the local record is not stored before the services start.
StartNoStore(given, p) ==
    /\ ~running
    /\ \E k \in LocalPrivateKeys(given) :
          LET enr == GetLocalEnr(k, p)
          IN  /\ enr.seq <= MaxSeq
              /\ keyFile' = IF given = NoKey THEN k ELSE keyFile
              /\ nodeDb' = SeedBootnodes(nodeDb, Bootnodes)
              /\ localKey' = k
              /\ published' = published \cup {[key |-> k, rec |-> enr]}
    /\ running' = TRUE
    /\ port' = p
    /\ table' = SeededTable

\* Application.run up to `await socket.bind`: no checkpoint, so the key
\* file, the local record, its storage and the seeding of the node DB and
\* the routing table with the bootnodes happen in one step. The record is
\* published once the services run. When the list holds our own ENR, the
\* update of our id raises out of run: the bootnodes stored before it (in
\* list order, some subset of the others) and our own record from the list
\* stay in the node DB, and no service starts.
Start(given, p) ==
    /\ ~running
    /\ \E k \in LocalPrivateKeys(given) :
          LET enr == GetLocalEnr(k, p)
              db == SetEnr(nodeDb, k, enr)
          IN  /\ enr.seq <= MaxSeq
              /\ keyFile' = IF given = NoKey THEN k ELSE keyFile
              /\ IF OwnBootnodes(k) = {}
                 THEN /\ nodeDb' = SeedBootnodes(db, Bootnodes)
                      /\ localKey' = k
                      /\ published' = published \cup {[key |-> k, rec |-> enr]}
                      /\ running' = TRUE
                      /\ port' = p
                      /\ table' = SeededTable
                 ELSE /\ \E before \in SUBSET (Bootnodes \ OwnBootnodes(k)) :
                           nodeDb' = SeedBootnodes(db, before \cup OwnBootnodes(k))
                      /\ UNCHANGED <<running, localKey, port, published, table>>

\* EndpointTracker: a majority of peers report ip; the record is re-signed
\* with sequence_number + 1 and stored.
EndpointVote(ip) ==
    /\ running
    /\ nodeDb[localKey].ip # ip
    /\ nodeDb[localKey].seq < MaxSeq
    /\ LET enr == [nodeDb[localKey] EXCEPT !.seq = @ + 1, !.ip = ip]
       IN  /\ nodeDb' = SetEnr(nodeDb, localKey, enr)
           /\ published' = published \cup {[key |-> localKey, rec |-> enr]}
    /\ UNCHANGED <<keyFile, running, localKey, port, table>>

\* The process stops or is killed; the key file and the node DB persist.
Stop ==
    /\ running
    /\ running' = FALSE
    /\ table' = {}
    /\ UNCHANGED <<keyFile, nodeDb, localKey, port, published>>

Next ==
    \/ \E given \in Keys \cup {NoKey}, p \in Ports : Start(given, p)
    \/ \E ip \in Ips : EndpointVote(ip)
    \/ Stop

Spec == Init /\ [][Next]_vars

TypeOK ==
    /\ keyFile \in Keys \cup {NoKey}
    /\ nodeDb \in [NodeIds -> Records \cup {NoRecord}]
    /\ table \subseteq NodeIds
    /\ running \in BOOLEAN
    /\ localKey \in Keys \cup {NoKey}
    /\ published \subseteq [key : Keys, rec : Records]
    /\ running => nodeDb[localKey] # NoRecord

\* Peers keep the record with the highest sequence number and ignore one
\* whose number they already have: across restarts with other ports and
\* endpoint votes, no two different records of one node id ever carry the
\* same sequence number, and the stored record is the newest published.
NoSequenceReuse ==
    /\ \A a, b \in published :
          a.key = b.key /\ a.rec.seq = b.rec.seq => a.rec = b.rec
    /\ \A a \in published : nodeDb[a.key] # NoRecord /\ a.rec.seq <= nodeDb[a.key].seq

\* The running node advertises the udp port it was started with.
AdvertisesOwnPort ==
    running => nodeDb[localKey].udp = port
\* Spec 4.I and 7: the node consumes boot_info.bootnodes and bonds with
\* each, and only initialization-time errors are fatal; v5.1's
\* _manage_routing_table skips a bootnode whose node id is ours. A deployment
\* gives every node one bootnode list, the bootnodes' own ENRs included:
\* every start of Application.run, with any such list, reaches its services.
StartRuns == [][~running => running']_vars
====
