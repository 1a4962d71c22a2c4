----------------------- MODULE MC_RecursiveFindNodes -----------------------
(***************************************************************************)
(* A 3-bit id space.  The local node is 0 and the target 5; ordered by XOR *)
(* distance to the target the nodes are 5, 4, 7, 6, 1, 0, 3, 2.  The local *)
(* routing table holds 1 and 2, whose buckets towards the target overlap   *)
(* (both return 6), so that ENRs reach the lookup on several paths and     *)
(* concurrent rounds race for the same candidates.                          *)
(***************************************************************************)
EXTENDS RecursiveFindNodes

MCNodeIds == 0..7

MCPeerTable ==
    [n \in MCNodeIds |->
        CASE n = 1 -> {0, 4, 6}
          [] n = 2 -> {0, 6, 7}
          [] n = 4 -> {0, 5, 6}
          [] n = 6 -> {2, 4}
          [] n = 7 -> {1, 5}
          [] OTHER -> {}]

\* A smaller network for the liveness runs: 1 knows 4 and 6, 2 knows 6,
\* 4 knows the target.
MCPeerTableSmall ==
    [n \in MCNodeIds |->
        CASE n = 1 -> {4, 6}
          [] n = 2 -> {6}
          [] n = 4 -> {5}
          [] OTHER -> {}]
====
