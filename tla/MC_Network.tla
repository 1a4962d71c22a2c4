------------------------------ MODULE MC_Network ------------------------------
(***************************************************************************)
(* A 2-bit id space: we are node 0; node 1 is alone at log distance 1, and *)
(* nodes 2 and 3 compete for the one slot of bucket 2 and its replacement  *)
(* cache.                                                                   *)
(***************************************************************************)
EXTENDS Network

\* A remote node asking for our own ENR: requests keep arriving.
MCOwnEnrRequest == {<<0>>}

\* A valid request for our own ENR and bucket 2, and one with a duplicate
\* distance (the other early returns of _serve_find_nodes take the same
\* branch).
MCDistanceRequests == {<<0, 2>>, <<2, 2>>}
====
