---------------------------- MODULE MC_OwnBootnode ----------------------------
(***************************************************************************)
(* A node whose bootnode list holds its own ENR, as the one list shared by *)
(* every node of a deployment does for each bootnode: the record the node  *)
(* signs at its first start on its one port.                               *)
(***************************************************************************)
EXTENDS LocalEnr

MCOwnBootnodes == {[key |-> k, rec |-> MinimalEnr(p)] : k \in Keys, p \in Ports}
====
