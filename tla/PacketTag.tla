------------------------------- MODULE PacketTag -------------------------------
(***************************************************************************)
(* The tag of a v5 message packet (src/ddht/v5/tags.py): compute_tag XORs  *)
(* sha256(destination_node_id) with the source node id, and the recipient  *)
(* recovers the source by XORing the tag with the hash of its own id.      *)
(*                                                                         *)
(* Node ids and digests are IdBits-bit words (32 bytes in the code; sxor   *)
(* of two equal-length byte strings is the XOR of the words). sha256 is    *)
(* the constant function Sha256, any function from ids to words.           *)
(***************************************************************************)
EXTENDS Naturals, Bitwise

CONSTANTS
    IdBits,   \* bits of a node id and of a digest
    Sha256    \* Sha256[id]: the digest of an id

Words == 0..(2^IdBits - 1)

ASSUME Sha256 \in [Words -> Words]

VARIABLES
    source,       \* the sending node's id
    destination   \* the receiving node's id

vars == <<source, destination>>

\* Mutant: the digest of the source XORed with the destination.
ComputeTagSwapped(s, d) == Sha256[s] ^^ d

\* compute_tag(source_node_id, destination_node_id)
ComputeTag(s, d) == Sha256[d] ^^ s

\* recover_source_id_from_tag(tag, destination_node_id)
RecoverSourceIdFromTag(tag, d) == tag ^^ Sha256[d]

\* Every pair of ids a packet may travel between.
Init == source \in Words /\ destination \in Words

Next == UNCHANGED vars

Spec == Init /\ [][Next]_vars

TypeOK == source \in Words /\ destination \in Words /\ ComputeTag(source, destination) \in Words

\* Spec 6 (tag round-trip): the recipient recovers the sender's id from the
\* tag of every packet addressed to it, for every pair of ids and whatever
\* the digest of the destination is.
TagRoundTrip ==
    RecoverSourceIdFromTag(ComputeTag(source, destination), destination) = source
====
