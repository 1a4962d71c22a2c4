-------------------------- MODULE AlexandriaMessages --------------------------
(***************************************************************************)
(* The Alexandria message codec (src/ddht/v5_1/alexandria/messages.py):   *)
(* ten message classes registered by message_id, to_wire_bytes (the id    *)
(* byte, then the ssz encoding of get_payload_for_encoding()) and         *)
(* decode_message (registry lookup on the first byte, ssz.decode with the *)
(* class's sedes, then from_payload_args).                                 *)
(*                                                                         *)
(* ssz (not in src/) is modelled by what the codec relies on: encode gives *)
(* one opaque chunk that decodes only under the same sedes, and decode     *)
(* returns every ssz List as py-ssz's own list type, SszList(s), which is  *)
(* not equal to the tuple s. Payload fields are small sample values; an    *)
(* Advertisement is a record whose sedes payload is a one-field tuple.     *)
(***************************************************************************)
EXTENDS Naturals, Sequences

VARIABLES
    msgId, msgIx,  \* the message some task sends: a class and a sample payload
    data           \* the shape of a TALK payload some peer sends us

vars == <<msgId, msgIx, data>>

\* A Python tuple, and the list type py-ssz decodes an ssz List to; the
\* two hold the same elements and are never equal.
Tuple(s) == [kind |-> "tuple", elems |-> s]
SszList(s) == [kind |-> "ssz_list", elems |-> s]
\* tuple(x): the elements of x as a Python tuple.
ToTuple(x) == Tuple(x.elems)

Advertisement(k) == [advertisement |-> k]
\* Advertisement.to_sedes_payload / from_sedes_payload (payloads.py).
ToSedesPayload(a) == <<a.advertisement>>
FromSedesPayload(t) == Advertisement(t[1])

\* The message classes by message_id: REQUEST or RESPONSE, the fields of
\* the sedes that are ssz Lists (0: the sedes itself is a List), and sample
\* payloads a task builds. A payload NamedTuple is the tuple of its fields;
\* the AdvertiseMessage payload_type is `tuple` itself.
MessageClasses ==
    <<[name |-> "PingMessage",       type |-> "REQUEST",  lists |-> {},
       payloads |-> <<<<0>>, <<1>>>>],
      [name |-> "PongMessage",       type |-> "RESPONSE", lists |-> {},
       payloads |-> <<<<0>>, <<1>>>>],
      [name |-> "FindNodesMessage",  type |-> "REQUEST",  lists |-> {1},
       payloads |-> <<<<Tuple(<<>>)>>, <<Tuple(<<1, 2>>)>>>>],
      [name |-> "FoundNodesMessage", type |-> "RESPONSE", lists |-> {2},
       payloads |-> <<<<1, Tuple(<<>>)>>, <<1, Tuple(<<"enr">>)>>>>],
      [name |-> "GetContentMessage", type |-> "REQUEST",  lists |-> {},
       payloads |-> <<<<"key">>>>],
      [name |-> "ContentMessage",    type |-> "RESPONSE", lists |-> {},
       payloads |-> <<<<"content">>>>],
      [name |-> "AdvertiseMessage",  type |-> "REQUEST",  lists |-> {0},
       payloads |-> <<Tuple(<<>>), Tuple(<<Advertisement("ad")>>)>>],
      [name |-> "AckMessage",        type |-> "RESPONSE", lists |-> {2},
       payloads |-> <<<<1, Tuple(<<>>)>>, <<1, Tuple(<<TRUE>>)>>>>],
      [name |-> "LocateMessage",     type |-> "REQUEST",  lists |-> {},
       payloads |-> <<<<"key">>>>],
      [name |-> "LocationsMessage",  type |-> "RESPONSE", lists |-> {2},
       payloads |-> <<<<1, Tuple(<<>>)>>, <<1, Tuple(<<Advertisement("ad")>>)>>>>]>>

\* register: MESSAGE_REGISTRY[message_id] = class, ValueError on a
\* message_id registered twice. The decorators run in source order; the
\* outcome is the exception raised at import, or "none", and the registry.
RECURSIVE Register(_, _)
Register(registry, ids) ==
    CASE ids = <<>> -> [raised |-> "none", registry |-> registry]
      [] Head(ids) \in DOMAIN registry -> [raised |-> "ValueError", registry |-> registry]
      [] OTHER -> Register([i \in DOMAIN registry \cup {Head(ids)} |->
                               IF i = Head(ids) THEN MessageClasses[i] ELSE registry[i]],
                           Tail(ids))

Registration == Register([i \in {} |-> {}], [i \in 1..Len(MessageClasses) |-> i])
MessageRegistry == Registration.registry

\* ssz.encode(value, sedes): one opaque chunk holding the fields, a List
\* as its elements. ssz.decode(bytes, sedes): the fields back, a List as
\* py-ssz's list type; DeserializationError for bytes of another sedes.
SszEncode(id, value) ==
    LET L == MessageClasses[id].lists
    IN  <<[sedes |-> id,
           value |-> IF 0 \in L THEN value.elems
                     ELSE [i \in DOMAIN value |->
                              IF i \in L THEN value[i].elems ELSE value[i]]]>>
SszDecodes(bytes, id) == Len(bytes) = 1 /\ bytes[1].sedes = id
SszDecode(bytes, id) ==
    LET L == MessageClasses[id].lists
        v == bytes[1].value
    IN  IF 0 \in L THEN SszList(v)
        ELSE [i \in DOMAIN v |-> IF i \in L THEN SszList(v[i]) ELSE v[i]]

\* Mutation of FromPayloadArgs: FindNodesMessage keeps py-ssz's list type.
FromPayloadArgsNoTuple(id, args) ==
    CASE id = 7 -> Tuple([i \in DOMAIN args.elems |-> FromSedesPayload(args.elems[i])])
      [] id = 10 -> <<args[1], Tuple([i \in DOMAIN args[2].elems |->
                                         FromSedesPayload(args[2].elems[i])])>>
      [] id \in {4, 8} -> <<args[1], ToTuple(args[2])>>
      [] OTHER -> args

\* from_payload_args on decoded payload_args: the default
\* payload_type(*payload_args), and the overrides of FindNodes, FoundNodes
\* and Ack (tuple() of the decoded List), Advertise and Locations
\* (Advertisement.from_sedes_payload of each decoded element).
FromPayloadArgs(id, args) ==
    CASE id = 7 -> Tuple([i \in DOMAIN args.elems |-> FromSedesPayload(args.elems[i])])
      [] id = 10 -> <<args[1], Tuple([i \in DOMAIN args[2].elems |->
                                         FromSedesPayload(args[2].elems[i])])>>
      [] id \in {4, 8} -> <<args[1], ToTuple(args[2])>>
      [] id = 3 -> <<ToTuple(args[1])>>
      [] OTHER -> args

\* get_payload_for_encoding: the payload itself, except the Advertisement
\* objects of Advertise and Locations, which go as their sedes payloads.
PayloadForEncoding(m) ==
    CASE m.id = 7 -> Tuple([i \in DOMAIN m.payload.elems |->
                               ToSedesPayload(m.payload.elems[i])])
      [] m.id = 10 -> <<m.payload[1], Tuple([i \in DOMAIN m.payload[2].elems |->
                                                ToSedesPayload(m.payload[2].elems[i])])>>
      [] OTHER -> m.payload

\* to_wire_bytes: UINT8_TO_BYTES[message_id] followed by the ssz encoding.
ToWireBytes(m) == <<m.id>> \o SszEncode(m.id, PayloadForEncoding(m))

\* decode_message: data[0] of empty data raises IndexError; an unknown id
\* and a DeserializationError become DecodingError.
\* The outcome is the exception raised, or "none" and the message.
DecodeMessage(bytes) ==
    CASE bytes = <<>> -> [raised |-> "IndexError"]
      [] Head(bytes) \notin DOMAIN MessageRegistry -> [raised |-> "DecodingError"]
      [] ~SszDecodes(Tail(bytes), Head(bytes)) -> [raised |-> "DecodingError"]
      [] OTHER -> [raised |-> "none",
                   message |-> [id |-> Head(bytes),
                                payload |-> FromPayloadArgs(Head(bytes),
                                               SszDecode(Tail(bytes), Head(bytes)))]]

\* AlexandriaMessage.__eq__: the same class and equal payloads.
MessageEq(a, b) == a.id = b.id /\ a.payload = b.payload

\* The message a task builds: sample msgIx of class msgId.
Msg == [id |-> msgId, payload |-> MessageClasses[msgId].payloads[msgIx]]

\* The TALK payload a peer sends: empty, a lone id byte (known or not),
\* the wire bytes of sample ix of class of, or its body under id byte b.
Data ==
    CASE data.kind = "empty" -> <<>>
      [] data.kind = "id" -> <<data.byte>>
      [] data.kind = "wire" ->
            ToWireBytes([id |-> data.of, payload |-> MessageClasses[data.of].payloads[data.ix]])
      [] data.kind = "retag" ->
            <<data.byte>> \o Tail(ToWireBytes([id |-> data.of,
                                   payload |-> MessageClasses[data.of].payloads[data.ix]]))

Ids == 1..Len(MessageClasses)

Bytes == 0..Len(MessageClasses) + 1

Shape(k, b, i, x) == [kind |-> k, byte |-> b, of |-> i, ix |-> x]

DataShapes ==
    {Shape("empty", 0, 1, 1)} \cup {Shape("id", b, 1, 1) : b \in Bytes}
        \cup UNION {{Shape("wire", 0, i, x) :
                        x \in DOMAIN MessageClasses[i].payloads} : i \in Ids}
        \cup UNION {{Shape("retag", b, i, x) :
                        b \in Bytes, x \in DOMAIN MessageClasses[i].payloads} : i \in Ids}

Init ==
    /\ msgId \in Ids
    /\ msgIx \in DOMAIN MessageClasses[msgId].payloads
    /\ data \in DataShapes

Next == UNCHANGED vars

Spec == Init /\ [][Next]_vars

TypeOK ==
    /\ Registration.raised = "none"
    /\ DOMAIN MessageRegistry = 1..10
    /\ msgId \in Ids /\ msgIx \in DOMAIN MessageClasses[msgId].payloads

\* A message decodes from its own wire bytes to a message equal to it: the
\* class is found by its id byte, and from_payload_args undoes both the
\* sedes payloads of the advertisements and py-ssz's list type.
RoundTrip ==
    LET d == DecodeMessage(ToWireBytes(Msg))
    IN  d.raised = "none" /\ MessageEq(d.message, Msg)

\* Spec 5 (decoding error: malformed data, unknown message id, short
\* packet): whatever bytes a peer sends, decode_message returns a message
\* or raises DecodingError, which callers drop.
DecodeFailsCleanly ==
    DecodeMessage(Data).raised # "IndexError"
====
