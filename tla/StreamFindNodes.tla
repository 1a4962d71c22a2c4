---------------------------- MODULE StreamFindNodes ----------------------------
(***************************************************************************)
(* common_network_stream_find_nodes (src/ddht/v5_1/network.py 280-322):   *)
(* a producer task relays the ENRs of every FOUNDNODES response of         *)
(* client.stream_find_nodes onto a memory channel of capacity 256, and     *)
(* closes its send side when the responses end; the caller reads the       *)
(* receive side inside the context manager and may leave it at any time,  *)
(* which closes the receive side and then cancels the producer.            *)
(*                                                                         *)
(* An ENR is a model value; Responses is what the peer answers, in order.  *)
(***************************************************************************)
EXTENDS Naturals, SequencesExt

CONSTANTS
    Responses,  \* the responses' ENR lists, in the order they arrive
    Capacity    \* open_memory_channel(256)

VARIABLES
    pPc,         \* producer: "stream", "send", "done" or "cancelled"
    resp,        \* responses taken from resp_aiter
    pos,         \* next ENR of the current response to send
    chan,        \* the channel's buffer
    sendClosed,  \* `async with send_channel` has exited
    recvOpen,    \* the caller's receive channel is open
    cPc,         \* caller: "reading", "closing" or "exited"
    got          \* the ENRs the caller received, in order

vars == <<pPc, resp, pos, chan, sendClosed, recvOpen, cPc, got>>

AllEnrs == FlattenSeq(Responses)

Init ==
    /\ pPc = "stream" /\ resp = 0 /\ pos = 1 /\ chan = <<>>
    /\ sendClosed = FALSE /\ recvOpen = TRUE
    /\ cPc = "reading" /\ got = <<>>

\* Mutation of ProducerNextResponse: no `async with send_channel`, so the
\* send side stays open when the responses end.
ProducerNextResponseNoClose ==
    /\ pPc = "stream"
    /\ IF resp < Len(Responses)
       THEN /\ resp' = resp + 1 /\ pos' = 1
            /\ pPc' = IF Responses[resp + 1] = <<>> THEN "stream" ELSE "send"
            /\ UNCHANGED sendClosed
       ELSE pPc' = "done" /\ UNCHANGED <<resp, pos, sendClosed>>
    /\ UNCHANGED <<chan, recvOpen, cPc, got>>

\* `async for response in resp_aiter`: the next response, or the end of the
\* stream, which leaves `async with send_channel` and closes the send side.
ProducerNextResponse ==
    /\ pPc = "stream"
    /\ IF resp < Len(Responses)
       THEN /\ resp' = resp + 1 /\ pos' = 1
            /\ pPc' = IF Responses[resp + 1] = <<>> THEN "stream" ELSE "send"
            /\ UNCHANGED sendClosed
       ELSE pPc' = "done" /\ sendClosed' = TRUE /\ UNCHANGED <<resp, pos>>
    /\ UNCHANGED <<chan, recvOpen, cPc, got>>

\* Mutation of ProducerSend: an ENR meeting a full buffer is dropped.
ProducerSendDropWhenFull ==
    /\ pPc = "send"
    /\ IF ~recvOpen
       THEN pPc' = "stream" /\ UNCHANGED <<pos, chan>>
       ELSE /\ chan' = IF Len(chan) < Capacity
                       THEN Append(chan, Responses[resp][pos]) ELSE chan
            /\ pos' = pos + 1
            /\ pPc' = IF pos = Len(Responses[resp]) THEN "stream" ELSE "send"
    /\ UNCHANGED <<resp, sendClosed, recvOpen, cPc, got>>

\* `await send_channel.send(enr)`: blocks while the buffer is full; once
\* the caller has closed its side it raises BrokenResourceError, and
\* `break` leaves the ENRs of this response for the next response.
ProducerSend ==
    /\ pPc = "send"
    /\ IF ~recvOpen
       THEN pPc' = "stream" /\ UNCHANGED <<pos, chan>>
       ELSE /\ Len(chan) < Capacity
            /\ chan' = Append(chan, Responses[resp][pos])
            /\ pos' = pos + 1
            /\ pPc' = IF pos = Len(Responses[resp]) THEN "stream" ELSE "send"
    /\ UNCHANGED <<resp, sendClosed, recvOpen, cPc, got>>

\* The caller receives the next ENR.
CallerReceive ==
    /\ cPc = "reading" /\ chan # <<>>
    /\ got' = Append(got, Head(chan)) /\ chan' = Tail(chan)
    /\ UNCHANGED <<pPc, resp, pos, sendClosed, recvOpen, cPc>>

\* The caller leaves the `async with`: early (it has what it wanted), or at
\* the end of the channel (EndOfChannel, re-raised as TooSlowError).
\* `async with receive_channel` closes the receive side and checkpoints.
CallerLeave(atEnd) ==
    /\ cPc = "reading"
    /\ atEnd => chan = <<>> /\ sendClosed
    /\ recvOpen' = FALSE /\ cPc' = "closing"
    /\ UNCHANGED <<pPc, resp, pos, chan, sendClosed, got>>

\* finally: nursery.cancel_scope.cancel() ends the producer.
CallerCancel ==
    /\ cPc = "closing"
    /\ cPc' = "exited"
    /\ pPc' = IF pPc = "done" THEN "done" ELSE "cancelled"
    /\ UNCHANGED <<resp, pos, chan, sendClosed, recvOpen, got>>

Next ==
    \/ ProducerNextResponse \/ ProducerSend
    \/ CallerReceive \/ CallerLeave(TRUE) \/ CallerLeave(FALSE) \/ CallerCancel
    \/ cPc = "exited" /\ UNCHANGED vars

\* trio runs every runnable task; the caller that keeps reading sees the
\* end of the channel. Leaving early is the caller's choice.
Spec == Init /\ [][Next]_vars
        /\ WF_vars(ProducerNextResponse) /\ WF_vars(ProducerSend)
        /\ WF_vars(CallerReceive) /\ WF_vars(CallerLeave(TRUE))
        /\ WF_vars(CallerCancel)

TypeOK ==
    /\ pPc \in {"stream", "send", "done", "cancelled"}
    /\ resp \in 0..Len(Responses) /\ Len(chan) <= Capacity
    /\ cPc \in {"reading", "closing", "exited"}
    /\ sendClosed \in BOOLEAN /\ recvOpen \in BOOLEAN

\* What the caller has received, followed by what is buffered, is the
\* responses' ENRs in order, with none lost or repeated, however the
\* bounded channel holds the producer up; and once the producer has closed
\* its side with the caller still reading, that is every ENR.
DeliveredInOrder ==
    /\ IsPrefix(got \o chan, AllEnrs)
    /\ sendClosed /\ recvOpen => got \o chan = AllEnrs

\* Spec "Cancellation": the context manager is always left, and by then the
\* producer task has finished or been cancelled; a caller that keeps
\* reading sees the end of the channel.
StreamEnds == <>(cPc = "exited" /\ pPc \in {"done", "cancelled"})
====
