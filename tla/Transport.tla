----------------------------- MODULE Transport ------------------------------
(***************************************************************************)
(* One Session as a pipe (net/session.cpp): the worker threads queue       *)
(* frames that the uv thread writes, and the uv thread cuts what it reads  *)
(* into frames.                                                            *)
(*                                                                         *)
(* Abstractions.                                                           *)
(*  - The codec (worker/codec.h) is external: a frame is a header of       *)
(*    Header bytes that holds the length of the payload, and the payload.  *)
(*  - What becomes of a received frame is in GameFlow; a frame sent is a   *)
(*    pair of the thread and the number of its call.                       *)
(*  - libuv is external: a callback of an async handle that is open comes  *)
(*    after every uv_async_send, one for several calls at most; uv_close   *)
(*    forgets a callback that is due; frames given to uv_write reach the   *)
(*    wire in order.                                                       *)
(***************************************************************************)
EXTENDS Integers, Sequences

CONSTANTS
    Threads,    \* that call send_payload
    MaxSends,   \* bound: calls of each thread
    Header,     \* proto::Frame::kHeader
    Frames,     \* bound: frames the client sends
    Lengths     \* the lengths their payloads may have

ASSUME TransportAssumption ==
    /\ MaxSends \in Nat /\ Frames \in Nat
    /\ Header \in Nat \ {0} /\ Lengths \subseteq Nat

VARIABLES
    life,       \* "open", "closing" (closing_) or "closed" (close_cb was called)
    pc,         \* pc[t]: the next step of t in send_payload, or "idle"
    calls,      \* calls[t]: how often t called send_payload
    sendQ,      \* send_q_
    pending,    \* send_async_: the callback is due
    loop,       \* the uv thread: "poll", its next step in flush_send_queue, or
                \* "cut" in the loop of on_read
    local,      \* local, of flush_send_queue
    wire,       \* history: the frames given to uv_write, also those it refused
    pushed,     \* history: the frames pushed to send_q_
    stream,     \* history: the bytes the client has sent
    lengths,    \* history: the lengths of the payloads of its frames, ...
    ends,       \* ... and where in the stream each of its frames ends
    arrived,    \* how many bytes of the stream on_read has seen
    recvBuf,    \* recv_buf_
    offset,     \* offset, of on_read
    frames      \* history: the payloads cut out of recv_buf_

sending == <<pc, calls, sendQ, pending, loop, local, wire, pushed>>
client == <<stream, lengths, ends>>
receiving == <<client, arrived, recvBuf, offset, frames>>
vars == <<life, sending, receiving>>

-----------------------------------------------------------------------------
(* send_payload, on any thread. *)

\* closing_ is read without a lock: a thread may still see it false.
SeesOpen(t) ==
    /\ pc[t] = "idle" /\ calls[t] < MaxSends
    /\ pc' = [pc EXCEPT ![t] = "push"]
    /\ calls' = [calls EXCEPT ![t] = @ + 1]
    /\ UNCHANGED <<life, sendQ, pending, loop, local, wire, pushed, receiving>>

SeesClosing(t) ==
    /\ pc[t] = "idle" /\ calls[t] < MaxSends /\ life # "open"
    /\ calls' = [calls EXCEPT ![t] = @ + 1]
    /\ UNCHANGED <<life, pc, sendQ, pending, loop, local, wire, pushed, receiving>>

\* Fault: the flush that is going on is expected to take the frame along.
PushUnlessFlushing(t) ==
    /\ pc[t] = "push"
    /\ sendQ' = Append(sendQ, <<t, calls[t]>>)
    /\ pushed' = Append(pushed, <<t, calls[t]>>)
    /\ pc' = [pc EXCEPT ![t] = IF loop = "poll" THEN "wake" ELSE "idle"]
    /\ UNCHANGED <<life, calls, pending, loop, local, wire, receiving>>

\* Under send_mtx_.
Push(t) ==
    /\ pc[t] = "push"
    /\ sendQ' = Append(sendQ, <<t, calls[t]>>)
    /\ pushed' = Append(pushed, <<t, calls[t]>>)
    /\ pc' = [pc EXCEPT ![t] = "wake"]
    /\ UNCHANGED <<life, calls, pending, loop, local, wire, receiving>>

\* uv_async_send, also on a handle that on_read has closed in the meantime.
Wake(t) ==
    /\ pc[t] = "wake"
    /\ pending' = (pending \/ life = "open")
    /\ pc' = [pc EXCEPT ![t] = "idle"]
    /\ UNCHANGED <<life, calls, sendQ, loop, local, wire, pushed, receiving>>

-----------------------------------------------------------------------------
(* The uv thread sends. *)

\* on_send_async.
OnSendAsync ==
    /\ loop = "poll" /\ pending /\ life = "open"
    /\ pending' = FALSE
    /\ loop' = "swap"
    /\ UNCHANGED <<life, pc, calls, sendQ, local, wire, pushed, receiving>>

\* Faults: the frames stay in the queue; only the first frame is taken.
SwapCopies ==
    /\ loop = "swap"
    /\ local' = sendQ
    /\ loop' = "write"
    /\ UNCHANGED <<life, pc, calls, sendQ, pending, wire, pushed, receiving>>

SwapOne ==
    /\ loop = "swap"
    /\ local' = IF sendQ = <<>> THEN <<>> ELSE <<Head(sendQ)>>
    /\ sendQ' = IF sendQ = <<>> THEN <<>> ELSE Tail(sendQ)
    /\ loop' = "write"
    /\ UNCHANGED <<life, pc, calls, pending, wire, pushed, receiving>>

\* flush_send_queue: the queue is taken under send_mtx_, ...
Swap ==
    /\ loop = "swap"
    /\ local' = sendQ /\ sendQ' = <<>>
    /\ loop' = "write"
    /\ UNCHANGED <<life, pc, calls, pending, wire, pushed, receiving>>

\* ... and each frame is given to uv_write; one it refuses is gone, and the
\* next is tried.
Write ==
    /\ loop = "write" /\ local # <<>>
    /\ wire' = Append(wire, Head(local))
    /\ local' = Tail(local)
    /\ UNCHANGED <<life, pc, calls, sendQ, pending, loop, pushed, receiving>>

Written ==
    /\ loop = "write" /\ local = <<>>
    /\ loop' = "poll"
    /\ UNCHANGED <<life, pc, calls, sendQ, pending, local, wire, pushed, receiving>>

-----------------------------------------------------------------------------
(* The uv thread reads. *)

\* A frame, byte by byte: a byte of the header tells the length, any byte of the
\* payload the number of the frame.
FrameBytes(i, len) ==
    [k \in 1..(Header + len) |-> [len |-> IF k <= Header THEN len ELSE -1, of |-> i]]

ClientSends(len) ==
    /\ Len(lengths) < Frames
    /\ stream' = stream \o FrameBytes(Len(lengths) + 1, len)
    /\ lengths' = Append(lengths, len)
    /\ ends' = Append(ends, Len(stream) + Header + len)
    /\ UNCHANGED <<life, sending, arrived, recvBuf, offset, frames>>

\* Faults: a frame is not cut out before a byte of the next one is there; the
\* offset goes on by the payload only.
WholeAndMore(buf, at) ==
    Len(buf) - at >= Header /\ Len(buf) - at - Header > buf[at + 1].len

\* Whether the buffer holds the whole frame that begins at the offset.
Whole(buf, at) ==
    Len(buf) - at >= Header /\ Len(buf) - at - Header >= buf[at + 1].len

AfterPayload(buf, at) == at + buf[at + 1].len + 1

After(buf, at) == at + Header + buf[at + 1].len

\* The payload of the frame at the offset.
Payload(buf, at) == SubSeq(buf, at + Header + 1, After(buf, at))

\* on_read: TCP delivers any number of bytes, ...
OnRead(n) ==
    /\ loop = "poll" /\ life = "open"
    /\ arrived + n <= Len(stream)
    /\ arrived' = arrived + n
    /\ recvBuf' = recvBuf \o SubSeq(stream, arrived + 1, arrived + n)
    /\ offset' = 0
    /\ loop' = "cut"
    /\ UNCHANGED <<life, pc, calls, sendQ, pending, local, wire, pushed, client, frames>>

\* ... frame after frame is handed on, ...
CutFrame ==
    /\ loop = "cut" /\ Whole(recvBuf, offset)
    /\ frames' = Append(frames, Payload(recvBuf, offset))
    /\ offset' = After(recvBuf, offset)
    /\ UNCHANGED <<life, sending, client, arrived, recvBuf>>

\* ... and what is left of the buffer waits for the next read.
CutRest ==
    /\ loop = "cut" /\ ~Whole(recvBuf, offset)
    /\ recvBuf' = SubSeq(recvBuf, offset + 1, Len(recvBuf))
    /\ offset' = 0
    /\ loop' = "poll"
    /\ UNCHANGED <<life, pc, calls, sendQ, pending, local, wire, pushed, client, arrived, frames>>

\* on_read at the end of the stream or with an error: reading stops, both
\* handles are closed.
OnReadError ==
    /\ loop = "poll" /\ life = "open"
    /\ life' = "closing"
    /\ pending' = FALSE
    /\ UNCHANGED <<pc, calls, sendQ, loop, local, wire, pushed, receiving>>

\* close_cb: on_closed.
OnClosed ==
    /\ loop = "poll" /\ life = "closing"
    /\ life' = "closed"
    /\ UNCHANGED <<sending, receiving>>

-----------------------------------------------------------------------------
Init ==
    /\ life = "open"
    /\ pc = [t \in Threads |-> "idle"] /\ calls = [t \in Threads |-> 0]
    /\ sendQ = <<>> /\ pending = FALSE /\ loop = "poll" /\ local = <<>>
    /\ wire = <<>> /\ pushed = <<>>
    /\ stream = <<>> /\ lengths = <<>> /\ ends = <<>>
    /\ arrived = 0 /\ recvBuf = <<>> /\ offset = 0 /\ frames = <<>>

Sender(t) == Push(t) \/ Wake(t)
Flush == OnSendAsync \/ Swap \/ Write \/ Written
Cut == CutFrame \/ CutRest

Next ==
    \/ \E t \in Threads : SeesOpen(t) \/ SeesClosing(t) \/ Sender(t)
    \/ Flush \/ Cut
    \/ \E len \in Lengths : ClientSends(len)
    \/ \E n \in 1..Len(stream) : OnRead(n)
    \/ OnReadError \/ OnClosed

Spec == Init /\ [][Next]_vars

\* A call that began returns, and the uv loop runs the callbacks that are due
\* and comes back from on_read.
FairSpec ==
    /\ Spec
    /\ \A t \in Threads : WF_vars(Sender(t))
    /\ WF_vars(Flush) /\ WF_vars(Cut) /\ WF_vars(OnClosed)

-----------------------------------------------------------------------------
(* Properties. *)

Sends == Threads \X (1..MaxSends)
Bytes == [len : Lengths \cup {-1}, of : 1..Frames]

TransportTypeOK ==
    /\ life \in {"open", "closing", "closed"}
    /\ pc \in [Threads -> {"idle", "push", "wake"}]
    /\ calls \in [Threads -> 0..MaxSends]
    /\ sendQ \in Seq(Sends) /\ local \in Seq(Sends)
    /\ wire \in Seq(Sends) /\ pushed \in Seq(Sends)
    /\ pending \in BOOLEAN
    /\ loop \in {"poll", "swap", "write", "cut"}
    /\ loop # "poll" => life = "open"
    /\ loop # "write" => local = <<>>
    /\ stream \in Seq(Bytes) /\ lengths \in Seq(Lengths) /\ ends \in Seq(Nat)
    /\ arrived \in Nat /\ recvBuf \in Seq(Bytes)
    /\ offset \in Nat /\ frames \in Seq(Seq(Bytes))
    /\ loop # "cut" => offset = 0

\* Frames go out once and in the order in which they were pushed, whichever
\* threads push while a flush is going on.
SentInOrder == pushed = wire \o local \o sendQ

\* No lost wake-up: while the connection is open, a frame in the queue has a
\* callback due or under way, though one callback answers several calls.
NoLostWakeUp ==
    sendQ # <<>> /\ life = "open" =>
        pending \/ loop = "swap" \/ \E t \in Threads : pc[t] = "wake"

\* Whatever is queued is written, unless the connection ends first.
EverythingSent == sendQ # <<>> ~> sendQ = <<>> \/ life # "open"

\* Where in the stream the k-th frame ends, if the frames end at "at".
EndOf(at, k) == IF k = 0 THEN 0 ELSE at[k]

\* However TCP cuts the stream into reads, the payloads handed on are those the
\* client sent, in order and whole; what the loop of on_read has not passed is
\* the stream from the end of the last of them on, up to the last byte that
\* arrived; and every frame that has arrived was handed on in the same read.
FramesIntact ==
    LET k == Len(frames)
        rest == arrived - EndOf(ends, k)
    IN  /\ k <= Len(lengths)
        /\ \A i \in 1..k : frames[i] = [j \in 1..lengths[i] |-> [len |-> -1, of |-> i]]
        /\ rest >= 0 /\ Len(recvBuf) = offset + rest
        /\ \A j \in 1..rest : recvBuf[offset + j] = stream[EndOf(ends, k) + j]
        /\ loop # "cut" /\ k < Len(lengths) => arrived < EndOf(ends, k + 1)

=============================================================================
