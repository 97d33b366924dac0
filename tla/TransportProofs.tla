--------------------------- MODULE TransportProofs ---------------------------
(***************************************************************************)
(* Proofs about Transport, for any threads, any number of their calls, any *)
(* length of the header, any frames of the client and any reads.           *)
(***************************************************************************)
EXTENDS Transport, SequenceTheorems, TLAPS

\* A frame that is about to be queued has a number.
Begun == \A t \in Threads : pc[t] # "idle" => calls[t] \in 1..MaxSends

\* The stream is the frames of the client, one after the other, and on_read has
\* seen a part of it.
Framed ==
    /\ Len(ends) = Len(lengths) /\ Len(lengths) <= Frames
    /\ Len(stream) = EndOf(ends, Len(ends)) /\ arrived <= Len(stream)
    /\ \A i \in 1..Len(ends) :
          /\ EndOf(ends, i) = EndOf(ends, i - 1) + Header + lengths[i]
          /\ EndOf(ends, i) <= Len(stream)
          /\ \A j \in 1..(Header + lengths[i]) :
                stream[EndOf(ends, i - 1) + j] = FrameBytes(i, lengths[i])[j]

IInv ==
    /\ TransportTypeOK
    /\ Begun
    /\ SentInOrder
    /\ NoLostWakeUp
    /\ Framed
    /\ FramesIntact

LEMMA InitIInv == Init => IInv
<1> SUFFICES ASSUME Init PROVE IInv
  OBVIOUS
<1>1. TransportTypeOK
  <2>1. <<>> \in Seq(Sends)
    BY EmptySeq
  <2>2. /\ sendQ \in Seq(Sends) /\ local \in Seq(Sends)
        /\ wire \in Seq(Sends) /\ pushed \in Seq(Sends)
    BY <2>1 DEF Init
  <2>3. /\ pc \in [Threads -> {"idle", "push", "wake"}]
        /\ calls \in [Threads -> 0..MaxSends]
    BY TransportAssumption DEF Init
  <2>4. /\ stream \in Seq(Bytes) /\ lengths \in Seq(Lengths) /\ ends \in Seq(Nat)
        /\ recvBuf \in Seq(Bytes) /\ frames \in Seq(Seq(Bytes))
    BY EmptySeq DEF Init
  <2> QED BY <2>2, <2>3, <2>4 DEF Init, TransportTypeOK
<1>2. SentInOrder
  <2>1. <<>> \in Seq(Sends)
    BY EmptySeq
  <2> QED BY <2>1, ConcatEmptySeq DEF Init, SentInOrder
<1>3. Begun /\ NoLostWakeUp
  BY DEF Init, Begun, NoLostWakeUp
<1>4. Framed /\ FramesIntact
  <2>1. Len(<<>>) = 0
    OBVIOUS
  <2> QED BY <2>1, TransportAssumption DEF Init, Framed, FramesIntact, EndOf
<1> QED BY <1>1, <1>2, <1>3, <1>4 DEF IInv

\* Sending leaves the receiving half alone.
LEMMA ReceivingKept ==
    ASSUME IInv, UNCHANGED receiving, loop' = loop \/ (loop # "cut" /\ loop' # "cut")
    PROVE  Framed' /\ FramesIntact'
<1>1. UNCHANGED <<stream, lengths, ends, arrived, recvBuf, offset, frames>>
  BY DEF receiving, client
<1>2. \A k : EndOf(ends', k) = EndOf(ends, k)
  BY <1>1 DEF EndOf
<1>3. Framed'
  BY <1>1, <1>2 DEF IInv, Framed, EndOf
<1>4. FramesIntact'
  BY <1>1, <1>2 DEF IInv, FramesIntact, EndOf
<1> QED BY <1>3, <1>4

\* The look at closing_, whatever it finds, begins or ends a call.
LEMMA SeesIInv ==
    ASSUME IInv, NEW t \in Threads, SeesOpen(t) \/ SeesClosing(t)
    PROVE  IInv'
<1>0. /\ calls[t] \in 0..MaxSends /\ calls[t] < MaxSends
      /\ calls' = [calls EXCEPT ![t] = @ + 1]
      /\ pc[t] = "idle" /\ (pc' = [pc EXCEPT ![t] = "push"] \/ pc' = pc)
      /\ UNCHANGED <<life, sendQ, pending, loop, local, wire, pushed, receiving>>
  BY DEF SeesOpen, SeesClosing, IInv, TransportTypeOK
<1>1. calls[t] + 1 \in 1..MaxSends
  BY <1>0, TransportAssumption
<1>2. TransportTypeOK'
  <2>1. pc' \in [Threads -> {"idle", "push", "wake"}] /\ calls' \in [Threads -> 0..MaxSends]
    BY <1>0, <1>1, TransportAssumption DEF IInv, TransportTypeOK
  <2> QED BY <1>0, <2>1 DEF IInv, TransportTypeOK, receiving, client
<1>3. Begun'
  BY <1>0, <1>1 DEF IInv, Begun, TransportTypeOK
<1>4. SentInOrder'
  BY <1>0 DEF IInv, SentInOrder
<1>5. NoLostWakeUp'
  BY <1>0 DEF IInv, NoLostWakeUp, TransportTypeOK
<1>9. Framed' /\ FramesIntact'
  BY <1>0, ReceivingKept
<1> QED BY <1>2, <1>3, <1>4, <1>5, <1>9 DEF IInv

\* The frame goes to the end of the queue; its notification is to come.
LEMMA PushIInv ==
    ASSUME IInv, NEW t \in Threads, Push(t)
    PROVE  IInv'
<1> DEFINE f == <<t, calls[t]>>
<1>0. /\ sendQ' = Append(sendQ, f) /\ pushed' = Append(pushed, f)
      /\ pc' = [pc EXCEPT ![t] = "wake"] /\ pc[t] = "push"
      /\ UNCHANGED <<life, calls, pending, loop, local, wire, receiving>>
  BY DEF Push
<1>1. f \in Sends
  BY <1>0 DEF IInv, Begun, Sends
<1>2. /\ sendQ \in Seq(Sends) /\ pushed \in Seq(Sends)
      /\ wire \in Seq(Sends) /\ local \in Seq(Sends) /\ wire \o local \in Seq(Sends)
  BY ConcatProperties DEF IInv, TransportTypeOK
<1>3. TransportTypeOK'
  <2>1. sendQ' \in Seq(Sends) /\ pushed' \in Seq(Sends)
    BY <1>0, <1>1, <1>2, AppendProperties
  <2> QED BY <1>0, <2>1 DEF IInv, TransportTypeOK, receiving, client
<1>4. SentInOrder'
  <2> DEFINE sent == wire \o local
  <2>0. /\ sent \in Seq(Sends) /\ pushed = sent \o sendQ
    BY <1>2 DEF IInv, SentInOrder
  <2> HIDE DEF sent, f
  <2>1. <<f>> \in Seq(Sends)
    BY <1>1
  <2>2. Append(pushed, f) = (sent \o sendQ) \o <<f>>
    BY <1>1, <1>2, <2>0, AppendIsConcat
  <2>3. @ = sent \o (sendQ \o <<f>>)
    BY <1>2, <2>0, <2>1, ConcatAssociative
  <2>4. @ = sent \o Append(sendQ, f)
    BY <1>1, <1>2, AppendIsConcat
  <2> QED BY <1>0, <2>2, <2>3, <2>4 DEF SentInOrder, sent
<1>5. Begun'
  BY <1>0 DEF IInv, Begun, TransportTypeOK
<1>6. NoLostWakeUp'
  BY <1>0 DEF IInv, NoLostWakeUp, TransportTypeOK
<1>9. Framed' /\ FramesIntact'
  BY <1>0, ReceivingKept
<1> QED BY <1>3, <1>4, <1>5, <1>6, <1>9 DEF IInv

\* uv_async_send reaches a handle that is open.
LEMMA WakeIInv ==
    ASSUME IInv, NEW t \in Threads, Wake(t)
    PROVE  IInv'
<1>0. /\ pending' = (pending \/ life = "open")
      /\ pc' = [pc EXCEPT ![t] = "idle"]
      /\ UNCHANGED <<life, calls, sendQ, loop, local, wire, pushed, receiving>>
  BY DEF Wake
<1>1. TransportTypeOK'
  <2>1. pending' \in BOOLEAN
    BY <1>0, Zenon
  <2> QED BY <1>0, <2>1 DEF IInv, TransportTypeOK, receiving, client
<1>2. Begun'
  BY <1>0 DEF IInv, Begun, TransportTypeOK
<1>3. SentInOrder'
  BY <1>0 DEF IInv, SentInOrder
<1>4. NoLostWakeUp'
  <2>1. life' = "open" => pending'
    BY <1>0, Zenon
  <2> QED BY <2>1, Zenon DEF NoLostWakeUp
<1>9. Framed' /\ FramesIntact'
  BY <1>0, ReceivingKept
<1> QED BY <1>1, <1>2, <1>3, <1>4, <1>9 DEF IInv

\* The callback answers all notifications so far, and will see the queue.
LEMMA OnSendAsyncIInv ==
    ASSUME IInv, OnSendAsync
    PROVE  IInv'
<1>0. /\ life = "open" /\ loop = "poll" /\ loop' = "swap" /\ pending' = FALSE
      /\ UNCHANGED <<life, pc, calls, sendQ, local, wire, pushed, receiving>>
  BY DEF OnSendAsync
<1>1. TransportTypeOK'
  BY <1>0 DEF IInv, TransportTypeOK, receiving, client
<1>9. Framed' /\ FramesIntact'
  BY <1>0, ReceivingKept
<1> QED BY <1>0, <1>1, <1>9 DEF IInv, Begun, SentInOrder, NoLostWakeUp

\* The queue moves to local as a whole.
LEMMA SwapIInv ==
    ASSUME IInv, Swap
    PROVE  IInv'
<1>0. /\ loop = "swap" /\ loop' = "write" /\ local' = sendQ /\ sendQ' = <<>>
      /\ UNCHANGED <<life, pc, calls, pending, wire, pushed, receiving>>
  BY DEF Swap
<1>1. /\ local = <<>> /\ sendQ \in Seq(Sends) /\ wire \in Seq(Sends)
      /\ wire \o sendQ \in Seq(Sends) /\ <<>> \in Seq(Sends)
  BY <1>0, EmptySeq, ConcatProperties DEF IInv, TransportTypeOK
<1>2. TransportTypeOK'
  BY <1>0, <1>1 DEF IInv, TransportTypeOK, receiving, client
<1>3. SentInOrder'
  <2>1. wire \o local = wire
    BY <1>1, ConcatEmptySeq
  <2>2. (wire \o sendQ) \o <<>> = wire \o sendQ
    BY <1>1, ConcatEmptySeq
  <2> QED BY <1>0, <2>1, <2>2 DEF IInv, SentInOrder
<1>4. Begun' /\ NoLostWakeUp'
  BY <1>0 DEF IInv, Begun, NoLostWakeUp
<1>9. Framed' /\ FramesIntact'
  BY <1>0, ReceivingKept
<1> QED BY <1>2, <1>3, <1>4, <1>9 DEF IInv

\* The first frame of local is the next on the wire.
LEMMA WriteIInv ==
    ASSUME IInv, Write
    PROVE  IInv'
<1>0. /\ loop = "write" /\ local # <<>>
      /\ wire' = Append(wire, Head(local)) /\ local' = Tail(local)
      /\ UNCHANGED <<life, pc, calls, sendQ, pending, loop, pushed, receiving>>
  BY DEF Write
<1>1. /\ local \in Seq(Sends) /\ wire \in Seq(Sends)
      /\ Head(local) \in Sends /\ Tail(local) \in Seq(Sends)
      /\ <<Head(local)>> \in Seq(Sends)
  BY <1>0, HeadTailProperties DEF IInv, TransportTypeOK
<1>2. TransportTypeOK'
  <2>1. wire' \in Seq(Sends)
    BY <1>0, <1>1, AppendProperties
  <2> QED BY <1>0, <1>1, <2>1 DEF IInv, TransportTypeOK, receiving, client
<1>3. SentInOrder'
  <2>1. local = <<Head(local)>> \o Tail(local)
    BY <1>0, <1>1
  <2>2. wire' \o local' = (wire \o <<Head(local)>>) \o Tail(local)
    BY <1>0, <1>1, AppendIsConcat
  <2>3. @ = wire \o (<<Head(local)>> \o Tail(local))
    BY <1>1, ConcatAssociative
  <2>4. @ = wire \o local
    BY <2>1
  <2> QED BY <1>0, <2>2, <2>3, <2>4 DEF IInv, SentInOrder
<1>4. Begun' /\ NoLostWakeUp'
  BY <1>0 DEF IInv, Begun, NoLostWakeUp
<1>9. Framed' /\ FramesIntact'
  BY <1>0, ReceivingKept
<1> QED BY <1>2, <1>3, <1>4, <1>9 DEF IInv

LEMMA WrittenIInv ==
    ASSUME IInv, Written
    PROVE  IInv'
<1>0. /\ loop = "write" /\ local = <<>> /\ loop' = "poll"
      /\ UNCHANGED <<life, pc, calls, sendQ, pending, local, wire, pushed, receiving>>
  BY DEF Written
<1>1. TransportTypeOK'
  BY <1>0 DEF IInv, TransportTypeOK, receiving, client
<1>9. Framed' /\ FramesIntact'
  BY <1>0, ReceivingKept
<1> QED BY <1>0, <1>1, <1>9 DEF IInv, Begun, SentInOrder, NoLostWakeUp

\* What the steps of the receiving half leave alone.
LEMMA SendingKept ==
    ASSUME IInv, UNCHANGED <<life, pc, calls, sendQ, pending, local, wire, pushed>>,
           \/ loop' = loop
           \/ loop \in {"poll", "cut"} /\ loop' \in {"poll", "cut"} /\ life = "open"
    PROVE  /\ Begun' /\ SentInOrder' /\ NoLostWakeUp'
           /\ (loop' \in {"poll", "swap", "write", "cut"})
           /\ (loop' # "poll" => life' = "open")
           /\ (loop' # "write" => local' = <<>>)
BY DEF IInv, TransportTypeOK, Begun, SentInOrder, NoLostWakeUp

\* The bytes of a sequence that another one is appended to, or is cut out of.
LEMMA ConcatBytes ==
    ASSUME NEW S, NEW s \in Seq(S), NEW t \in Seq(S)
    PROVE  /\ s \o t \in Seq(S) /\ Len(s \o t) = Len(s) + Len(t)
           /\ \A j \in 1..Len(s) : (s \o t)[j] = s[j]
           /\ \A j \in 1..Len(t) : (s \o t)[Len(s) + j] = t[j]
<1>0. Len(s) \in Nat /\ Len(t) \in Nat
  BY LenProperties
<1>1. /\ s \o t \in Seq(S) /\ Len(s \o t) = Len(s) + Len(t)
      /\ \A i \in 1..(Len(s) + Len(t)) :
            (s \o t)[i] = IF i <= Len(s) THEN s[i] ELSE t[i - Len(s)]
  BY ConcatProperties
<1>2. ASSUME NEW j \in 1..Len(s) PROVE (s \o t)[j] = s[j]
  BY <1>0, <1>1
<1>3. ASSUME NEW j \in 1..Len(t) PROVE (s \o t)[Len(s) + j] = t[j]
  <2>1. Len(s) + j \in 1..(Len(s) + Len(t)) /\ ~(Len(s) + j <= Len(s)) /\ (Len(s) + j) - Len(s) = j
    BY <1>0
  <2> QED BY <1>1, <2>1
<1> QED BY <1>1, <1>2, <1>3

LEMMA SubSeqBytes ==
    ASSUME NEW S, NEW s \in Seq(S), NEW a \in Nat, NEW n \in Nat, a + n <= Len(s)
    PROVE  /\ SubSeq(s, a + 1, a + n) \in Seq(S) /\ Len(SubSeq(s, a + 1, a + n)) = n
           /\ \A j \in 1..n : SubSeq(s, a + 1, a + n)[j] = s[a + j]
<1>1. \A i \in (a + 1)..(a + n) : s[i] \in S
  BY LenProperties, ElementOfSeq
<1>2. PICK m \in Int : m = a + 1
  OBVIOUS
<1>3. PICK l \in Int : l = a + n
  OBVIOUS
<1>4. /\ SubSeq(s, m, l) \in Seq(S)
      /\ Len(SubSeq(s, m, l)) = IF m <= l THEN l - m + 1 ELSE 0
      /\ \A i \in 1..(l - m + 1) : SubSeq(s, m, l)[i] = s[m + i - 1]
  BY <1>1, <1>2, <1>3, SubSeqProperties
<1>5. l - m + 1 = n /\ (m <= l <=> n # 0) /\ \A j \in 1..n : m + j - 1 = a + j
  BY <1>2, <1>3
<1> QED BY <1>2, <1>3, <1>4, <1>5

\* Facts about a frame, and about how far the loop of on_read has come.
LEMMA BytesType ==
    ASSUME NEW i \in 1..Frames, NEW len \in Lengths
    PROVE  /\ FrameBytes(i, len) \in Seq(Bytes)
           /\ Len(FrameBytes(i, len)) = Header + len
           /\ Header \in Nat /\ Header > 0 /\ len \in Nat
<1>1. Header \in Nat /\ Header > 0 /\ len \in Nat
  BY TransportAssumption
<1>2. FrameBytes(i, len) \in [1..(Header + len) -> Bytes]
  BY DEF FrameBytes, Bytes
<1>3. Header + len \in Nat
  BY <1>1
<1> QED BY <1>1, <1>2, <1>3, SeqDef, LenProperties

LEMMA Numbers ==
    ASSUME IInv
    PROVE  /\ Len(stream) \in Nat /\ Len(lengths) \in Nat /\ Len(ends) \in Nat
           /\ Len(recvBuf) \in Nat /\ Len(frames) \in Nat
           /\ Frames \in Nat /\ Header \in Nat /\ Header > 0
           /\ arrived \in Nat /\ offset \in Nat /\ Lengths \subseteq Nat
BY TransportAssumption, LenProperties DEF IInv, TransportTypeOK

LEMMA Elements ==
    ASSUME IInv
    PROVE  /\ \A k \in 0..Len(ends) : EndOf(ends, k) \in Nat
           /\ \A i \in 1..Len(lengths) : lengths[i] \in Lengths /\ lengths[i] \in Nat
           /\ \A j \in 1..Len(stream) : stream[j] \in Bytes
           /\ \A j \in 1..Len(recvBuf) : recvBuf[j] \in Bytes
<1>1. /\ stream \in Seq(Bytes) /\ lengths \in Seq(Lengths) /\ ends \in Seq(Nat)
      /\ recvBuf \in Seq(Bytes)
  BY DEF IInv, TransportTypeOK
<1>2. \A k \in 0..Len(ends) : EndOf(ends, k) \in Nat
  BY <1>1, ElementOfSeq DEF EndOf
<1> QED BY <1>1, <1>2, Numbers, ElementOfSeq

\* The client sends a frame: nothing it sent before changes.
LEMMA ClientSendsIInv ==
    ASSUME IInv, NEW len \in Lengths, ClientSends(len)
    PROVE  IInv'
<1>1. /\ stream \in Seq(Bytes) /\ lengths \in Seq(Lengths) /\ ends \in Seq(Nat)
      /\ TransportTypeOK /\ Framed /\ FramesIntact
  BY DEF IInv, TransportTypeOK
<1>2. PICK old \in Nat : old = Len(lengths)
  BY Numbers
<1>3. PICK size \in Nat : size = Len(stream)
  BY Numbers
<1>4. PICK n \in Nat : n = old + 1
  OBVIOUS
<1>5. /\ Header \in Nat /\ Header > 0 /\ len \in Nat /\ Len(ends) = old
      /\ EndOf(ends, old) = size /\ old < Frames /\ n \in 1..Frames
  BY <1>1, <1>2, <1>3, <1>4, TransportAssumption DEF Framed, ClientSends
<1>6. PICK b \in Seq(Bytes) : b = FrameBytes(n, len)
  BY <1>5, BytesType
<1>7. PICK end \in Nat : end = size + Header + len
  BY <1>5
<1>8. /\ stream' = stream \o b
      /\ lengths' = Append(lengths, len)
      /\ ends' = Append(ends, end)
      /\ UNCHANGED <<life, pc, calls, sendQ, pending, loop, local, wire, pushed>>
      /\ UNCHANGED <<arrived, recvBuf, offset, frames>>
  BY <1>2, <1>3, <1>4, <1>6, <1>7 DEF ClientSends, sending
<1>9. /\ stream' \in Seq(Bytes) /\ Len(stream') = end
      /\ \A j \in 1..size : stream'[j] = stream[j]
      /\ \A j \in 1..(Header + len) : stream'[size + j] = b[j]
  <2>1. Len(b) = Header + len
    BY <1>5, <1>6, BytesType
  <2>2. /\ stream \o b \in Seq(Bytes) /\ Len(stream \o b) = Len(stream) + Len(b)
        /\ \A j \in 1..Len(stream) : (stream \o b)[j] = stream[j]
        /\ \A j \in 1..Len(b) : (stream \o b)[Len(stream) + j] = b[j]
    BY <1>1, ConcatBytes
  <2>3. stream' = stream \o b /\ end = size + (Header + len)
    BY <1>5, <1>7, <1>8
  <2> QED BY <1>3, <2>1, <2>2, <2>3
<1>10. /\ lengths' \in Seq(Lengths) /\ Len(lengths') = n /\ lengths'[n] = len
       /\ \A i \in 1..old : lengths'[i] = lengths[i]
  BY <1>1, <1>2, <1>4, <1>8, AppendProperties
<1>11. /\ ends' \in Seq(Nat) /\ Len(ends') = n /\ ends'[n] = end
       /\ \A i \in 1..old : ends'[i] = ends[i]
  BY <1>1, <1>4, <1>5, <1>8, AppendProperties
<1>12. (\A i \in 0..old : EndOf(ends', i) = EndOf(ends, i)) /\ EndOf(ends', n) = end
  BY <1>4, <1>11 DEF EndOf
<1>13. Framed'
  <2>1. ASSUME NEW i \in 1..old
        PROVE  /\ EndOf(ends', i) = EndOf(ends', i - 1) + Header + lengths'[i]
               /\ EndOf(ends', i) <= end
               /\ \A j \in 1..(Header + lengths'[i]) :
                     stream'[EndOf(ends', i - 1) + j] = FrameBytes(i, lengths'[i])[j]
    <3>1. i - 1 \in 0..old /\ i \in 0..old /\ i \in 1..Len(lengths) /\ i \in 1..Len(ends)
      BY <1>2, <1>5
    <3>2. PICK from \in Nat : from = EndOf(ends, i - 1)
      BY <1>5, <3>1, Elements
    <3>3. PICK to \in Nat : to = EndOf(ends, i)
      BY <1>5, <3>1, Elements
    <3>4. PICK l \in Nat : l = lengths[i]
      BY <3>1, Elements
    <3>5. /\ to = from + Header + l /\ to <= size
          /\ \A j \in 1..(Header + l) : stream[from + j] = FrameBytes(i, l)[j]
      BY <1>1, <1>3, <3>1, <3>2, <3>3, <3>4 DEF Framed
    <3>6. EndOf(ends', i) = to /\ EndOf(ends', i - 1) = from /\ lengths'[i] = l
      BY <1>10, <1>12, <3>1, <3>2, <3>3, <3>4
    <3>7. to <= end /\ \A j \in 1..(Header + l) : from + j \in 1..size
      <4>1. to = from + Header + l /\ to <= size
        BY <3>5
      <4>2. Header \in Nat /\ len \in Nat
        BY <1>5
      <4> QED BY <1>7, <4>1, <4>2
    <3> QED BY <1>9, <3>5, <3>6, <3>7
  <2>2. /\ EndOf(ends', n) = EndOf(ends', n - 1) + Header + lengths'[n]
        /\ EndOf(ends', n) <= end
        /\ \A j \in 1..(Header + lengths'[n]) :
              stream'[EndOf(ends', n - 1) + j] = FrameBytes(n, lengths'[n])[j]
    <3>1. n - 1 = old /\ old \in 0..old
      BY <1>4
    <3>2. EndOf(ends', n - 1) = size
      BY <1>5, <1>12, <3>1
    <3> QED BY <1>6, <1>7, <1>9, <1>10, <1>12, <3>2
  <2>3. arrived' <= end
    <3>1. arrived <= size /\ arrived' = arrived
      BY <1>1, <1>3, <1>8 DEF Framed
    <3>2. arrived \in Nat /\ Header \in Nat /\ len \in Nat
      BY <1>5, Numbers
    <3> QED BY <1>7, <3>1, <3>2
  <2>4. \A i \in 1..n : i \in 1..old \/ i = n
    BY <1>4
  <2>5. \A i \in 1..n :
            /\ EndOf(ends', i) = EndOf(ends', i - 1) + Header + lengths'[i]
            /\ EndOf(ends', i) <= end
            /\ \A j \in 1..(Header + lengths'[i]) :
                  stream'[EndOf(ends', i - 1) + j] = FrameBytes(i, lengths'[i])[j]
    BY <2>1, <2>2, <2>4
  <2>6. n <= Frames /\ EndOf(ends', Len(ends')) = end
    <3>1. EndOf(ends', n) = end /\ Len(ends') = n
      BY <1>11, <1>12
    <3>2. EndOf(ends', Len(ends')) = EndOf(ends', n)
      BY <3>1
    <3> QED BY <1>5, <3>1, <3>2
  <2> QED BY <1>9, <1>10, <1>11, <2>3, <2>5, <2>6 DEF Framed
<1>14. FramesIntact'
  <2>1. PICK k \in Nat : k = Len(frames)
    BY Numbers
  <2>2. k <= old /\ k \in 0..old
    BY <1>1, <1>2, <2>1 DEF FramesIntact
  <2>3. PICK from \in Nat : from = EndOf(ends, k)
    BY <1>5, <2>2, Elements
  <2>4. PICK rest \in Int : rest = arrived - from
    BY Numbers
  <2>5. /\ \A i \in 1..k : frames[i] = [j \in 1..lengths[i] |-> [len |-> -1, of |-> i]]
        /\ rest >= 0 /\ Len(recvBuf) = offset + rest
        /\ \A j \in 1..rest : recvBuf[offset + j] = stream[from + j]
        /\ loop # "cut" /\ k < old => arrived < EndOf(ends, k + 1)
    BY <1>1, <1>2, <2>1, <2>3, <2>4 DEF FramesIntact
  <2>6. arrived <= size
    BY <1>1, <1>3 DEF Framed
  <2>7. EndOf(ends', k) = from /\ \A j \in 1..rest : from + j \in 1..size
    <3>1. EndOf(ends', k) = from
      BY <1>12, <2>2, <2>3
    <3>2. rest = arrived - from /\ arrived <= size /\ arrived \in Nat
      BY <2>4, <2>6, Numbers
    <3> QED BY <3>1, <3>2
  <2>8. loop # "cut" /\ k < n => arrived < EndOf(ends', k + 1)
    <3>1. CASE k < old
      <4>1. k + 1 \in 0..old
        BY <3>1
      <4> QED BY <1>12, <2>5, <3>1, <4>1
    <3>2. CASE k = old
      <4>1. k + 1 = n
        BY <1>4, <3>2
      <4> QED BY <1>5, <1>7, <1>12, <2>6, <4>1, Numbers
    <3> QED BY <2>2, <3>1, <3>2
  <2>9. k <= n /\ \A i \in 1..k : lengths'[i] = lengths[i]
    BY <1>4, <1>10, <2>2
  <2>10. \A j \in 1..rest : recvBuf[offset + j] = stream'[from + j]
    BY <1>9, <2>5, <2>7
  <2>11. /\ Len(frames') = k /\ Len(lengths') = n /\ EndOf(ends', k) = from
         /\ arrived' = arrived /\ recvBuf' = recvBuf /\ offset' = offset
         /\ loop' = loop /\ frames' = frames
    BY <1>8, <1>10, <2>1, <2>7
  <2>12. \A i \in 1..k : frames'[i] = [j \in 1..lengths'[i] |-> [len |-> -1, of |-> i]]
    BY <2>5, <2>9, <2>11
  <2>13. arrived' - from = rest /\ rest >= 0 /\ Len(recvBuf') = offset' + rest
    BY <2>4, <2>5, <2>11
  <2>14. \A j \in 1..rest : recvBuf'[offset' + j] = stream'[from + j]
    BY <2>10, <2>11
  <2>15. loop' # "cut" /\ k < n => arrived' < EndOf(ends', k + 1)
    BY <2>8, <2>11
  <2> QED BY <2>9, <2>11, <2>12, <2>13, <2>14, <2>15 DEF FramesIntact
<1>15. Begun' /\ SentInOrder' /\ NoLostWakeUp'
  BY <1>8, SendingKept
<1>16. TransportTypeOK'
  BY <1>1, <1>8, <1>9, <1>10, <1>11 DEF TransportTypeOK
<1> QED BY <1>13, <1>14, <1>15, <1>16 DEF IInv

\* Where the loop of on_read stands, in numbers.
LEMMA Standing ==
    ASSUME IInv
    PROVE  \E k \in Nat, from \in Nat, rest \in Nat :
              /\ k = Len(frames) /\ k <= Len(lengths) /\ k \in 0..Len(ends)
              /\ from = EndOf(ends, k) /\ arrived = from + rest
              /\ Len(recvBuf) = offset + rest
              /\ \A j \in 1..rest : recvBuf[offset + j] = stream[from + j]
              /\ \A i \in 1..k : frames[i] = [j \in 1..lengths[i] |-> [len |-> -1, of |-> i]]
<1>1. PICK k \in Nat : k = Len(frames)
  BY Numbers
<1>2. k <= Len(lengths) /\ k \in 0..Len(ends)
  BY <1>1, Numbers DEF IInv, FramesIntact, Framed
<1>3. PICK from \in Nat : from = EndOf(ends, k)
  BY <1>2, Elements
<1>4. PICK rest \in Int : rest = arrived - from
  BY Numbers
<1>5. /\ rest >= 0 /\ Len(recvBuf) = offset + rest
      /\ \A j \in 1..rest : recvBuf[offset + j] = stream[from + j]
      /\ \A i \in 1..k : frames[i] = [j \in 1..lengths[i] |-> [len |-> -1, of |-> i]]
  BY <1>1, <1>3, <1>4 DEF IInv, FramesIntact
<1>6. rest \in Nat /\ arrived = from + rest
  BY <1>4, <1>5, Numbers
<1> QED BY <1>1, <1>2, <1>3, <1>5, <1>6

\* The next frame, once a byte of it has arrived.
LEMMA NextFrame ==
    ASSUME IInv, NEW k \in Nat, NEW from \in Nat,
           k \in 0..Len(ends), from = EndOf(ends, k), k < Len(lengths) \/ from < Len(stream)
    PROVE  \E len \in Nat :
              /\ k + 1 \in 1..Len(lengths) /\ k + 1 \in 1..Frames
              /\ len = lengths[k + 1] /\ len \in Lengths
              /\ EndOf(ends, k + 1) = from + Header + len
              /\ \A j \in 1..(Header + len) : stream[from + j] = FrameBytes(k + 1, len)[j]
<1>1. Len(ends) = Len(lengths) /\ Len(lengths) <= Frames /\ Len(stream) = EndOf(ends, Len(ends))
  BY DEF IInv, Framed
<1>2. k # Len(ends)
  BY <1>1, Numbers
<1>3. k + 1 \in 1..Len(ends) /\ k + 1 \in 1..Len(lengths) /\ k + 1 \in 1..Frames
  BY <1>1, <1>2, Numbers
<1>4. (k + 1) - 1 = k
  OBVIOUS
<1>5. PICK len \in Nat : len = lengths[k + 1] /\ len \in Lengths
  BY <1>3, Elements
<1>6. /\ EndOf(ends, k + 1) = from + Header + len
      /\ \A j \in 1..(Header + len) : stream[from + j] = FrameBytes(k + 1, len)[j]
  BY <1>3, <1>4, <1>5 DEF IInv, Framed
<1> QED BY <1>3, <1>5, <1>6

\* The bytes of a read go to the end of the buffer.
LEMMA OnReadIInv ==
    ASSUME IInv, NEW n \in 1..Len(stream), OnRead(n)
    PROVE  IInv'
<1>0. /\ loop = "poll" /\ life = "open" /\ loop' = "cut" /\ offset' = 0
      /\ arrived + n <= Len(stream) /\ arrived' = arrived + n
      /\ recvBuf' = recvBuf \o SubSeq(stream, arrived + 1, arrived + n)
      /\ UNCHANGED <<life, pc, calls, sendQ, pending, local, wire, pushed>>
      /\ UNCHANGED <<stream, lengths, ends, frames>>
  BY DEF OnRead, client
<1>1. /\ TransportTypeOK /\ Framed /\ FramesIntact
      /\ recvBuf \in Seq(Bytes) /\ stream \in Seq(Bytes) /\ offset = 0
      /\ n \in Nat /\ arrived \in Nat
  BY <1>0, Numbers DEF IInv, TransportTypeOK
<1>2. PICK more \in Seq(Bytes) :
        /\ more = SubSeq(stream, arrived + 1, arrived + n) /\ Len(more) = n
        /\ \A j \in 1..n : more[j] = stream[arrived + j]
  <2>1. stream \in Seq(Bytes) /\ arrived \in Nat /\ n \in Nat /\ arrived + n <= Len(stream)
    BY <1>0, <1>1
  <2>2. /\ SubSeq(stream, arrived + 1, arrived + n) \in Seq(Bytes)
        /\ Len(SubSeq(stream, arrived + 1, arrived + n)) = n
        /\ \A j \in 1..n : SubSeq(stream, arrived + 1, arrived + n)[j] = stream[arrived + j]
    BY <2>1, SubSeqBytes
  <2> QED BY <2>2
<1>3. PICK k \in Nat, from \in Nat, rest \in Nat :
        /\ k = Len(frames) /\ k <= Len(lengths) /\ from = EndOf(ends, k) /\ arrived = from + rest
        /\ Len(recvBuf) = offset + rest
        /\ \A j \in 1..rest : recvBuf[offset + j] = stream[from + j]
        /\ \A i \in 1..k : frames[i] = [j \in 1..lengths[i] |-> [len |-> -1, of |-> i]]
  BY Standing
<1>4. /\ recvBuf' \in Seq(Bytes) /\ Len(recvBuf') = rest + n
      /\ \A j \in 1..rest : recvBuf'[j] = recvBuf[j]
      /\ \A j \in 1..n : recvBuf'[rest + j] = more[j]
  <2>1. Len(recvBuf) = rest
    BY <1>1, <1>3
  <2>2. /\ recvBuf \o more \in Seq(Bytes) /\ Len(recvBuf \o more) = Len(recvBuf) + Len(more)
        /\ \A j \in 1..Len(recvBuf) : (recvBuf \o more)[j] = recvBuf[j]
        /\ \A j \in 1..Len(more) : (recvBuf \o more)[Len(recvBuf) + j] = more[j]
    BY <1>1, ConcatBytes
  <2>3. recvBuf' = recvBuf \o more /\ Len(more) = n
    BY <1>0, <1>2
  <2> QED BY <2>1, <2>2, <2>3
<1>5. \A i : EndOf(ends', i) = EndOf(ends, i)
  BY <1>0 DEF EndOf
<1>6. Framed'
  BY <1>0, <1>1, <1>5 DEF Framed, EndOf
<1>7. FramesIntact'
  <2>1. ASSUME NEW j \in 1..(rest + n)
        PROVE  recvBuf'[0 + j] = stream[from + j]
    <3>1. CASE j <= rest
      <4>1. j \in 1..rest /\ offset + j = j /\ 0 + j = j
        BY <1>1, <3>1
      <4> QED BY <1>3, <1>4, <4>1
    <3>2. CASE j > rest
      <4>1. PICK i \in 1..n : j = rest + i /\ 0 + j = rest + i /\ arrived + i = from + j
        <5>1. j - rest \in 1..n
          BY <1>1, <3>2
        <5>2. j = rest + (j - rest) /\ arrived + (j - rest) = from + j
          BY <1>1, <1>3
        <5> QED BY <5>1, <5>2
      <4> QED BY <1>2, <1>4, <4>1
    <3> QED BY <3>1, <3>2
  <2>2. arrived' - from = rest + n /\ rest + n >= 0 /\ Len(recvBuf') = 0 + (rest + n)
    <3>1. PICK now \in Nat : now = arrived'
      BY <1>0, <1>1
    <3>2. now = arrived + n /\ arrived = from + rest /\ n \in Nat /\ Len(recvBuf') = rest + n
      BY <1>0, <1>1, <1>3, <1>4, <3>1
    <3> QED BY <3>1, <3>2
  <2> QED BY <1>0, <1>3, <1>5, <2>1, <2>2 DEF FramesIntact
<1>8. Begun' /\ SentInOrder' /\ NoLostWakeUp'
  BY <1>0, SendingKept
<1>9. TransportTypeOK'
  BY <1>0, <1>1, <1>4 DEF TransportTypeOK
<1> QED BY <1>6, <1>7, <1>8, <1>9 DEF IInv

\* If the buffer holds a header at the offset, it is that of the next frame.
LEMMA AtHeader ==
    ASSUME IInv, NEW k \in Nat, NEW from \in Nat, NEW rest \in Nat,
           k \in 0..Len(ends), from = EndOf(ends, k), arrived = from + rest, rest >= Header,
           \A j \in 1..rest : recvBuf[offset + j] = stream[from + j]
    PROVE  \E len \in Nat :
              /\ k + 1 \in 1..Len(lengths) /\ k + 1 \in 1..Frames
              /\ len = lengths[k + 1] /\ len \in Lengths
              /\ EndOf(ends, k + 1) = from + Header + len
              /\ recvBuf[offset + 1].len = len
              /\ \A j \in 1..(Header + len) : stream[from + j] = FrameBytes(k + 1, len)[j]
<1>1. from < Len(stream)
  BY Numbers DEF IInv, Framed
<1>2. PICK len \in Nat :
        /\ k + 1 \in 1..Len(lengths) /\ k + 1 \in 1..Frames
        /\ len = lengths[k + 1] /\ len \in Lengths
        /\ EndOf(ends, k + 1) = from + Header + len
        /\ \A j \in 1..(Header + len) : stream[from + j] = FrameBytes(k + 1, len)[j]
  BY <1>1, NextFrame
<1>3. 1 \in 1..rest /\ 1 \in 1..(Header + len) /\ 1 <= Header
  BY TransportAssumption
<1>4. recvBuf[offset + 1] = FrameBytes(k + 1, len)[1]
  BY <1>2, <1>3
<1>5. FrameBytes(k + 1, len)[1].len = len
  BY <1>3 DEF FrameBytes
<1> QED BY <1>2, <1>4, <1>5

\* One frame is handed on.
LEMMA CutFrameIInv ==
    ASSUME IInv, CutFrame
    PROVE  IInv'
<1>0. /\ loop = "cut" /\ Whole(recvBuf, offset)
      /\ frames' = Append(frames, Payload(recvBuf, offset)) /\ offset' = After(recvBuf, offset)
      /\ UNCHANGED <<life, pc, calls, sendQ, pending, loop, local, wire, pushed>>
      /\ UNCHANGED <<stream, lengths, ends, arrived, recvBuf>>
  BY DEF CutFrame, sending, client
<1>1. /\ TransportTypeOK /\ Framed /\ FramesIntact
      /\ frames \in Seq(Seq(Bytes)) /\ recvBuf \in Seq(Bytes)
      /\ offset \in Nat /\ Header \in Nat /\ Header > 0
  BY Numbers DEF IInv, TransportTypeOK
<1>2. PICK k \in Nat, from \in Nat, rest \in Nat :
        /\ k = Len(frames) /\ k \in 0..Len(ends) /\ from = EndOf(ends, k) /\ arrived = from + rest
        /\ Len(recvBuf) = offset + rest
        /\ \A j \in 1..rest : recvBuf[offset + j] = stream[from + j]
        /\ \A i \in 1..k : frames[i] = [j \in 1..lengths[i] |-> [len |-> -1, of |-> i]]
  BY Standing
<1>3. rest >= Header
  BY <1>0, <1>1, <1>2 DEF Whole
<1>4. PICK len \in Nat :
        /\ k + 1 \in 1..Len(lengths) /\ k + 1 \in 1..Frames
        /\ len = lengths[k + 1] /\ len \in Lengths
        /\ EndOf(ends, k + 1) = from + Header + len
        /\ recvBuf[offset + 1].len = len
        /\ \A j \in 1..(Header + len) : stream[from + j] = FrameBytes(k + 1, len)[j]
  BY <1>2, <1>3, AtHeader
<1>5. rest >= Header + len /\ offset' = offset + Header + len
  <2>1. Len(recvBuf) = offset + rest /\ recvBuf[offset + 1].len = len
    BY <1>2, <1>4
  <2>2. Len(recvBuf) - offset - Header >= len /\ offset' = offset + Header + len
    BY <1>0, <2>1 DEF Whole, After
  <2>3. offset \in Nat /\ Header \in Nat
    BY <1>1
  <2> QED BY <2>1, <2>2, <2>3
<1>6. PICK payload \in Seq(Bytes) :
        /\ payload = Payload(recvBuf, offset)
        /\ payload = [j \in 1..len |-> [len |-> -1, of |-> k + 1]]
  <2>1. PICK a \in Nat : a = offset + Header
    BY <1>1
  <2>2. a + len <= Len(recvBuf)
    BY <1>1, <1>2, <1>5, <2>1
  <2>3. PICK payload \in Seq(Bytes) :
          /\ payload = SubSeq(recvBuf, a + 1, a + len) /\ Len(payload) = len
          /\ \A j \in 1..len : payload[j] = recvBuf[a + j]
    <3>1. recvBuf \in Seq(Bytes)
      BY <1>1
    <3>2. /\ SubSeq(recvBuf, a + 1, a + len) \in Seq(Bytes)
          /\ Len(SubSeq(recvBuf, a + 1, a + len)) = len
          /\ \A j \in 1..len : SubSeq(recvBuf, a + 1, a + len)[j] = recvBuf[a + j]
      BY <2>2, <3>1, SubSeqBytes
    <3> QED BY <3>2
  <2>4. payload = Payload(recvBuf, offset)
    BY <1>4, <2>1, <2>3 DEF Payload, After
  <2>5. ASSUME NEW j \in 1..len PROVE payload[j] = [len |-> -1, of |-> k + 1]
    <3>1. PICK i \in Nat : i = Header + j
      BY <1>1
    <3>2. i \in 1..(Header + len) /\ i \in 1..rest /\ ~(i <= Header) /\ a + j = offset + i
      BY <1>1, <1>5, <2>1, <3>1
    <3>3. payload[j] = FrameBytes(k + 1, len)[i]
      <4>1. payload[j] = recvBuf[offset + i]
        BY <2>3, <3>2
      <4>2. recvBuf[offset + i] = stream[from + i]
        BY <1>2, <3>2
      <4>3. stream[from + i] = FrameBytes(k + 1, len)[i]
        BY <1>4, <3>2
      <4> QED BY <4>1, <4>2, <4>3
    <3> QED BY <3>2, <3>3 DEF FrameBytes
  <2>6. payload \in [1..len -> Bytes]
    BY <2>3, LenProperties
  <2> QED BY <2>4, <2>5, <2>6
<1>7. /\ frames' \in Seq(Seq(Bytes)) /\ Len(frames') = k + 1
      /\ \A i \in 1..k : frames'[i] = frames[i]
      /\ frames'[k + 1] = payload
  <2>1. frames \in Seq(Seq(Bytes)) /\ Len(frames) = k /\ frames' = Append(frames, payload)
    BY <1>0, <1>1, <1>2, <1>6
  <2> QED BY <2>1, AppendProperties
<1>8. \A i : EndOf(ends', i) = EndOf(ends, i)
  BY <1>0 DEF EndOf
<1>9. Framed'
  BY <1>0, <1>1, <1>8 DEF Framed, EndOf
<1>10. FramesIntact'
  <2>1. ASSUME NEW i \in 1..(k + 1)
        PROVE  frames'[i] = [j \in 1..lengths[i] |-> [len |-> -1, of |-> i]]
    <3>1. CASE i = k + 1
      BY <1>4, <1>6, <1>7, <3>1
    <3>2. CASE i \in 1..k
      BY <1>2, <1>7, <3>2
    <3> QED BY <3>1, <3>2
  <2>2. PICK to \in Nat : to = from + Header + len
    BY <1>1
  <2>3. PICK left \in Nat : rest = Header + len + left
    <3>1. rest - (Header + len) \in Nat /\ rest = Header + len + (rest - (Header + len))
      BY <1>1, <1>5
    <3> QED BY <3>1
  <2>4. PICK at \in Nat : at = offset + Header + len
    BY <1>1
  <2>5. arrived - to = left /\ Len(recvBuf) = at + left /\ left >= 0
    <3>1. arrived = from + rest /\ Len(recvBuf) = offset + rest /\ offset \in Nat /\ Header \in Nat
      BY <1>1, <1>2
    <3> QED BY <2>2, <2>3, <2>4, <3>1
  <2>6. ASSUME NEW j \in 1..left
        PROVE  recvBuf[at + j] = stream[to + j]
    <3>1. PICK i \in 1..rest : i = Header + len + j
      BY <1>1, <2>3
    <3>2. at + j = offset + i /\ to + j = from + i
      BY <1>1, <2>2, <2>4, <3>1
    <3> QED BY <1>2, <3>2
  <2>7. EndOf(ends, k + 1) = to /\ offset' = at /\ k + 1 <= Len(lengths)
    BY <1>4, <1>5, <2>2, <2>4
  <2> QED BY <1>0, <1>7, <1>8, <2>1, <2>5, <2>6, <2>7 DEF FramesIntact
<1>11. Begun' /\ SentInOrder' /\ NoLostWakeUp'
  BY <1>0, SendingKept
<1>12. TransportTypeOK'
  <2>1. offset' \in Nat
    BY <1>1, <1>5
  <2> QED BY <1>0, <1>1, <1>7, <2>1 DEF TransportTypeOK
<1> QED BY <1>9, <1>10, <1>11, <1>12 DEF IInv

\* The loop of on_read ends: less than a frame is left.
LEMMA CutRestIInv ==
    ASSUME IInv, CutRest
    PROVE  IInv'
<1>0. /\ loop = "cut" /\ loop' = "poll" /\ ~Whole(recvBuf, offset) /\ offset' = 0
      /\ recvBuf' = SubSeq(recvBuf, offset + 1, Len(recvBuf))
      /\ UNCHANGED <<life, pc, calls, sendQ, pending, local, wire, pushed>>
      /\ UNCHANGED <<stream, lengths, ends, arrived, frames>>
  BY DEF CutRest, client
<1>1. /\ TransportTypeOK /\ Framed /\ FramesIntact /\ life = "open"
      /\ recvBuf \in Seq(Bytes) /\ offset \in Nat /\ Header \in Nat /\ Header > 0
  BY <1>0, Numbers DEF IInv, TransportTypeOK
<1>2. PICK k \in Nat, from \in Nat, rest \in Nat :
        /\ k = Len(frames) /\ k <= Len(lengths) /\ k \in 0..Len(ends)
        /\ from = EndOf(ends, k) /\ arrived = from + rest
        /\ Len(recvBuf) = offset + rest
        /\ \A j \in 1..rest : recvBuf[offset + j] = stream[from + j]
        /\ \A i \in 1..k : frames[i] = [j \in 1..lengths[i] |-> [len |-> -1, of |-> i]]
  BY Standing
<1>3. /\ recvBuf' \in Seq(Bytes) /\ Len(recvBuf') = rest
      /\ \A j \in 1..rest : recvBuf'[j] = recvBuf[offset + j]
  <2>1. offset + rest <= Len(recvBuf) /\ recvBuf' = SubSeq(recvBuf, offset + 1, offset + rest)
    BY <1>0, <1>1, <1>2
  <2> QED BY <1>1, <2>1, SubSeqBytes
<1>4. k < Len(lengths) => arrived < EndOf(ends, k + 1)
  <2> SUFFICES ASSUME k < Len(lengths) PROVE arrived < EndOf(ends, k + 1)
    OBVIOUS
  <2>1. CASE rest >= Header
    <3>1. PICK len \in Nat : /\ EndOf(ends, k + 1) = from + Header + len
                             /\ recvBuf[offset + 1].len = len
      <4>1. /\ k \in 0..Len(ends) /\ from = EndOf(ends, k) /\ arrived = from + rest
            /\ \A j \in 1..rest : recvBuf[offset + j] = stream[from + j]
        BY <1>2
      <4> QED BY <2>1, <4>1, AtHeader
    <3> QED BY <1>0, <1>1, <1>2, <2>1, <3>1 DEF Whole
  <2>2. CASE ~(rest >= Header)
    <3>1. PICK len \in Nat : EndOf(ends, k + 1) = from + Header + len
      BY <1>2, NextFrame
    <3> QED BY <1>1, <1>2, <2>2, <3>1
  <2> QED BY <2>1, <2>2
<1>5. \A i : EndOf(ends', i) = EndOf(ends, i)
  BY <1>0 DEF EndOf
<1>6. Framed'
  BY <1>0, <1>1, <1>5 DEF Framed, EndOf
<1>7. FramesIntact'
  <2>1. /\ Len(recvBuf') = 0 + rest /\ rest >= 0 /\ arrived - from = rest
        /\ \A j \in 1..rest : 0 + j = j
    BY <1>2, <1>3
  <2>2. \A j \in 1..rest : recvBuf'[0 + j] = stream[from + j]
    BY <1>2, <1>3, <2>1
  <2> QED BY <1>0, <1>2, <1>4, <1>5, <2>1, <2>2 DEF FramesIntact
<1>8. Begun' /\ SentInOrder' /\ NoLostWakeUp'
  BY <1>0, <1>1, SendingKept
<1>9. TransportTypeOK'
  BY <1>0, <1>1, <1>3 DEF TransportTypeOK
<1> QED BY <1>6, <1>7, <1>8, <1>9 DEF IInv

\* Closing ends the obligations of the sending half.
LEMMA CloseIInv ==
    ASSUME IInv, OnReadError \/ OnClosed
    PROVE  IInv'
<1>0. /\ UNCHANGED <<pc, calls, sendQ, loop, local, wire, pushed, receiving>>
      /\ loop = "poll" /\ life' \in {"closing", "closed"} /\ pending' \in BOOLEAN
  BY DEF OnReadError, OnClosed, sending, IInv, TransportTypeOK
<1>1. TransportTypeOK'
  BY <1>0 DEF IInv, TransportTypeOK, receiving, client
<1>2. SentInOrder' /\ Begun'
  BY <1>0 DEF IInv, SentInOrder, Begun
<1>3. NoLostWakeUp'
  BY <1>0 DEF IInv, NoLostWakeUp
<1>4. Framed' /\ FramesIntact'
  BY <1>0, ReceivingKept
<1> QED BY <1>1, <1>2, <1>3, <1>4 DEF IInv

LEMMA NextIInv == IInv /\ [Next]_vars => IInv'
<1> SUFFICES ASSUME IInv, [Next]_vars PROVE IInv'
  OBVIOUS
<1>1. ASSUME NEW t \in Threads, SeesOpen(t) \/ SeesClosing(t) PROVE IInv'
  BY <1>1, SeesIInv
<1>2. ASSUME NEW t \in Threads, Sender(t) PROVE IInv'
  BY <1>2, PushIInv, WakeIInv DEF Sender
<1>3. CASE Flush
  BY <1>3, OnSendAsyncIInv, SwapIInv, WriteIInv, WrittenIInv DEF Flush
<1>4. CASE Cut
  BY <1>4, CutFrameIInv, CutRestIInv DEF Cut
<1>5. ASSUME NEW len \in Lengths, ClientSends(len) PROVE IInv'
  BY <1>5, ClientSendsIInv
<1>6. ASSUME NEW n \in 1..Len(stream), OnRead(n) PROVE IInv'
  BY <1>6, OnReadIInv
<1>7. CASE OnReadError \/ OnClosed
  BY <1>7, CloseIInv
<1>8. CASE UNCHANGED vars
  <2>1. UNCHANGED <<life, pc, calls, sendQ, pending, loop, local, wire, pushed, receiving>>
    BY <1>8 DEF vars, sending
  <2>2. Framed' /\ FramesIntact'
    BY <2>1, ReceivingKept
  <2> QED BY <2>1, <2>2
          DEF receiving, client, IInv, TransportTypeOK, Begun, SentInOrder, NoLostWakeUp
<1> QED BY <1>1, <1>2, <1>3, <1>4, <1>5, <1>6, <1>7, <1>8 DEF Next

LEMMA Invariance == Spec => []IInv
BY InitIInv, NextIInv, PTL DEF Spec

\* The session is well-typed; it flushes only while it is open.
THEOREM TypeCorrect == Spec => []TransportTypeOK
<1>1. IInv => TransportTypeOK
  BY DEF IInv
<1> QED BY <1>1, Invariance, PTL

\* Frames go out once and in the order of their pushes, whichever threads push
\* while flush_send_queue is under way.
THEOREM OrderCorrect == Spec => []SentInOrder
<1>1. IInv => SentInOrder
  BY DEF IInv
<1> QED BY <1>1, Invariance, PTL

\* No frame waits in send_q_ of an open session without a callback due.
THEOREM WakeUpCorrect == Spec => []NoLostWakeUp
<1>1. IInv => NoLostWakeUp
  BY DEF IInv
<1> QED BY <1>1, Invariance, PTL

\* However TCP cuts the stream, the payloads handed on are those of the client,
\* in order and whole, and none that has arrived is kept back.
THEOREM FramingCorrect == Spec => []FramesIntact
<1>1. IInv => FramesIntact
  BY DEF IInv
<1> QED BY <1>1, Invariance, PTL

=============================================================================
