------------------------ MODULE ServerNetchanProofs ------------------------
(***************************************************************************)
(* Proofs about ServerNetchan, for every fragment size, message length,    *)
(* and number of messages.  The inductive invariant says how the sender's  *)
(* history, the datagrams on the network and the reassembly buffer hang    *)
(* together; integrity, order and the refinement of LossyChannel follow.   *)
(***************************************************************************)
EXTENDS ServerNetchan, TLAPS

(***************************************************************************)
(* The sender: which message a sequence number stands for.                 *)
(***************************************************************************)
OutInv ==
    IF out.unsentFragments
    THEN /\ Len(sent) = out.outgoingSequence
         /\ Len(sent) > 0
         /\ out.unsentMsg = sent[Len(sent)]
         /\ out.unsentFragmentStart \in FragmentStarts
         /\ out.unsentFragmentStart <= out.unsentMsg.length
    ELSE Len(sent) = out.outgoingSequence - 1

(***************************************************************************)
(* The histories: sent, then queue, is a subsequence of accepted.          *)
(***************************************************************************)
OrderInv ==
    /\ \A i \in 1 .. Len(accepted) : accepted[i].id = i
    /\ \A s \in 1 .. Len(sent) :
            sent[s].id \in 1 .. Len(accepted) /\ sent[s] = accepted[sent[s].id]
    /\ \A i \in 1 .. Len(queue) :
            queue[i].id \in 1 .. Len(accepted) /\ queue[i] = accepted[queue[i].id]
    /\ \A s, t \in 1 .. Len(sent) : s < t => sent[s].id < sent[t].id
    /\ \A i, j \in 1 .. Len(queue) : i < j => queue[i].id < queue[j].id
    /\ \A s \in 1 .. Len(sent), i \in 1 .. Len(queue) : sent[s].id < queue[i].id

(***************************************************************************)
(* A datagram carries a piece of the message its sequence number stands    *)
(* for, and a fragment that is not full is the end of it.                  *)
(***************************************************************************)
GoodFragment(p) ==
    /\ p.chunk.start \in FragmentStarts
    /\ p.fragmentStart = Short(p.chunk.start)
    /\ p.fragmentLength = p.chunk.len
    /\ p.chunk.len <= FRAGMENT_SIZE
    /\ p.chunk.start + p.chunk.len <= p.chunk.msg.length
    /\ p.chunk.len = FRAGMENT_SIZE \/ p.chunk.start + p.chunk.len = p.chunk.msg.length

GoodPlain(p) ==
    /\ p.chunk.start = 0
    /\ p.chunk.len = p.chunk.msg.length

GoodPacket(p) == IF p.fragmented THEN GoodFragment(p) ELSE GoodPlain(p)

NetInv ==
    \A p \in net :
        /\ p.sequence \in 1 .. Len(sent)
        /\ p.chunk.msg = sent[p.sequence]
        /\ GoodPacket(p)

(***************************************************************************)
(* The reassembly buffer holds the beginning of one message.               *)
(***************************************************************************)
Beginning(buffer, length, msg) ==
    LET n == Len(buffer)
    IN  /\ n > 0
        /\ buffer[1].start = 0
        /\ \A i \in 1 .. n : buffer[i].msg = msg
        /\ \A i \in 1 .. n - 1 : buffer[i + 1].start = buffer[i].start + buffer[i].len
        /\ buffer[n].start + buffer[n].len = length

GoodIn(chan) ==
    /\ chan \in InType
    /\ chan.fragmentLength \in FragmentStarts
    /\ \/ chan.fragmentBuffer = << >> /\ chan.fragmentLength = 0
       \/ /\ chan.fragmentSequence \in 1 .. Len(sent)
          /\ Beginning(chan.fragmentBuffer, chan.fragmentLength, sent[chan.fragmentSequence])

InInv == GoodIn(in) /\ in.incomingSequence \in 0 .. Len(sent)

(***************************************************************************)
(* The messages delivered, the last of them with incomingSequence.         *)
(***************************************************************************)
DeliveredInv ==
    /\ DeliveredIntact
    /\ DeliveredInOrder
    /\ IF in.incomingSequence = 0
       THEN delivered = << >>
       ELSE /\ Len(delivered) > 0
            /\ delivered[Len(delivered)] = sent[in.incomingSequence]

IInv == TypeOK /\ OutInv /\ OrderInv /\ NetInv /\ InInv /\ DeliveredInv
-----------------------------------------------------------------------------
(***************************************************************************)
(* Offsets.                                                                *)
(***************************************************************************)
LEMMA SizeType ==
  /\ FRAGMENT_SIZE \in Nat
  /\ FRAGMENT_SIZE > 0
  /\ FRAGMENT_SIZE <= 32767
  /\ MAX_MSGLEN \in Nat
  BY NetchanAssumption

(***************************************************************************)
(* Fragment offsets are natural numbers.                                   *)
(***************************************************************************)
LEMMA StartsAreNat == FragmentStarts \subseteq Nat
  BY SizeType, MaxFragmentsAssumption DEF FragmentStarts

(***************************************************************************)
(* The first fragment of a message starts at offset 0.                     *)
(***************************************************************************)
LEMMA ZeroIsStart == 0 \in FragmentStarts
<1>1. 0 \in 0 .. MaxFragments /\ 0 = 0 * FRAGMENT_SIZE
  BY SizeType, MaxFragmentsAssumption
<1> QED
  BY <1>1 DEF FragmentStarts

(***************************************************************************)
(* The offset after a full fragment is an offset again, as long as the     *)
(* message is not longer than MAX_MSGLEN.                                  *)
(***************************************************************************)
LEMMA NextStart ==
  ASSUME NEW s \in FragmentStarts, s + FRAGMENT_SIZE <= MAX_MSGLEN
  PROVE  s + FRAGMENT_SIZE \in FragmentStarts
<1>1. PICK k \in 0 .. MaxFragments : s = k * FRAGMENT_SIZE
  BY DEF FragmentStarts
<1>2. s + FRAGMENT_SIZE = (k + 1) * FRAGMENT_SIZE
  BY <1>1, SizeType, MaxFragmentsAssumption
<1>3. k # MaxFragments
  BY <1>1, <1>2, SizeType, MaxFragmentsAssumption
<1>4. k + 1 \in 0 .. MaxFragments
  BY <1>3, SizeType, MaxFragmentsAssumption
<1> QED
  BY <1>2, <1>4 DEF FragmentStarts
-----------------------------------------------------------------------------
(***************************************************************************)
(* What the transmitting operators return.                                 *)
(***************************************************************************)
LEMMA FragmentIsGood ==
  ASSUME NEW seq \in Nat, NEW msg \in Message,
         NEW start \in FragmentStarts, start <= msg.length
  PROVE  LET p == FragmentPacket(seq, msg, start)
         IN  p \in Packet /\ p.sequence = seq /\ p.chunk.msg = msg /\ GoodPacket(p)
<1> DEFINE len == FragmentLen(msg, start)
           p == FragmentPacket(seq, msg, start)
<1>1. start \in Nat /\ msg.length \in Nat
  BY StartsAreNat, SizeType DEF Message
<1>2. /\ len \in Nat
      /\ len <= FRAGMENT_SIZE
      /\ start + len <= msg.length
      /\ len = FRAGMENT_SIZE \/ start + len = msg.length
  BY <1>1, SizeType DEF FragmentLen
<1>3. Short(len) = len /\ Short(start) \in Int
  <2> HIDE DEF len
  <2>1. len \in Nat /\ len <= 32767
    BY <1>2, SizeType
  <2>2. Short(len) = len
    BY <2>1 DEF Short
  <2>3. Short(start) \in Int
    BY <1>1 DEF Short
  <2> QED
    BY <2>2, <2>3
<1>4. p.chunk = [msg |-> msg, start |-> start, len |-> len] /\ p.chunk \in Chunk
  BY <1>1, <1>2, SizeType DEF FragmentPacket, Chunk
<1>5. p \in Packet
  <2> HIDE DEF len
  <2>1. len \in Int
    BY <1>2
  <2> QED
    BY <1>3, <1>4, <2>1 DEF FragmentPacket, Packet, len
<1>6. GoodPacket(p)
  BY <1>2, <1>3, <1>4 DEF FragmentPacket, GoodPacket, GoodFragment
<1> QED
  BY <1>4, <1>5, <1>6 DEF FragmentPacket

(***************************************************************************)
(* A packet that is not a fragment carries its whole message.              *)
(***************************************************************************)
LEMMA PlainIsGood ==
  ASSUME NEW seq \in Nat, NEW msg \in Message
  PROVE  LET p == PlainPacket(seq, msg)
         IN  p \in Packet /\ p.sequence = seq /\ p.chunk.msg = msg /\ GoodPacket(p)
  BY DEF PlainPacket, Packet, Chunk, Message, GoodPacket, GoodPlain

(***************************************************************************)
(* Netchan_TransmitNextFragment either gives the sequence number up or     *)
(* stays at it with the next offset of the same message.                   *)
(***************************************************************************)
LEMMA NextFragmentAdvances ==
  ASSUME NEW chan \in OutType, chan.unsentFragments,
         chan.unsentFragmentStart \in FragmentStarts,
         chan.unsentFragmentStart <= chan.unsentMsg.length
  PROVE  LET next == AfterNextFragment(chan)
         IN  /\ next \in OutType
             /\ \/ ~next.unsentFragments /\ next.outgoingSequence = chan.outgoingSequence + 1
                \/ /\ next.unsentFragments
                   /\ next.outgoingSequence = chan.outgoingSequence
                   /\ next.unsentMsg = chan.unsentMsg
                   /\ next.unsentFragmentStart \in FragmentStarts
                   /\ next.unsentFragmentStart <= next.unsentMsg.length
<1> DEFINE start == chan.unsentFragmentStart
           msg == chan.unsentMsg
           len == FragmentLen(msg, start)
           final == IsFinal(msg, start)
           next == AfterNextFragment(chan)
<1>1. /\ start \in Nat
      /\ msg.length \in 0 .. MAX_MSGLEN
      /\ chan.outgoingSequence \in Nat
      /\ chan.outgoingSequence + 1 \in Nat
  BY DEF OutType, Message
<1>2. len \in Nat /\ start + len <= msg.length /\ start + len \in Nat
  BY <1>1, SizeType DEF FragmentLen
<1>3. ~final => len = FRAGMENT_SIZE
  BY <1>1, SizeType DEF FragmentLen, IsFinal
<1>5. CASE final
  <2>1. next = [chan EXCEPT !.unsentFragmentStart = start + len,
                            !.outgoingSequence = chan.outgoingSequence + 1,
                            !.unsentFragments = FALSE]
    BY <1>5 DEF AfterNextFragment
  <2>2. next \in OutType /\ ~next.unsentFragments
        /\ next.outgoingSequence = chan.outgoingSequence + 1
    <3> HIDE DEF len, final, next
    <3> QED
      BY <1>1, <1>2, <2>1 DEF OutType
  <2> HIDE DEF next
  <2> QED
    BY <2>2 DEF next
<1>6. CASE ~final
  <2>1. next = [chan EXCEPT !.unsentFragmentStart = start + len,
                            !.outgoingSequence = chan.outgoingSequence,
                            !.unsentFragments = TRUE]
    BY <1>6 DEF AfterNextFragment
  <2>2. start + len \in FragmentStarts
    BY <1>1, <1>2, <1>3, <1>6, NextStart, SizeType
  <2>3. /\ next \in OutType
        /\ next.unsentFragments
        /\ next.outgoingSequence = chan.outgoingSequence
        /\ next.unsentMsg = msg
        /\ next.unsentFragmentStart = start + len
    <3> HIDE DEF len, final, next
    <3> QED
      BY <1>1, <1>2, <2>1 DEF OutType
  <2> HIDE DEF len
  <2> QED
    BY <1>2, <2>2, <2>3
<1> QED
  BY <1>5, <1>6

(***************************************************************************)
(* Netchan_Transmit on a channel with no unsent fragments: the packet is   *)
(* good, and a message longer than it stays the current one.               *)
(***************************************************************************)
LEMMA TransmitIsGood ==
  ASSUME NEW chan \in OutType, ~chan.unsentFragments, NEW msg \in Message
  PROVE  LET next == AfterTransmit(chan, msg)
             p == TransmitPacket(chan, msg)
         IN  /\ next \in OutType
             /\ \/ ~next.unsentFragments /\ next.outgoingSequence = chan.outgoingSequence + 1
                \/ /\ next.unsentFragments
                   /\ next.outgoingSequence = chan.outgoingSequence
                   /\ next.unsentMsg = msg
                   /\ next.unsentFragmentStart \in FragmentStarts
                   /\ next.unsentFragmentStart <= msg.length
             /\ p \in Packet
             /\ p.sequence = chan.outgoingSequence
             /\ p.chunk.msg = msg
             /\ GoodPacket(p)
<1> DEFINE loaded == Loaded(chan, msg)
<1>1. /\ loaded \in OutType
      /\ loaded.unsentFragments
      /\ loaded.unsentFragmentStart = 0
      /\ loaded.unsentMsg = msg
      /\ loaded.outgoingSequence = chan.outgoingSequence
  BY DEF Loaded, OutType
<1>2. /\ chan.outgoingSequence \in Nat
      /\ chan.outgoingSequence + 1 \in Nat
      /\ msg.length \in Nat
      /\ loaded.unsentFragmentStart <= msg.length
  BY <1>1, SizeType DEF OutType, Message
<1>3. CASE msg.length >= FRAGMENT_SIZE
  <2>1. /\ AfterTransmit(chan, msg) = AfterNextFragment(loaded)
        /\ TransmitPacket(chan, msg) = FragmentPacket(chan.outgoingSequence, msg, 0)
    <3> HIDE DEF loaded
    <3> QED
      BY <1>1, <1>3 DEF AfterTransmit, TransmitPacket, NextFragment, loaded
  <2> HIDE DEF loaded
  <2> QED
    BY <1>1, <1>2, <2>1, NextFragmentAdvances, FragmentIsGood, ZeroIsStart
<1>4. CASE ~(msg.length >= FRAGMENT_SIZE)
  <2>1. /\ AfterTransmit(chan, msg) = [chan EXCEPT !.unsentFragmentStart = 0,
                                                   !.outgoingSequence = @ + 1]
        /\ TransmitPacket(chan, msg) = PlainPacket(chan.outgoingSequence, msg)
    BY <1>4 DEF AfterTransmit, TransmitPacket
  <2> DEFINE next == AfterTransmit(chan, msg)
  <2>2. next = [chan EXCEPT !.unsentFragmentStart = 0,
                            !.outgoingSequence = chan.outgoingSequence + 1]
    BY <2>1
  <2>3. /\ next \in OutType
        /\ ~next.unsentFragments
        /\ next.outgoingSequence = chan.outgoingSequence + 1
    <3> HIDE DEF next, loaded
    <3> QED
      BY <1>2, <2>2 DEF OutType
  <2> QED
    BY <1>2, <2>1, <2>3, PlainIsGood
<1> QED
  BY <1>3, <1>4
-----------------------------------------------------------------------------
(***************************************************************************)
(* What the receiving operators return, for a good packet of a message in  *)
(* sent.                                                                   *)
(***************************************************************************)
LEMMA RestartedIsGood ==
  ASSUME NEW p \in Packet, NEW chan, GoodIn(chan)
  PROVE  LET c == Restarted(chan, p)
         IN  /\ GoodIn(c)
             /\ c.fragmentSequence = p.sequence
             /\ c.incomingSequence = chan.incomingSequence
<1> DEFINE c == Restarted(chan, p)
<1>1. CASE p.sequence = chan.fragmentSequence
  BY <1>1 DEF Restarted
<1>2. CASE p.sequence # chan.fragmentSequence
  <2>1. c = [chan EXCEPT !.fragmentSequence = p.sequence,
                         !.fragmentLength = 0, !.fragmentBuffer = << >>]
    BY <1>2 DEF Restarted
  <2>2. chan \in InType /\ p.sequence \in Nat /\ << >> \in Seq(Chunk)
    BY DEF GoodIn, Packet
  <2>3. /\ c \in InType
        /\ c.fragmentSequence = p.sequence
        /\ c.fragmentLength = 0
        /\ c.fragmentBuffer = << >>
        /\ c.incomingSequence = chan.incomingSequence
    <3> HIDE DEF c
    <3> QED
      BY <2>1, <2>2 DEF InType
  <2> QED
    BY <2>3, ZeroIsStart DEF GoodIn
<1> QED
  BY <1>1, <1>2

(***************************************************************************)
(* A fragment that fits continues the message in the buffer: it begins     *)
(* where the buffer ends, because its offset survived the 16 bits.         *)
(***************************************************************************)
LEMMA FilledContinues ==
  ASSUME TypeOK,
         NEW p \in Packet, p.fragmented, GoodPacket(p),
         p.sequence \in 1 .. Len(sent), p.chunk.msg = sent[p.sequence],
         NEW chan, GoodIn(chan), chan.fragmentSequence = p.sequence,
         Fits(chan, p)
  PROVE  LET c == Filled(chan, p)
         IN  /\ c \in InType
             /\ c.fragmentSequence = p.sequence
             /\ c.incomingSequence = chan.incomingSequence
             /\ c.fragmentLength = p.chunk.start + p.chunk.len
             /\ Beginning(c.fragmentBuffer, c.fragmentLength, p.chunk.msg)
<1> DEFINE c == Filled(chan, p)
           b == chan.fragmentBuffer
           start == p.chunk.start
           len == p.chunk.len
<1>1. chan \in InType /\ b \in Seq(Chunk) /\ chan.fragmentLength \in Nat
  BY DEF GoodIn, InType
<1>2. p.chunk \in Chunk /\ start \in Nat /\ len \in Nat
  BY DEF Packet, Chunk
<1>3. start = chan.fragmentLength
  <2>1. start \in FragmentStarts /\ chan.fragmentLength \in FragmentStarts
    BY DEF GoodPacket, GoodFragment, GoodIn
  <2>2. Short(start) = chan.fragmentLength
    BY DEF GoodPacket, GoodFragment, Fits
  <2> HIDE DEF start
  <2> QED
    BY <2>1, <2>2, OffsetAssumption
<1>4. p.fragmentLength = len
  BY DEF GoodPacket, GoodFragment
<1>5. c = [chan EXCEPT !.fragmentBuffer = Append(b, p.chunk),
                       !.fragmentLength = start + len]
  BY <1>3, <1>4 DEF Filled
<1>6. Append(b, p.chunk) \in Seq(Chunk) /\ start + len \in Nat
  <2> HIDE DEF b, start, len
  <2>1. Append(b, p.chunk) \in Seq(Chunk)
    BY <1>1, <1>2
  <2>2. start + len \in Nat
    BY <1>2
  <2> QED
    BY <2>1, <2>2
<1>7. /\ c \in InType
      /\ c.fragmentSequence = p.sequence
      /\ c.incomingSequence = chan.incomingSequence
      /\ c.fragmentLength = start + len
      /\ c.fragmentBuffer = Append(b, p.chunk)
  <2> HIDE DEF c, b, start, len
  <2> QED
    BY <1>1, <1>5, <1>6 DEF InType
<1>8. Beginning(Append(b, p.chunk), start + len, p.chunk.msg)
  <2> DEFINE n == Len(b)
             new == Append(b, p.chunk)
  <2>1. /\ n \in Nat
        /\ Len(new) = n + 1
        /\ new[n + 1] = p.chunk
        /\ \A i \in 1 .. n : new[i] = b[i]
    BY <1>1, <1>2
  <2>2. CASE b = << >> /\ chan.fragmentLength = 0
    BY <1>3, <2>1, <2>2 DEF Beginning
  <2>3. CASE Beginning(b, chan.fragmentLength, sent[chan.fragmentSequence])
    <3>1. /\ n > 0
          /\ b[1].start = 0
          /\ \A i \in 1 .. n : b[i].msg = p.chunk.msg
          /\ \A i \in 1 .. n - 1 : b[i + 1].start = b[i].start + b[i].len
          /\ b[n].start + b[n].len = start
      BY <1>3, <2>3 DEF Beginning
    <3> HIDE DEF new, n
    <3>2. \A i \in 1 .. n + 1 : new[i].msg = p.chunk.msg
      BY <2>1, <3>1
    <3>3. \A i \in 1 .. n : new[i + 1].start = new[i].start + new[i].len
      <4> SUFFICES ASSUME NEW i \in 1 .. n
                   PROVE  new[i + 1].start = new[i].start + new[i].len
        OBVIOUS
      <4>1. CASE i = n
        BY <2>1, <3>1, <4>1
      <4>2. CASE i # n
        <5>1. i \in 1 .. n - 1 /\ i + 1 \in 1 .. n
          BY <2>1, <4>2
        <5> QED
          BY <2>1, <3>1, <5>1
      <4> QED
        BY <4>1, <4>2
    <3>4. new[1].start = 0 /\ n + 1 > 0 /\ (n + 1) - 1 = n
      BY <2>1, <3>1
    <3> USE DEF new
    <3> QED
      BY <2>1, <3>2, <3>3, <3>4 DEF Beginning
  <2> QED
    BY <2>2, <2>3 DEF GoodIn
<1> QED
  BY <1>7, <1>8

(***************************************************************************)
(* A beginning as long as the message is the message.                      *)
(***************************************************************************)
LEMMA WholeIsReassembled ==
  ASSUME NEW buffer, NEW msg, Len(buffer) \in Nat, Beginning(buffer, msg.length, msg)
  PROVE  Reassembled(buffer) = msg
<1>1. Whole(buffer, msg)
  BY DEF Whole, Beginning
<1>2. buffer[1].msg = msg
  BY DEF Beginning
<1> QED
  BY <1>1, <1>2 DEF Reassembled

(***************************************************************************)
(* Netchan_Process on a packet of the network: either nothing is           *)
(* delivered, or it is the message of a newer sequence number.             *)
(***************************************************************************)
LEMMA ProcessIsGood ==
  ASSUME TypeOK, InInv,
         NEW p \in Packet, GoodPacket(p),
         p.sequence \in 1 .. Len(sent), p.chunk.msg = sent[p.sequence]
  PROVE  LET next == AfterProcess(in, p)
         IN  /\ GoodIn(next)
             /\ IF Delivers(in, p)
                THEN /\ DeliveredMessage(in, p) = sent[p.sequence]
                     /\ next.incomingSequence = p.sequence
                     /\ p.sequence > in.incomingSequence
                ELSE next.incomingSequence = in.incomingSequence
<1> DEFINE next == AfterProcess(in, p)
           c == Restarted(in, p)
           f == Filled(c, p)
<1>1. /\ in \in InType
      /\ in.incomingSequence \in Nat
      /\ p.sequence \in Nat
      /\ p.chunk.msg \in Message
      /\ p.chunk \in Chunk
  BY DEF TypeOK, InType, Packet, Chunk
<1>2. /\ GoodIn(c)
      /\ c.fragmentSequence = p.sequence
      /\ c.incomingSequence = in.incomingSequence
  BY RestartedIsGood DEF InInv
<1>3. CASE Stale(in, p)
  BY <1>3 DEF AfterProcess, Delivers, InInv
<1>4. CASE ~Stale(in, p) /\ ~p.fragmented
  <2>1. p.sequence > in.incomingSequence
    BY <1>1, <1>4 DEF Stale
  <2>2. Delivers(in, p) /\ DeliveredMessage(in, p) = Reassembled(<< p.chunk >>)
    BY <1>4 DEF Delivers, DeliveredMessage
  <2>3. next = [in EXCEPT !.incomingSequence = p.sequence]
    BY <1>4 DEF AfterProcess
  <2>4. Beginning(<< p.chunk >>, p.chunk.msg.length, p.chunk.msg)
    BY <1>1, <1>4 DEF Beginning, GoodPacket, GoodPlain, Message, Chunk
  <2>5. Reassembled(<< p.chunk >>) = p.chunk.msg
    BY <2>4, WholeIsReassembled
  <2>6. /\ next \in InType
        /\ next.incomingSequence = p.sequence
        /\ next.fragmentSequence = in.fragmentSequence
        /\ next.fragmentLength = in.fragmentLength
        /\ next.fragmentBuffer = in.fragmentBuffer
    <3> HIDE DEF next
    <3> QED
      BY <1>1, <2>3 DEF InType
  <2>7. GoodIn(next)
    BY <2>6 DEF GoodIn, InInv
  <2> QED
    BY <2>1, <2>2, <2>5, <2>6, <2>7
<1>5. CASE ~Stale(in, p) /\ p.fragmented /\ ~Fits(c, p)
  BY <1>2, <1>5 DEF AfterProcess, Delivers
<1>6. CASE ~Stale(in, p) /\ p.fragmented /\ Fits(c, p)
  <2>1. /\ f \in InType
        /\ f.fragmentSequence = p.sequence
        /\ f.incomingSequence = in.incomingSequence
        /\ f.fragmentLength = p.chunk.start + p.chunk.len
        /\ Beginning(f.fragmentBuffer, f.fragmentLength, p.chunk.msg)
    BY <1>2, <1>6, FilledContinues
  <2>2. /\ p.fragmentLength = p.chunk.len
        /\ p.chunk.start \in FragmentStarts
        /\ p.chunk.start + p.chunk.len <= p.chunk.msg.length
        /\ p.chunk.len = FRAGMENT_SIZE \/ p.chunk.start + p.chunk.len = p.chunk.msg.length
    BY <1>6 DEF GoodPacket, GoodFragment
  <2>3. CASE p.fragmentLength = FRAGMENT_SIZE
    <3>1. next = f /\ ~Delivers(in, p)
      BY <1>6, <2>3 DEF AfterProcess, Delivers
    <3>2. p.chunk.msg.length \in 0 .. MAX_MSGLEN /\ p.chunk.start \in Nat
      BY <1>1 DEF Message, Chunk
    <3>3. p.chunk.start + FRAGMENT_SIZE <= MAX_MSGLEN
      BY SMTT(20), <2>2, <2>3, <3>2, SizeType
    <3>4. f.fragmentLength \in FragmentStarts
      BY <2>1, <2>2, <2>3, <3>3, NextStart
    <3>5. GoodIn(f)
      BY <2>1, <3>4 DEF GoodIn
    <3> QED
      BY <2>1, <3>1, <3>5
  <2>4. CASE p.fragmentLength # FRAGMENT_SIZE
    <3>1. Delivers(in, p) /\ DeliveredMessage(in, p) = Reassembled(f.fragmentBuffer)
      BY <1>6, <2>4 DEF Delivers, DeliveredMessage
    <3>2. Len(f.fragmentBuffer) \in Nat
      BY <2>1 DEF InType
    <3>3. Reassembled(f.fragmentBuffer) = p.chunk.msg
      BY <2>1, <2>2, <2>4, <3>2, WholeIsReassembled
    <3>4. next = [c EXCEPT !.fragmentLength = 0, !.fragmentBuffer = << >>,
                           !.incomingSequence = p.sequence]
      BY <1>6, <2>4 DEF AfterProcess
    <3>5. c \in InType /\ << >> \in Seq(Chunk)
      BY <1>2 DEF GoodIn
    <3>6. /\ next \in InType
          /\ next.incomingSequence = p.sequence
          /\ next.fragmentLength = 0
          /\ next.fragmentBuffer = << >>
      <4> HIDE DEF next, c
      <4> QED
        BY <1>1, <3>4, <3>5 DEF InType
    <3>7. GoodIn(next)
      BY <3>6, ZeroIsStart DEF GoodIn
    <3>8. p.sequence > in.incomingSequence
      BY <1>1, <1>6 DEF Stale
    <3> QED
      BY <3>1, <3>3, <3>6, <3>7, <3>8
  <2> QED
    BY <2>3, <2>4
<1> QED
  BY <1>3, <1>4, <1>5, <1>6
-----------------------------------------------------------------------------
(***************************************************************************)
(* What the parts of the invariant that speak of the histories keep when   *)
(* the histories only grow.                                                *)
(***************************************************************************)
Grows(old, new) ==
    /\ Len(old) <= Len(new)
    /\ \A i \in 1 .. Len(old) : new[i] = old[i]

(***************************************************************************)
(* Appending grows a sequence.                                             *)
(***************************************************************************)
LEMMA AppendGrows ==
  ASSUME NEW S, NEW seq \in Seq(S), NEW e \in S
  PROVE  /\ Append(seq, e) \in Seq(S)
         /\ Len(Append(seq, e)) = Len(seq) + 1
         /\ Append(seq, e)[Len(seq) + 1] = e
         /\ Grows(seq, Append(seq, e))
  BY DEF Grows

(***************************************************************************)
(* A sequence grows into itself.                                           *)
(***************************************************************************)
LEMMA SameGrows ==
  ASSUME NEW S, NEW seq \in Seq(S)
  PROVE  Grows(seq, seq)
  BY DEF Grows

(***************************************************************************)
(* The receiver does not notice what is transmitted.                       *)
(***************************************************************************)
LEMMA InInvKept ==
  ASSUME TypeOK, sent' \in Seq(Message), InInv, UNCHANGED in, Grows(sent, sent')
  PROVE  InInv'
<1>1. /\ \A s \in 1 .. Len(sent) : s \in 1 .. Len(sent') /\ sent'[s] = sent[s]
      /\ 0 .. Len(sent) \subseteq 0 .. Len(sent')
  BY DEF TypeOK, Grows
<1> QED
  BY <1>1 DEF InInv, GoodIn

(***************************************************************************)
(* What was delivered stays delivered when the sender goes on.             *)
(***************************************************************************)
LEMMA DeliveredInvKept ==
  ASSUME TypeOK, sent' \in Seq(Message), accepted' \in Seq(Message),
         InInv, DeliveredInv, UNCHANGED <<in, delivered>>,
         Grows(sent, sent'), Grows(accepted, accepted')
  PROVE  DeliveredInv'
<1>1. in.incomingSequence # 0 => sent'[in.incomingSequence] = sent[in.incomingSequence]
  BY DEF TypeOK, InInv, Grows
<1>2. \A i \in 1 .. Len(accepted) : i \in 1 .. Len(accepted') /\ accepted'[i] = accepted[i]
  BY DEF TypeOK, Grows
<1> QED
  BY <1>1, <1>2 DEF DeliveredInv, DeliveredIntact, DeliveredInOrder

(***************************************************************************)
(* A good packet may join the network.                                     *)
(***************************************************************************)
LEMMA NetInvKept ==
  ASSUME TypeOK, sent' \in Seq(Message), NetInv, Grows(sent, sent'),
         NEW q, net' = net \cup {q},
         q.sequence \in 1 .. Len(sent'), q.chunk.msg = sent'[q.sequence], GoodPacket(q)
  PROVE  NetInv'
<1>1. \A s \in 1 .. Len(sent) : s \in 1 .. Len(sent') /\ sent'[s] = sent[s]
  BY DEF TypeOK, Grows
<1> QED
  BY <1>1 DEF NetInv, GoodPacket, GoodFragment, GoodPlain

(***************************************************************************)
(* A transmission of m, the successor of everything in sent.               *)
(***************************************************************************)
LEMMA TransmitKeeps ==
  ASSUME IInv, ~out.unsentFragments, NEW m \in Message, Transmit(m)
  PROVE  /\ out' \in OutType
         /\ net' \subseteq Packet
         /\ sent' \in Seq(Message)
         /\ Grows(sent, sent')
         /\ Len(sent') = Len(sent) + 1
         /\ sent'[Len(sent) + 1] = m
         /\ OutInv'
         /\ NetInv'
<1> DEFINE p == TransmitPacket(out, m)
<1>1. out \in OutType /\ sent \in Seq(Message) /\ Len(sent) = out.outgoingSequence - 1
  BY DEF IInv, TypeOK, OutInv
<1>2. /\ sent' \in Seq(Message)
      /\ Grows(sent, sent')
      /\ Len(sent') = Len(sent) + 1
      /\ sent'[Len(sent) + 1] = m
  BY <1>1, AppendGrows DEF Transmit
<1>3. /\ out' \in OutType
      /\ \/ ~out'.unsentFragments /\ out'.outgoingSequence = out.outgoingSequence + 1
         \/ /\ out'.unsentFragments
            /\ out'.outgoingSequence = out.outgoingSequence
            /\ out'.unsentMsg = m
            /\ out'.unsentFragmentStart \in FragmentStarts
            /\ out'.unsentFragmentStart <= m.length
      /\ p \in Packet
      /\ p.sequence = out.outgoingSequence
      /\ p.chunk.msg = m
      /\ GoodPacket(p)
  BY <1>1, TransmitIsGood DEF Transmit
<1>4. out.outgoingSequence \in Nat /\ Len(sent) \in Nat
      /\ out.outgoingSequence = Len(sent) + 1
  BY <1>1 DEF OutType
<1>5. OutInv'
  BY <1>2, <1>3, <1>4 DEF OutInv
<1>6. net' = net \cup {p}
  BY DEF Transmit
<1>7. p.sequence \in 1 .. Len(sent') /\ p.chunk.msg = sent'[p.sequence]
  BY <1>2, <1>3, <1>4
<1>8. NetInv'
  <2> HIDE DEF p
  <2> QED
    BY <1>2, <1>3, <1>6, <1>7, NetInvKept DEF IInv
<1>9. net' \subseteq Packet
  BY <1>3, <1>6 DEF IInv, TypeOK
<1> QED
  BY <1>2, <1>3, <1>5, <1>8, <1>9

(***************************************************************************)
(* The state after Netchan_Setup satisfies the inductive invariant.        *)
(***************************************************************************)
THEOREM Initial == Init => IInv
<1> SUFFICES ASSUME Init
             PROVE  IInv
  OBVIOUS
<1>1. TypeOK
  BY SizeType DEF Init, TypeOK, SetupOut, SetupIn, OutType, InType, Message, Corrupt
<1>2. OutInv /\ OrderInv /\ NetInv
  BY DEF Init, OutInv, OrderInv, NetInv, SetupOut
<1>3. InInv
  BY <1>1, ZeroIsStart DEF Init, InInv, GoodIn, SetupIn, TypeOK
<1>4. DeliveredInv
  BY DEF Init, DeliveredInv, DeliveredIntact, DeliveredInOrder, SetupIn
<1> QED
  BY <1>1, <1>2, <1>3, <1>4 DEF IInv
-----------------------------------------------------------------------------
(***************************************************************************)
(* One lemma per action.                                                   *)
(***************************************************************************)
LEMMA AcceptStep ==
  ASSUME IInv, NEW len \in Lengths, SV_Netchan_Transmit(len)
  PROVE  IInv'
<1> DEFINE m == [id |-> Len(accepted) + 1, length |-> len]
<1>1. m \in Message /\ accepted \in Seq(Message) /\ accepted' = Append(accepted, m)
      /\ sent \in Seq(Message) /\ queue \in Seq(Message) /\ Len(accepted) \in Nat
  BY ServerNetchanAssumption DEF IInv, TypeOK, SV_Netchan_Transmit, Message
<1>2. /\ accepted' \in Seq(Message)
      /\ Len(accepted') = Len(accepted) + 1
      /\ accepted'[Len(accepted) + 1] = m
      /\ Grows(accepted, accepted')
  <2> HIDE DEF m
  <2> QED
    BY <1>1, AppendGrows
<1>3. /\ m.id = Len(accepted) + 1
      /\ m.id \in 1 .. Len(accepted')
      /\ accepted'[m.id] = m
      /\ \A i \in 1 .. Len(accepted') : accepted'[i].id = i
      /\ \A i \in 1 .. Len(accepted) : i \in 1 .. Len(accepted') /\ accepted'[i] = accepted[i] /\ i < m.id
  BY <1>1, <1>2 DEF Grows, IInv, OrderInv
<1>4. UNCHANGED <<in, delivered>>
  BY DEF SV_Netchan_Transmit
<1> HIDE DEF m
<1>5. CASE Busy
  <2>1. queue' = Append(queue, m) /\ UNCHANGED <<out, net, sent>>
    BY <1>5 DEF SV_Netchan_Transmit, m
  <2>2. /\ queue' \in Seq(Message)
        /\ Len(queue') = Len(queue) + 1
        /\ queue'[Len(queue) + 1] = m
        /\ Grows(queue, queue')
    BY <1>1, <2>1, AppendGrows
  <2>3. TypeOK'
    BY <1>2, <1>4, <2>1, <2>2 DEF IInv, TypeOK
  <2>4. OutInv' /\ NetInv' /\ InInv'
    BY <1>4, <2>1 DEF IInv, OutInv, NetInv, InInv, GoodIn
  <2>5. OrderInv'
    <3>1. \A s \in 1 .. Len(sent) :
             /\ sent[s].id \in 1 .. Len(accepted')
             /\ sent[s] = accepted'[sent[s].id]
             /\ sent[s].id < m.id
      BY <1>3 DEF IInv, OrderInv
    <3>2. \A i \in 1 .. Len(queue) :
             /\ queue[i].id \in 1 .. Len(accepted')
             /\ queue[i] = accepted'[queue[i].id]
             /\ queue[i].id < m.id
      BY <1>3 DEF IInv, OrderInv
    <3>3. \A i \in 1 .. Len(queue') :
             \/ i \in 1 .. Len(queue) /\ queue'[i] = queue[i]
             \/ i = Len(queue) + 1 /\ queue'[i] = m
      BY <1>1, <2>2 DEF Grows
    <3>4. \A i \in 1 .. Len(queue') :
             queue'[i].id \in 1 .. Len(accepted') /\ queue'[i] = accepted'[queue'[i].id]
      BY <1>3, <3>2, <3>3
    <3>5. \A i, j \in 1 .. Len(queue') : i < j => queue'[i].id < queue'[j].id
      <4> SUFFICES ASSUME NEW i \in 1 .. Len(queue'), NEW j \in 1 .. Len(queue'), i < j
                   PROVE  queue'[i].id < queue'[j].id
        OBVIOUS
      <4>1. i \in 1 .. Len(queue) /\ queue'[i] = queue[i]
        BY <1>1, <2>2, <3>3
      <4>2. CASE j \in 1 .. Len(queue) /\ queue'[j] = queue[j]
        BY <4>1, <4>2 DEF IInv, OrderInv
      <4>3. CASE queue'[j] = m
        BY <3>2, <4>1, <4>3
      <4> QED
        BY <3>3, <4>2, <4>3
    <3>6. \A s \in 1 .. Len(sent), i \in 1 .. Len(queue') : sent[s].id < queue'[i].id
      BY <3>1, <3>3 DEF IInv, OrderInv
    <3>7. \A s, t \in 1 .. Len(sent) : s < t => sent[s].id < sent[t].id
      BY DEF IInv, OrderInv
    <3> QED
      BY <1>3, <2>1, <3>1, <3>4, <3>5, <3>6, <3>7 DEF OrderInv
  <2>6. DeliveredInv'
    BY <1>1, <1>2, <1>4, <2>1, SameGrows, DeliveredInvKept DEF IInv
  <2> QED
    BY <2>3, <2>4, <2>5, <2>6 DEF IInv
<1>6. CASE ~Busy
  <2>1. Transmit(m) /\ UNCHANGED queue /\ ~out.unsentFragments /\ queue = << >>
    BY <1>6 DEF SV_Netchan_Transmit, m, Busy
  <2>2. /\ out' \in OutType
        /\ net' \subseteq Packet
        /\ sent' \in Seq(Message)
        /\ Grows(sent, sent')
        /\ Len(sent') = Len(sent) + 1
        /\ sent'[Len(sent) + 1] = m
        /\ OutInv'
        /\ NetInv'
    BY <1>1, <2>1, TransmitKeeps
  <2>3. TypeOK'
    BY <1>2, <1>4, <2>1, <2>2 DEF IInv, TypeOK
  <2>4. InInv' /\ DeliveredInv'
    BY <1>2, <1>4, <2>2, InInvKept, DeliveredInvKept DEF IInv
  <2>5. OrderInv'
    <3>1. \A s \in 1 .. Len(sent) :
             /\ sent[s].id \in 1 .. Len(accepted')
             /\ sent[s] = accepted'[sent[s].id]
             /\ sent[s].id < m.id
      BY <1>3 DEF IInv, OrderInv
    <3>2. \A s \in 1 .. Len(sent') :
             \/ s \in 1 .. Len(sent) /\ sent'[s] = sent[s]
             \/ s = Len(sent) + 1 /\ sent'[s] = m
      BY <1>1, <2>2 DEF Grows
    <3>3. \A s \in 1 .. Len(sent') :
             sent'[s].id \in 1 .. Len(accepted') /\ sent'[s] = accepted'[sent'[s].id]
      BY <1>3, <3>1, <3>2
    <3>4. \A s, t \in 1 .. Len(sent') : s < t => sent'[s].id < sent'[t].id
      <4> SUFFICES ASSUME NEW s \in 1 .. Len(sent'), NEW t \in 1 .. Len(sent'), s < t
                   PROVE  sent'[s].id < sent'[t].id
        OBVIOUS
      <4>1. s \in 1 .. Len(sent) /\ sent'[s] = sent[s]
        BY <1>1, <2>2, <3>2
      <4>2. CASE t \in 1 .. Len(sent) /\ sent'[t] = sent[t]
        BY <4>1, <4>2 DEF IInv, OrderInv
      <4>3. CASE sent'[t] = m
        BY <3>1, <4>1, <4>3
      <4> QED
        BY <3>2, <4>2, <4>3
    <3>5. Len(queue') = 0
      BY <2>1
    <3> QED
      BY <1>3, <3>3, <3>4, <3>5 DEF OrderInv
  <2> QED
    BY <2>2, <2>3, <2>4, <2>5 DEF IInv
<1> QED
  BY <1>5, <1>6

(***************************************************************************)
(* Sending the next fragment keeps the inductive invariant.                *)
(***************************************************************************)
LEMMA FragmentStep ==
  ASSUME IInv, SV_TransmitNextFragment
  PROVE  IInv'
<1> DEFINE p == NextFragment(out)
<1>1. /\ out \in OutType
      /\ out.unsentFragments
      /\ sent \in Seq(Message)
      /\ Len(sent) = out.outgoingSequence
      /\ Len(sent) > 0
      /\ out.unsentMsg = sent[Len(sent)]
      /\ out.unsentFragmentStart \in FragmentStarts
      /\ out.unsentFragmentStart <= out.unsentMsg.length
      /\ UNCHANGED <<queue, in, accepted, sent, delivered>>
      /\ net' = net \cup {p}
      /\ out' = AfterNextFragment(out)
  BY DEF IInv, TypeOK, OutInv, SV_TransmitNextFragment
<1>2. out.unsentMsg \in Message /\ out.outgoingSequence \in Nat
  BY <1>1 DEF OutType
<1>3. p \in Packet /\ p.sequence = out.outgoingSequence
      /\ p.chunk.msg = out.unsentMsg /\ GoodPacket(p)
  BY <1>1, <1>2, FragmentIsGood DEF NextFragment
<1>4. /\ out' \in OutType
      /\ \/ ~out'.unsentFragments /\ out'.outgoingSequence = out.outgoingSequence + 1
         \/ /\ out'.unsentFragments
            /\ out'.outgoingSequence = out.outgoingSequence
            /\ out'.unsentMsg = out.unsentMsg
            /\ out'.unsentFragmentStart \in FragmentStarts
            /\ out'.unsentFragmentStart <= out'.unsentMsg.length
  BY <1>1, NextFragmentAdvances
<1> HIDE DEF p
<1>5. TypeOK'
  BY <1>1, <1>3, <1>4 DEF IInv, TypeOK
<1>6. OutInv'
  BY <1>1, <1>2, <1>4 DEF OutInv
<1>7. NetInv'
  BY <1>1, <1>2, <1>3, SameGrows, NetInvKept DEF IInv
<1>8. OrderInv' /\ InInv' /\ DeliveredInv'
  BY <1>1 DEF IInv, OrderInv, InInv, GoodIn, DeliveredInv, DeliveredIntact, DeliveredInOrder
<1> QED
  BY <1>5, <1>6, <1>7, <1>8 DEF IInv

(***************************************************************************)
(* Transmitting the head of the queue keeps the inductive invariant.       *)
(***************************************************************************)
LEMMA QueueStep ==
  ASSUME IInv, SV_TransmitNextInQueue
  PROVE  IInv'
<1> DEFINE m == Head(queue)
<1>1. /\ queue \in Seq(Message)
      /\ queue # << >>
      /\ ~out.unsentFragments
      /\ Transmit(m)
      /\ queue' = Tail(queue)
      /\ UNCHANGED <<in, accepted, delivered>>
      /\ sent \in Seq(Message)
      /\ accepted \in Seq(Message)
  BY DEF IInv, TypeOK, SV_TransmitNextInQueue
<1>2. /\ m \in Message
      /\ m = queue[1]
      /\ queue' \in Seq(Message)
      /\ Len(queue') = Len(queue) - 1
      /\ \A i \in 1 .. Len(queue') : i + 1 \in 1 .. Len(queue) /\ queue'[i] = queue[i + 1]
      /\ 1 \in 1 .. Len(queue)
  BY <1>1
<1> HIDE DEF m
<1>3. /\ out' \in OutType
      /\ net' \subseteq Packet
      /\ sent' \in Seq(Message)
      /\ Grows(sent, sent')
      /\ Len(sent') = Len(sent) + 1
      /\ sent'[Len(sent) + 1] = m
      /\ OutInv'
      /\ NetInv'
  BY <1>1, <1>2, TransmitKeeps
<1>4. TypeOK'
  BY <1>1, <1>2, <1>3 DEF IInv, TypeOK
<1>5. InInv' /\ DeliveredInv'
  BY <1>1, <1>3, SameGrows, InInvKept, DeliveredInvKept DEF IInv
<1>6. OrderInv'
  <2>1. \A s \in 1 .. Len(sent') :
           \/ s \in 1 .. Len(sent) /\ sent'[s] = sent[s]
           \/ s = Len(sent) + 1 /\ sent'[s] = queue[1]
    <3>1. Len(sent) \in Nat /\ m = queue[1]
      BY <1>1, <1>2
    <3> QED
      BY <1>3, <3>1 DEF Grows
  <2>2. \A s \in 1 .. Len(sent') :
           sent'[s].id \in 1 .. Len(accepted) /\ sent'[s] = accepted[sent'[s].id]
    <3>1. \A s \in 1 .. Len(sent) :
             sent[s].id \in 1 .. Len(accepted) /\ sent[s] = accepted[sent[s].id]
      BY DEF IInv, OrderInv
    <3>2. queue[1].id \in 1 .. Len(accepted) /\ queue[1] = accepted[queue[1].id]
      BY <1>2 DEF IInv, OrderInv
    <3> QED
      BY <2>1, <3>1, <3>2
  <2>3. \A i \in 1 .. Len(queue') :
           queue'[i].id \in 1 .. Len(accepted) /\ queue'[i] = accepted[queue'[i].id]
    <3>1. \A i \in 1 .. Len(queue) :
             queue[i].id \in 1 .. Len(accepted) /\ queue[i] = accepted[queue[i].id]
      BY DEF IInv, OrderInv
    <3>2. \A i \in 1 .. Len(queue') : i + 1 \in 1 .. Len(queue) /\ queue'[i] = queue[i + 1]
      BY <1>2
    <3> QED
      BY <3>1, <3>2
  <2>4. \A s, t \in 1 .. Len(sent') : s < t => sent'[s].id < sent'[t].id
    <3> SUFFICES ASSUME NEW s \in 1 .. Len(sent'), NEW t \in 1 .. Len(sent'), s < t
                 PROVE  sent'[s].id < sent'[t].id
      OBVIOUS
    <3>1. s \in 1 .. Len(sent) /\ sent'[s] = sent[s]
      BY SMTT(20), <1>1, <1>3, <2>1
    <3>2. CASE t \in 1 .. Len(sent) /\ sent'[t] = sent[t]
      BY <3>1, <3>2 DEF IInv, OrderInv
    <3>3. CASE sent'[t] = queue[1]
      BY <1>2, <3>1, <3>3 DEF IInv, OrderInv
    <3> QED
      BY <2>1, <3>2, <3>3
  <2>5. \A i, j \in 1 .. Len(queue') : i < j => queue'[i].id < queue'[j].id
    <3> SUFFICES ASSUME NEW i \in 1 .. Len(queue'), NEW j \in 1 .. Len(queue'), i < j
                 PROVE  queue'[i].id < queue'[j].id
      OBVIOUS
    <3>1. i + 1 \in 1 .. Len(queue) /\ j + 1 \in 1 .. Len(queue) /\ i + 1 < j + 1
      BY <1>2
    <3> QED
      BY <1>2, <3>1 DEF IInv, OrderInv
  <2>6. \A s \in 1 .. Len(sent'), i \in 1 .. Len(queue') : sent'[s].id < queue'[i].id
    <3> SUFFICES ASSUME NEW s \in 1 .. Len(sent'), NEW i \in 1 .. Len(queue')
                 PROVE  sent'[s].id < queue'[i].id
      OBVIOUS
    <3>1. i + 1 \in 1 .. Len(queue) /\ queue'[i] = queue[i + 1] /\ 1 < i + 1
      BY <1>2
    <3>2. CASE s \in 1 .. Len(sent) /\ sent'[s] = sent[s]
      BY <3>1, <3>2 DEF IInv, OrderInv
    <3>3. CASE sent'[s] = queue[1]
      BY <1>2, <3>1, <3>3 DEF IInv, OrderInv
    <3> QED
      BY <2>1, <3>2, <3>3
  <2> QED
    BY <1>1, <2>2, <2>3, <2>4, <2>5, <2>6 DEF IInv, OrderInv
<1> QED
  BY <1>3, <1>4, <1>5, <1>6 DEF IInv

(***************************************************************************)
(* SV_Netchan_FreeQueue keeps the inductive invariant.                     *)
(***************************************************************************)
LEMMA FreeStep ==
  ASSUME IInv, SV_Netchan_FreeQueue
  PROVE  IInv'
<1>1. queue' = << >> /\ UNCHANGED <<out, net, in, accepted, sent, delivered>>
  BY DEF SV_Netchan_FreeQueue
<1>2. queue' \in Seq(Message) /\ Len(queue') = 0
  BY <1>1
<1>3. TypeOK' /\ OrderInv'
  BY <1>1, <1>2 DEF IInv, TypeOK, OrderInv
<1> QED
  BY <1>1, <1>3 DEF IInv, OutInv, NetInv, InInv, GoodIn,
                    DeliveredInv, DeliveredIntact, DeliveredInOrder

(***************************************************************************)
(* Netchan_Process keeps the inductive invariant, for any datagram.        *)
(***************************************************************************)
LEMMA ReceiveStep ==
  ASSUME IInv, NEW p \in net, CL_Process(p)
  PROVE  IInv'
<1>1. /\ UNCHANGED <<out, queue, net, accepted, sent>>
      /\ in' = AfterProcess(in, p)
      /\ delivered' = IF Delivers(in, p)
                      THEN Append(delivered, DeliveredMessage(in, p))
                      ELSE delivered
  BY DEF CL_Process
<1>2. /\ p \in Packet
      /\ p.sequence \in 1 .. Len(sent)
      /\ p.chunk.msg = sent[p.sequence]
      /\ GoodPacket(p)
      /\ delivered \in Seq(Message)
      /\ sent \in Seq(Message)
      /\ accepted \in Seq(Message)
  BY DEF IInv, TypeOK, NetInv
<1>3. /\ GoodIn(in')
      /\ IF Delivers(in, p)
         THEN /\ DeliveredMessage(in, p) = sent[p.sequence]
              /\ in'.incomingSequence = p.sequence
              /\ p.sequence > in.incomingSequence
         ELSE in'.incomingSequence = in.incomingSequence
  BY <1>1, <1>2, ProcessIsGood DEF IInv
<1>4. OutInv' /\ OrderInv' /\ NetInv'
  BY <1>1 DEF IInv, OutInv, OrderInv, NetInv
<1>5. GoodIn(in)' /\ in' \in InType
  BY <1>1, <1>3 DEF GoodIn
<1>6. CASE ~Delivers(in, p)
  <2>1. delivered' = delivered /\ in'.incomingSequence = in.incomingSequence
    BY <1>1, <1>3, <1>6
  <2>2. TypeOK' /\ InInv'
    BY <1>1, <1>5, <2>1 DEF IInv, TypeOK, InInv
  <2>3. DeliveredInv'
    BY <1>1, <2>1 DEF IInv, DeliveredInv, DeliveredIntact, DeliveredInOrder
  <2> QED
    BY <1>4, <2>2, <2>3 DEF IInv
<1>7. CASE Delivers(in, p)
  <2> DEFINE m == sent[p.sequence]
             n == Len(delivered)
  <2>1. /\ delivered' = Append(delivered, m)
        /\ m \in Message
        /\ in'.incomingSequence = p.sequence
        /\ p.sequence > in.incomingSequence
    BY <1>1, <1>2, <1>3, <1>7
  <2>2. /\ delivered' \in Seq(Message)
        /\ Len(delivered') = n + 1
        /\ delivered'[n + 1] = m
        /\ \A i \in 1 .. n : delivered'[i] = delivered[i]
        /\ n \in Nat
    BY <1>2, <2>1
  <2>3. m.id \in 1 .. Len(accepted) /\ m = accepted[m.id]
    BY <1>2 DEF IInv, OrderInv
  <2>4. \A i \in 1 .. n : delivered[i].id < m.id
    <3>1. CASE in.incomingSequence = 0
      BY <3>1 DEF IInv, DeliveredInv
    <3>2. CASE in.incomingSequence # 0
      <4>1. /\ n > 0
            /\ delivered[n] = sent[in.incomingSequence]
            /\ in.incomingSequence \in 1 .. Len(sent)
        BY <3>2 DEF IInv, DeliveredInv, InInv
      <4>2. delivered[n].id < m.id
        BY <1>2, <2>1, <4>1 DEF IInv, OrderInv
      <4>3. \A i \in 1 .. n : delivered[i] \in Message
        BY <1>2
      <4>4. \A i \in 1 .. n : delivered[i].id \in Nat
        BY <4>3 DEF Message
      <4>5. n \in 1 .. n /\ \A i \in 1 .. n : i = n \/ i < n
        BY <2>2, <4>1
      <4>6. \A i \in 1 .. n : i = n \/ delivered[i].id < delivered[n].id
        BY <4>5 DEF IInv, DeliveredInv, DeliveredInOrder
      <4> QED
        BY <2>2, <2>3, <4>2, <4>4, <4>5, <4>6
    <3> QED
      BY <3>1, <3>2
  <2> HIDE DEF m, n
  <2>5. TypeOK' /\ InInv'
    <3>1. in'.incomingSequence \in 0 .. Len(sent')
      BY <1>1, <1>2, <2>1
    <3> QED
      BY <1>1, <1>5, <2>2, <3>1 DEF IInv, TypeOK, InInv
  <2>6. DeliveredInv'
    <3>1. \A i \in 1 .. n + 1 : i \in 1 .. n \/ i = n + 1
      BY <2>2
    <3>2. DeliveredIntact'
      BY <1>1, <2>2, <2>3, <3>1 DEF IInv, DeliveredInv, DeliveredIntact
    <3>3. DeliveredInOrder'
      <4> SUFFICES ASSUME NEW i \in 1 .. n + 1, NEW j \in 1 .. n + 1, i < j
                   PROVE  delivered'[i].id < delivered'[j].id
        BY <2>2 DEF DeliveredInOrder
      <4>1. i \in 1 .. n
        BY <2>2
      <4> QED
        BY <2>2, <2>4, <3>1, <4>1 DEF IInv, DeliveredInv, DeliveredInOrder, n
    <3>4. in'.incomingSequence # 0 /\ Len(delivered') > 0
          /\ delivered'[Len(delivered')] = sent'[in'.incomingSequence]
      BY <1>1, <1>2, <2>1, <2>2 DEF m
    <3> QED
      BY <3>2, <3>3, <3>4 DEF DeliveredInv
  <2> QED
    BY <1>4, <2>5, <2>6 DEF IInv
<1> QED
  BY <1>6, <1>7

(***************************************************************************)
(* Every step keeps the inductive invariant.                               *)
(***************************************************************************)
THEOREM Step == IInv /\ [Next]_vars => IInv'
<1> SUFFICES ASSUME IInv, [Next]_vars
             PROVE  IInv'
  OBVIOUS
<1>1. CASE \E len \in Lengths : SV_Netchan_Transmit(len)
  BY <1>1, AcceptStep
<1>2. CASE SV_TransmitNextFragment
  BY <1>2, FragmentStep
<1>3. CASE SV_TransmitNextInQueue
  BY <1>3, QueueStep
<1>4. CASE SV_Netchan_FreeQueue
  BY <1>4, FreeStep
<1>5. CASE \E p \in net : CL_Process(p)
  BY <1>5, ReceiveStep
<1>6. CASE UNCHANGED vars
  BY <1>6 DEF vars, IInv, TypeOK, OutInv, OrderInv, NetInv, InInv, GoodIn,
              DeliveredInv, DeliveredIntact, DeliveredInOrder
<1> QED
  BY <1>1, <1>2, <1>3, <1>4, <1>5, <1>6 DEF Next

(***************************************************************************)
(* The inductive invariant holds in every reachable state.                 *)
(***************************************************************************)
THEOREM Invariance == Spec => []IInv
  BY Initial, Step, PTL DEF Spec
-----------------------------------------------------------------------------
(***************************************************************************)
(* The state of the channel has its types in every reachable state, for    *)
(* any fragment size and any number of messages.                           *)
(***************************************************************************)
THEOREM TypeCorrect == Spec => []TypeOK
<1>1. IInv => TypeOK
  BY DEF IInv
<1> QED
  BY <1>1, Invariance, PTL

(***************************************************************************)
(* Netchan_Process hands the client only whole messages of the server.     *)
(***************************************************************************)
THEOREM Integrity == Spec => []DeliveredIntact
<1>1. IInv => DeliveredIntact
  BY DEF IInv, DeliveredInv
<1> QED
  BY <1>1, Invariance, PTL

(***************************************************************************)
(* Netchan_Process hands no message over twice and none after a later one. *)
(***************************************************************************)
THEOREM Order == Spec => []DeliveredInOrder
<1>1. IInv => DeliveredInOrder
  BY DEF IInv, DeliveredInv
<1> QED
  BY <1>1, Invariance, PTL

(***************************************************************************)
(* The queue of SV_Netchan_Transmit keeps the order of the calls.          *)
(***************************************************************************)
THEOREM QueueOrder == Spec => []SentInOrder
<1>1. ASSUME IInv PROVE SentInOrder
  <2> DEFINE all == sent \o queue
  <2>1. sent \in Seq(Message) /\ queue \in Seq(Message)
    BY <1>1 DEF IInv, TypeOK
  <2>2. /\ Len(sent) \in Nat /\ Len(queue) \in Nat
        /\ Len(all) = Len(sent) + Len(queue)
        /\ \A i \in 1 .. Len(all) :
              \/ i \in 1 .. Len(sent) /\ all[i] = sent[i]
              \/ /\ i - Len(sent) \in 1 .. Len(queue)
                 /\ i > Len(sent)
                 /\ all[i] = queue[i - Len(sent)]
    BY <2>1
  <2> HIDE DEF all
  <2>3. SUFFICES ASSUME NEW i \in 1 .. Len(all), NEW j \in 1 .. Len(all), i < j
                 PROVE  all[i].id < all[j].id
    BY DEF SentInOrder, all
  <2>4. CASE j \in 1 .. Len(sent) /\ all[j] = sent[j]
    <3>1. i \in 1 .. Len(sent) /\ all[i] = sent[i]
      BY <2>2, <2>3, <2>4
    <3> QED
      BY <1>1, <2>3, <2>4, <3>1 DEF IInv, OrderInv
  <2>5. CASE /\ j - Len(sent) \in 1 .. Len(queue)
             /\ all[j] = queue[j - Len(sent)]
    <3>1. CASE i \in 1 .. Len(sent) /\ all[i] = sent[i]
      BY <1>1, <2>5, <3>1 DEF IInv, OrderInv
    <3>2. CASE /\ i - Len(sent) \in 1 .. Len(queue)
               /\ all[i] = queue[i - Len(sent)]
      <4>1. i - Len(sent) < j - Len(sent)
        BY <2>2, <2>3
      <4> QED
        BY <1>1, <2>5, <3>2, <4>1 DEF IInv, OrderInv
    <3> QED
      BY <2>2, <3>1, <3>2
  <2> QED
    BY <2>2, <2>4, <2>5
<1> QED
  BY <1>1, Invariance, PTL

(***************************************************************************)
(* The queue, the fragments and the reassembly together are a lossy        *)
(* channel that keeps the order.                                           *)
(***************************************************************************)
THEOREM Refinement == Spec => ImplementsLossyChannel
<1>1. Init => Abstract!Init
  BY DEF Init, Abstract!Init
<1>2. ASSUME IInv, IInv', [Next]_vars
      PROVE  [Abstract!Next]_<<accepted, delivered>>
  <2>1. CASE \E len \in Lengths : SV_Netchan_Transmit(len)
    BY <2>1 DEF SV_Netchan_Transmit, Abstract!Next, Abstract!Accept
  <2>2. CASE SV_TransmitNextFragment \/ SV_TransmitNextInQueue \/ SV_Netchan_FreeQueue
             \/ UNCHANGED vars
    BY <2>2 DEF SV_TransmitNextFragment, SV_TransmitNextInQueue, SV_Netchan_FreeQueue, vars
  <2>3. ASSUME NEW p \in net, CL_Process(p)
        PROVE  [Abstract!Next]_<<accepted, delivered>>
    <3>1. CASE ~Delivers(in, p)
      BY <2>3, <3>1 DEF CL_Process
    <3>2. CASE Delivers(in, p)
      <4> DEFINE m == DeliveredMessage(in, p)
                 n == Len(delivered)
      <4>1. accepted' = accepted /\ delivered' = Append(delivered, m)
        BY <2>3, <3>2 DEF CL_Process
      <4>2. delivered \in Seq(Message) /\ delivered' \in Seq(Message)
        BY <1>2 DEF IInv, TypeOK
      <4> HIDE DEF m
      <4>3. Len(delivered') = n + 1 /\ delivered'[n + 1] = m /\ n \in Nat
            /\ \A i \in 1 .. n : delivered'[i] = delivered[i]
        BY <4>1, <4>2
      <4>4. m.id \in 1 .. Len(accepted) /\ m = accepted[m.id]
        BY <1>2, <4>1, <4>3 DEF IInv, DeliveredInv, DeliveredIntact
      <4>5. m.id > Abstract!LastId
        <5>1. CASE delivered = << >>
          BY <4>4, <5>1 DEF Abstract!LastId
        <5>2. CASE delivered # << >>
          <6>1. n \in 1 .. n + 1 /\ n + 1 \in 1 .. n + 1 /\ n < n + 1 /\ n \in 1 .. n
            BY <4>2, <4>3, <5>2
          <6>2. delivered'[n].id < delivered'[n + 1].id
            BY <1>2, <4>3, <6>1 DEF IInv, DeliveredInv, DeliveredInOrder
          <6>3. delivered[n].id < m.id
            BY <4>3, <6>1, <6>2
          <6>4. delivered[n].id \in Nat
            <7>1. delivered[n] \in Message
              BY <4>2, <6>1
            <7> QED
              BY <7>1 DEF Message
          <6> QED
            BY <4>4, <5>2, <6>3, <6>4 DEF Abstract!LastId
        <5> QED
          BY <5>1, <5>2
      <4> QED
        BY <4>1, <4>4, <4>5 DEF Abstract!Next, Abstract!Deliver
    <3> QED
      BY <3>1, <3>2
  <2> QED
    BY <1>2, <2>1, <2>2, <2>3 DEF Next
<1> QED
  BY <1>1, <1>2, Invariance, PTL DEF Spec, ImplementsLossyChannel, Abstract!Spec
-----------------------------------------------------------------------------
(***************************************************************************)
(* Completeness needs an invariant of its own: of the message under way,   *)
(* every fragment before the next offset has been sent, and it is a        *)
(* message of fragments.                                                   *)
(***************************************************************************)
SentBefore(seq, msg, start, packets) ==
    \A s \in FragmentStarts : s < start => FragmentPacket(seq, msg, s) \in packets

SentInv ==
    /\ SentCompletely
    /\ out.unsentFragments =>
          /\ out.unsentMsg.length >= FRAGMENT_SIZE
          /\ SentBefore(out.outgoingSequence, out.unsentMsg, out.unsentFragmentStart, net)

(***************************************************************************)
(* Offsets are at least a fragment apart.                                  *)
(***************************************************************************)
LEMMA StartsApart ==
  ASSUME NEW s \in FragmentStarts, NEW t \in FragmentStarts, s < t
  PROVE  t >= s + FRAGMENT_SIZE
<1>1. PICK j \in 0 .. MaxFragments : s = j * FRAGMENT_SIZE
  BY DEF FragmentStarts
<1>2. PICK k \in 0 .. MaxFragments : t = k * FRAGMENT_SIZE
  BY DEF FragmentStarts
<1>3. j \in Nat /\ k \in Nat
  BY MaxFragmentsAssumption
<1>4. CASE k <= j
  <2>1. PICK d \in Nat : j = k + d
    BY <1>3, <1>4
  <2>2. j * FRAGMENT_SIZE = k * FRAGMENT_SIZE + d * FRAGMENT_SIZE /\ d * FRAGMENT_SIZE >= 0
    BY <1>3, <2>1, SizeType
  <2>3. k * FRAGMENT_SIZE \in Nat /\ d * FRAGMENT_SIZE \in Nat
    BY <1>3, SizeType
  <2> QED
    BY <1>1, <1>2, <2>2, <2>3
<1>5. CASE k > j
  <2>1. PICK d \in Nat : k = (j + 1) + d
    BY <1>3, <1>5
  <2>2. /\ k * FRAGMENT_SIZE = (j * FRAGMENT_SIZE + FRAGMENT_SIZE) + d * FRAGMENT_SIZE
        /\ d * FRAGMENT_SIZE >= 0
    BY <1>3, <2>1, SizeType
  <2>3. j * FRAGMENT_SIZE \in Nat /\ d * FRAGMENT_SIZE \in Nat
    BY <1>3, SizeType
  <2> QED
    BY <1>1, <1>2, <2>2, <2>3, SizeType
<1> QED
  BY <1>3, <1>4, <1>5

(***************************************************************************)
(* No offset lies inside a fragment, and none behind a final one.          *)
(***************************************************************************)
LEMMA NoStartInside ==
  ASSUME NEW msg \in Message, NEW start \in FragmentStarts, start <= msg.length,
         NEW s \in FragmentStarts
  PROVE  /\ s < start + FragmentLen(msg, start) => s <= start
         /\ IsFinal(msg, start) /\ s <= msg.length => s <= start
<1>1. PICK length \in Nat : length = msg.length
  BY SizeType DEF Message
<1>2. start \in Nat /\ s \in Nat
  BY StartsAreNat
<1>3. start < s => s >= start + FRAGMENT_SIZE
  BY StartsApart
<1>4. FragmentLen(msg, start) \in Nat /\ FragmentLen(msg, start) <= FRAGMENT_SIZE
  BY <1>1, <1>2, SizeType DEF FragmentLen
<1>5. IsFinal(msg, start) => length = start + FragmentLen(msg, start)
                             /\ FragmentLen(msg, start) < FRAGMENT_SIZE
  BY <1>1, <1>2, <1>4, SizeType DEF IsFinal
<1> QED
  BY <1>1, <1>2, <1>3, <1>4, <1>5, SizeType

(***************************************************************************)
(* One fragment more, the last or not.                                     *)
(***************************************************************************)
LEMMA OneMore ==
  ASSUME NEW seq, NEW msg \in Message, NEW start \in FragmentStarts, start <= msg.length,
         msg.length >= FRAGMENT_SIZE,
         NEW packets, SentBefore(seq, msg, start, packets),
         NEW more, packets \subseteq more, FragmentPacket(seq, msg, start) \in more
  PROVE  /\ SentBefore(seq, msg, start + FragmentLen(msg, start), more)
         /\ IsFinal(msg, start) => MessagePackets(seq, msg) \subseteq more
<1>1. \A s \in FragmentStarts : s <= start => FragmentPacket(seq, msg, s) \in more
  <2> SUFFICES ASSUME NEW s \in FragmentStarts, s <= start
               PROVE  FragmentPacket(seq, msg, s) \in more
    OBVIOUS
  <2>1. s = start \/ s < start
    BY StartsAreNat
  <2> QED
    BY <2>1 DEF SentBefore
<1>2. SentBefore(seq, msg, start + FragmentLen(msg, start), more)
  BY <1>1, NoStartInside DEF SentBefore
<1>3. IsFinal(msg, start) => MessagePackets(seq, msg) \subseteq more
  BY <1>1, NoStartInside DEF MessagePackets
<1> QED
  BY <1>2, <1>3

(***************************************************************************)
(* The fields AfterNextFragment sets.                                      *)
(***************************************************************************)
LEMMA AfterFragmentFields ==
  ASSUME NEW chan \in OutType, NEW next, next = AfterNextFragment(chan)
  PROVE  /\ next.unsentMsg = chan.unsentMsg
         /\ next.unsentFragmentStart
               = chan.unsentFragmentStart + FragmentLen(chan.unsentMsg, chan.unsentFragmentStart)
         /\ IF IsFinal(chan.unsentMsg, chan.unsentFragmentStart)
            THEN ~next.unsentFragments /\ next.outgoingSequence = chan.outgoingSequence + 1
            ELSE next.unsentFragments /\ next.outgoingSequence = chan.outgoingSequence
  BY DEF AfterNextFragment, OutType

(***************************************************************************)
(* What has been sent completely stays so, and the message that completes  *)
(* joins it.                                                               *)
(***************************************************************************)
LEMMA CompletelyKept ==
  ASSUME TypeOK, SentCompletely, out.outgoingSequence - 1 <= Len(sent),
         sent' \in Seq(Message), Grows(sent, sent'), net \subseteq net',
         \/ out'.outgoingSequence = out.outgoingSequence
         \/ /\ out'.outgoingSequence = out.outgoingSequence + 1
            /\ MessagePackets(out.outgoingSequence, sent'[out.outgoingSequence]) \subseteq net'
  PROVE  SentCompletely'
<1>1. PICK seq \in Nat : seq = out.outgoingSequence
  BY DEF TypeOK, OutType
<1>2. SUFFICES ASSUME NEW s \in 1 .. out'.outgoingSequence - 1
               PROVE  MessagePackets(s, sent'[s]) \subseteq net'
  BY DEF SentCompletely
<1>3. CASE s \in 1 .. seq - 1
  <2>1. s \in 1 .. Len(sent)
    <3>1. seq - 1 <= Len(sent) /\ Len(sent) \in Nat
      BY <1>1 DEF TypeOK
    <3> QED
      BY <1>3, <3>1
  <2>2. sent'[s] = sent[s]
    BY <2>1 DEF Grows
  <2>3. MessagePackets(s, sent[s]) \subseteq net
    BY <1>1, <1>3 DEF SentCompletely
  <2> QED
    BY <2>2, <2>3
<1>4. CASE s \notin 1 .. seq - 1
  <2>1. s = seq /\ out'.outgoingSequence # out.outgoingSequence
    BY <1>1, <1>4
  <2> QED
    BY <1>1, <2>1
<1> QED
  BY <1>3, <1>4

(***************************************************************************)
(* Netchan_Transmit: a short message leaves completely, of a longer one    *)
(* the first fragment.                                                     *)
(***************************************************************************)
LEMMA TransmitSends ==
  ASSUME IInv, SentInv, ~out.unsentFragments, NEW m \in Message, Transmit(m)
  PROVE  SentInv'
<1>1. PICK seq \in Nat : seq = out.outgoingSequence
  BY DEF IInv, TypeOK, OutType
<1>2. out \in OutType /\ sent \in Seq(Message) /\ Len(sent) = seq - 1
  BY <1>1 DEF IInv, TypeOK, OutInv
<1>3. /\ sent' \in Seq(Message) /\ Grows(sent, sent')
      /\ sent'[seq] = m
  BY <1>1, <1>2, AppendGrows DEF Transmit
<1>4. /\ out' = AfterTransmit(out, m)
      /\ net' = net \cup {TransmitPacket(out, m)}
  BY DEF Transmit
<1>5. CASE m.length >= FRAGMENT_SIZE
  <2>1. PICK chan : chan = Loaded(out, m)
    OBVIOUS
  <2>2. /\ chan \in OutType
        /\ chan.unsentMsg = m /\ chan.unsentFragmentStart = 0
        /\ chan.outgoingSequence = seq
    BY <1>1, <1>2, <2>1 DEF Loaded, OutType
  <2>3. out' = AfterNextFragment(chan) /\ FragmentPacket(seq, m, 0) \in net'
    BY <1>4, <1>5, <2>1, <2>2 DEF AfterTransmit, TransmitPacket, NextFragment
  <2>4. SentBefore(seq, m, 0, net)
    BY StartsAreNat DEF SentBefore
  <2>5. 0 <= m.length
    BY SizeType DEF Message
  <2>6. /\ SentBefore(seq, m, 0 + FragmentLen(m, 0), net')
        /\ IsFinal(m, 0) => MessagePackets(seq, m) \subseteq net'
    BY <1>4, <1>5, <2>3, <2>4, <2>5, ZeroIsStart, OneMore
  <2>7. /\ out'.unsentMsg = m
        /\ out'.unsentFragmentStart = 0 + FragmentLen(m, 0)
        /\ IF IsFinal(m, 0) THEN ~out'.unsentFragments /\ out'.outgoingSequence = seq + 1
                            ELSE out'.unsentFragments /\ out'.outgoingSequence = seq
    BY <2>2, <2>3, AfterFragmentFields
  <2>8. SentCompletely'
    BY <1>1, <1>2, <1>3, <1>4, <2>6, <2>7, CompletelyKept DEF IInv, SentInv
  <2> QED
    BY <1>5, <2>6, <2>7, <2>8 DEF SentInv
<1>6. CASE ~(m.length >= FRAGMENT_SIZE)
  <2>1. /\ out'.outgoingSequence = seq + 1
        /\ ~out'.unsentFragments
    BY <1>1, <1>2, <1>4, <1>6 DEF AfterTransmit, OutType
  <2>2. MessagePackets(seq, m) \subseteq net'
    BY <1>1, <1>4, <1>6 DEF MessagePackets, TransmitPacket
  <2>3. SentCompletely'
    BY <1>1, <1>2, <1>3, <1>4, <2>1, <2>2, CompletelyKept DEF IInv, SentInv
  <2> QED
    BY <2>1, <2>3 DEF SentInv
<1> QED
  BY <1>5, <1>6

(***************************************************************************)
(* Every step keeps what has been sent complete.                           *)
(***************************************************************************)
LEMMA SentStep == IInv /\ SentInv /\ [Next]_vars => SentInv'
<1> SUFFICES ASSUME IInv, SentInv, [Next]_vars
             PROVE  SentInv'
  OBVIOUS
<1>1. ASSUME UNCHANGED <<out, net, sent>>
      PROVE  SentInv'
  BY <1>1 DEF SentInv, SentCompletely, SentBefore
<1>2. ASSUME NEW len \in Lengths, SV_Netchan_Transmit(len)
      PROVE  SentInv'
  <2>1. PICK m : m = [id |-> Len(accepted) + 1, length |-> len]
    OBVIOUS
  <2>2. m \in Message
    BY <2>1, ServerNetchanAssumption DEF IInv, TypeOK, Message
  <2>3. CASE Busy
    BY <1>1, <1>2, <2>3 DEF SV_Netchan_Transmit
  <2>4. CASE ~Busy
    BY <1>2, <2>1, <2>2, <2>4, TransmitSends DEF SV_Netchan_Transmit, Busy
  <2> QED
    BY <2>3, <2>4
<1>3. CASE SV_TransmitNextFragment
  <2>1. PICK seq \in Nat, msg \in Message, start \in FragmentStarts :
           /\ seq = out.outgoingSequence /\ msg = out.unsentMsg
           /\ start = out.unsentFragmentStart
    BY <1>3 DEF IInv, TypeOK, OutType, OutInv, SV_TransmitNextFragment
  <2>2. /\ out \in OutType /\ sent \in Seq(Message)
        /\ Len(sent) = seq /\ msg = sent[seq] /\ sent' = sent
        /\ start <= msg.length
        /\ msg.length >= FRAGMENT_SIZE
        /\ SentBefore(seq, msg, start, net)
        /\ out' = AfterNextFragment(out)
        /\ net' = net \cup {FragmentPacket(seq, msg, start)}
    BY <1>3, <2>1 DEF IInv, TypeOK, OutInv, SentInv, SV_TransmitNextFragment, NextFragment
  <2>3. /\ SentBefore(seq, msg, start + FragmentLen(msg, start), net')
        /\ IsFinal(msg, start) => MessagePackets(seq, msg) \subseteq net'
    BY <2>2, OneMore
  <2>4. /\ out'.unsentMsg = msg
        /\ out'.unsentFragmentStart = start + FragmentLen(msg, start)
        /\ IF IsFinal(msg, start) THEN ~out'.unsentFragments /\ out'.outgoingSequence = seq + 1
                                  ELSE out'.unsentFragments /\ out'.outgoingSequence = seq
    <3>1. /\ out'.unsentMsg = out.unsentMsg
          /\ out'.unsentFragmentStart
                = out.unsentFragmentStart + FragmentLen(out.unsentMsg, out.unsentFragmentStart)
          /\ IF IsFinal(out.unsentMsg, out.unsentFragmentStart)
             THEN ~out'.unsentFragments /\ out'.outgoingSequence = out.outgoingSequence + 1
             ELSE out'.unsentFragments /\ out'.outgoingSequence = out.outgoingSequence
      BY <2>2, AfterFragmentFields
    <3> QED
      BY <2>1, <3>1, Zenon
  <2>5. SentCompletely'
    BY <2>1, <2>2, <2>3, <2>4, SameGrows, CompletelyKept DEF IInv, SentInv
  <2> QED
    BY <2>2, <2>3, <2>4, <2>5 DEF SentInv
<1>4. CASE SV_TransmitNextInQueue
  <2>1. Head(queue) \in Message
    BY <1>4 DEF IInv, TypeOK, SV_TransmitNextInQueue
  <2> QED
    BY <1>4, <2>1, TransmitSends DEF SV_TransmitNextInQueue
<1>5. CASE SV_Netchan_FreeQueue \/ \E p \in net : CL_Process(p)
  BY <1>1, <1>5 DEF SV_Netchan_FreeQueue, CL_Process
<1>6. CASE UNCHANGED vars
  BY <1>1, <1>6 DEF vars
<1> QED
  BY <1>2, <1>3, <1>4, <1>5, <1>6 DEF Next

(***************************************************************************)
(* Netchan_Transmit and Netchan_TransmitNextFragment never give up a       *)
(* sequence number before every fragment of its message is on its way.     *)
(***************************************************************************)
THEOREM Completeness == Spec => []SentCompletely
<1>1. Init => SentInv
  BY DEF Init, SetupOut, SentInv, SentCompletely
<1>2. SentInv => SentCompletely
  BY DEF SentInv
<1> QED
  BY <1>1, <1>2, Invariance, SentStep, PTL DEF Spec
-----------------------------------------------------------------------------
(***************************************************************************)
(* Nothing is under way but packets of the messages sent: with             *)
(* SentCompletely, the packets of a message that is complete are known.    *)
(***************************************************************************)
OnlyInv == \A p \in net : p \in MessagePackets(p.sequence, sent[p.sequence])

(***************************************************************************)
(* A packet of a message joins the others.                                 *)
(***************************************************************************)
LEMMA OnlyKept ==
  ASSUME IInv, OnlyInv, sent' \in Seq(Message), Grows(sent, sent'),
         NEW q, net' = net \cup {q}, q \in MessagePackets(q.sequence, sent'[q.sequence])
  PROVE  OnlyInv'
<1>1. SUFFICES ASSUME NEW p \in net'
               PROVE  p \in MessagePackets(p.sequence, sent'[p.sequence])
  BY DEF OnlyInv
<1>2. CASE p \in net
  <2>1. p.sequence \in 1 .. Len(sent)
    BY <1>2 DEF IInv, NetInv
  <2>2. sent'[p.sequence] = sent[p.sequence]
    BY <2>1 DEF Grows
  <2> QED
    BY <1>2, <2>2 DEF OnlyInv
<1> QED
  BY <1>2

(***************************************************************************)
(* What Netchan_Transmit sends is a packet of its message.                 *)
(***************************************************************************)
LEMMA TransmitOnly ==
  ASSUME IInv, OnlyInv, ~out.unsentFragments, NEW m \in Message, Transmit(m)
  PROVE  OnlyInv'
<1>1. PICK seq \in Nat : seq = out.outgoingSequence
  BY DEF IInv, TypeOK, OutType
<1>2. out \in OutType /\ sent \in Seq(Message) /\ Len(sent) = seq - 1
  BY <1>1 DEF IInv, TypeOK, OutInv
<1>3. sent' \in Seq(Message) /\ Grows(sent, sent') /\ sent'[seq] = m
  BY <1>1, <1>2, AppendGrows DEF Transmit
<1>4. PICK q : q = TransmitPacket(out, m)
  OBVIOUS
<1>5. q.sequence = seq
  BY <1>1, <1>2, <1>4, TransmitIsGood
<1>6. q \in MessagePackets(seq, m)
  <2>1. CASE m.length >= FRAGMENT_SIZE
    <3>1. q = FragmentPacket(seq, m, 0)
      BY <1>1, <1>2, <1>4, <2>1 DEF TransmitPacket, NextFragment, Loaded, OutType
    <3>2. 0 \in { t \in FragmentStarts : t <= m.length }
      BY <2>1, ZeroIsStart, SizeType DEF Message
    <3> QED
      BY <2>1, <3>1, <3>2 DEF MessagePackets
  <2>2. CASE ~(m.length >= FRAGMENT_SIZE)
    BY <1>1, <1>4, <2>2 DEF MessagePackets, TransmitPacket
  <2> QED
    BY <2>1, <2>2
<1>7. net' = net \cup {q}
  BY <1>4 DEF Transmit
<1> QED
  BY <1>3, <1>5, <1>6, <1>7, OnlyKept

(***************************************************************************)
(* Every step keeps to the packets of messages sent.                       *)
(***************************************************************************)
LEMMA OnlyStep == IInv /\ SentInv /\ OnlyInv /\ [Next]_vars => OnlyInv'
<1> SUFFICES ASSUME IInv, SentInv, OnlyInv, [Next]_vars
             PROVE  OnlyInv'
  OBVIOUS
<1>1. ASSUME UNCHANGED <<net, sent>>
      PROVE  OnlyInv'
  BY <1>1 DEF OnlyInv
<1>2. ASSUME NEW len \in Lengths, SV_Netchan_Transmit(len)
      PROVE  OnlyInv'
  <2>1. PICK m : m = [id |-> Len(accepted) + 1, length |-> len]
    OBVIOUS
  <2>2. m \in Message
    BY <2>1, ServerNetchanAssumption DEF IInv, TypeOK, Message
  <2>3. CASE Busy
    BY <1>1, <1>2, <2>3 DEF SV_Netchan_Transmit
  <2>4. CASE ~Busy
    BY <1>2, <2>1, <2>2, <2>4, TransmitOnly DEF SV_Netchan_Transmit, Busy
  <2> QED
    BY <2>3, <2>4
<1>3. CASE SV_TransmitNextFragment
  <2>1. PICK seq \in Nat, msg \in Message, start \in FragmentStarts :
           /\ seq = out.outgoingSequence /\ msg = out.unsentMsg
           /\ start = out.unsentFragmentStart
    BY <1>3 DEF IInv, TypeOK, OutType, OutInv, SV_TransmitNextFragment
  <2>2. /\ sent \in Seq(Message) /\ sent' = sent
        /\ msg = sent[seq]
        /\ start <= msg.length
        /\ msg.length >= FRAGMENT_SIZE
        /\ net' = net \cup {FragmentPacket(seq, msg, start)}
    BY <1>3, <2>1 DEF IInv, TypeOK, OutInv, SentInv, SV_TransmitNextFragment, NextFragment
  <2>3. PICK q : q = FragmentPacket(seq, msg, start)
    OBVIOUS
  <2>4. q.sequence = seq /\ q \in MessagePackets(seq, msg)
    BY <2>2, <2>3 DEF FragmentPacket, MessagePackets
  <2> QED
    BY <2>2, <2>3, <2>4, SameGrows, OnlyKept
<1>4. CASE SV_TransmitNextInQueue
  <2>1. Head(queue) \in Message
    BY <1>4 DEF IInv, TypeOK, SV_TransmitNextInQueue
  <2> QED
    BY <1>4, <2>1, TransmitOnly DEF SV_TransmitNextInQueue
<1>5. CASE SV_Netchan_FreeQueue \/ \E p \in net : CL_Process(p)
  BY <1>1, <1>5 DEF SV_Netchan_FreeQueue, CL_Process
<1>6. CASE UNCHANGED vars
  BY <1>1, <1>6 DEF vars
<1> QED
  BY <1>2, <1>3, <1>4, <1>5, <1>6 DEF Next

(***************************************************************************)
(* A message shorter than a fragment is read from its one packet.          *)
(***************************************************************************)
LEMMA PlainIsRead ==
  ASSUME NEW s \in Nat \ {0}, NEW msg \in Message
  PROVE  ReadPacket([chan |-> SetupIn, got |-> << >>], PlainPacket(s, msg)).got = << msg >>
<1> DEFINE p == PlainPacket(s, msg)
           chunk == [msg |-> msg, start |-> 0, len |-> msg.length]
<1>1. /\ p.sequence = s
      /\ ~p.fragmented
      /\ p.chunk = chunk
  BY DEF PlainPacket
<1>2. SetupIn.incomingSequence = 0
  BY DEF SetupIn
<1>3. Delivers(SetupIn, p)
  BY <1>1, <1>2 DEF Delivers, Stale
<1>4. DeliveredMessage(SetupIn, p) = Reassembled(<< chunk >>)
  BY <1>1 DEF DeliveredMessage
<1>5. Beginning(<< chunk >>, msg.length, msg)
  BY SizeType DEF Beginning, Message
<1>6. Reassembled(<< chunk >>) = msg
  BY <1>5, WholeIsReassembled
<1> HIDE DEF p
<1>7. ReadPacket([chan |-> SetupIn, got |-> << >>], p).got = Append(<< >>, msg)
  BY <1>3, <1>4, <1>6 DEF ReadPacket
<1> QED
  BY <1>7 DEF p

(***************************************************************************)
(* A message of one full fragment and a shorter one, or an empty one, is   *)
(* read from the two: the offset of the second fits in 16 bits.            *)
(***************************************************************************)
LEMMA TwoAreRead ==
  ASSUME NEW s \in Nat \ {0}, NEW msg \in Message,
         msg.length >= FRAGMENT_SIZE, msg.length < 2 * FRAGMENT_SIZE
  PROVE  ReadPacket(ReadPacket([chan |-> SetupIn, got |-> << >>], FragmentPacket(s, msg, 0)),
                  FragmentPacket(s, msg, FRAGMENT_SIZE)).got = << msg >>
<1> DEFINE p == FragmentPacket(s, msg, 0)
           q == FragmentPacket(s, msg, FRAGMENT_SIZE)
           one == [msg |-> msg, start |-> 0, len |-> FRAGMENT_SIZE]
           two == [msg |-> msg, start |-> FRAGMENT_SIZE, len |-> msg.length - FRAGMENT_SIZE]
           first == AfterProcess(SetupIn, p)
           buffer == Append(<< one >>, two)
<1>1. /\ msg.length \in Nat /\ msg.length <= MAX_MSGLEN
      /\ FragmentLen(msg, 0) = FRAGMENT_SIZE
      /\ FragmentLen(msg, FRAGMENT_SIZE) = msg.length - FRAGMENT_SIZE
  BY SizeType DEF FragmentLen, Message
<1>2. /\ Short(0) = 0
      /\ Short(FRAGMENT_SIZE) = FRAGMENT_SIZE
      /\ Short(msg.length - FRAGMENT_SIZE) = msg.length - FRAGMENT_SIZE
  BY <1>1, SizeType DEF Short
<1>3. /\ p.sequence = s /\ p.fragmented
      /\ p.fragmentStart = 0 /\ p.fragmentLength = FRAGMENT_SIZE
      /\ p.chunk = one
  BY <1>1, <1>2 DEF FragmentPacket
<1>4. /\ q.sequence = s /\ q.fragmented
      /\ q.fragmentStart = FRAGMENT_SIZE
      /\ q.fragmentLength = msg.length - FRAGMENT_SIZE
      /\ q.chunk = two
  BY <1>1, <1>2 DEF FragmentPacket
<1> HIDE DEF p, q
<1>5. /\ ~Delivers(SetupIn, p)
      /\ first.incomingSequence = 0
      /\ first.fragmentSequence = s
      /\ first.fragmentLength = FRAGMENT_SIZE
      /\ first.fragmentBuffer = << one >>
  <2> DEFINE c == Restarted(SetupIn, p)
  <2>1. c = [incomingSequence |-> 0, fragmentSequence |-> s,
             fragmentLength |-> 0, fragmentBuffer |-> << >>]
    BY <1>3 DEF Restarted, SetupIn
  <2>2. ~Stale(SetupIn, p)
    BY <1>3 DEF Stale, SetupIn
  <2>3. Fits(c, p)
    BY <1>1, <1>3, <2>1, SizeType DEF Fits
  <2>4. first = Filled(c, p) /\ ~Delivers(SetupIn, p)
    <3> HIDE DEF c
    <3> QED
      BY <1>3, <2>2, <2>3 DEF AfterProcess, Delivers, c
  <2>5. Append(<< >>, one) = << one >> /\ 0 + FRAGMENT_SIZE = FRAGMENT_SIZE
    BY SizeType
  <2>6. /\ Filled(c, p).incomingSequence = 0
        /\ Filled(c, p).fragmentSequence = s
        /\ Filled(c, p).fragmentLength = 0 + FRAGMENT_SIZE
        /\ Filled(c, p).fragmentBuffer = Append(<< >>, one)
    <3> HIDE DEF c, one
    <3> QED
      BY <1>3, <2>1 DEF Filled
  <2> HIDE DEF c, one, first
  <2> QED
    BY <2>4, <2>5, <2>6
<1> HIDE DEF first
<1>6. Delivers(first, q) /\ DeliveredMessage(first, q) = Reassembled(buffer)
  <2>1. Restarted(first, q) = first
    BY <1>4, <1>5 DEF Restarted
  <2>2. ~Stale(first, q)
    BY <1>4, <1>5 DEF Stale
  <2>3. Fits(first, q) /\ q.fragmentLength # FRAGMENT_SIZE
    BY <1>1, <1>4, <1>5, SizeType DEF Fits
  <2>4. q.fragmented /\ q.chunk = two
    BY <1>4
  <2>5. Delivers(first, q)
    BY <2>1, <2>2, <2>3, <2>4 DEF Delivers
  <2>6. DeliveredMessage(first, q) = Reassembled(Filled(first, q).fragmentBuffer)
    BY <2>1, <2>4 DEF DeliveredMessage
  <2>7. Filled(first, q).fragmentBuffer = Append(first.fragmentBuffer, q.chunk)
    <3> HIDE DEF two
    <3> QED
      BY <1>5, <2>4 DEF Filled
  <2> QED
    BY <1>5, <2>4, <2>5, <2>6, <2>7
<1>7. Len(buffer) = 2 /\ buffer[1] = one /\ buffer[2] = two
  <2> HIDE DEF one, two
  <2> QED
    OBVIOUS
<1> HIDE DEF buffer
<1>8. Beginning(buffer, msg.length, msg)
  BY <1>1, <1>7, SizeType DEF Beginning
<1>9. Reassembled(buffer) = msg
  BY <1>7, <1>8, WholeIsReassembled
<1>10. ReadPacket([chan |-> SetupIn, got |-> << >>], p) = [chan |-> first, got |-> << >>]
  BY <1>5 DEF ReadPacket, first
<1>11. ReadPacket([chan |-> first, got |-> << >>], q).got = Append(<< >>, msg)
  BY <1>6, <1>9 DEF ReadPacket
<1> QED
  BY <1>10, <1>11 DEF p, q

(***************************************************************************)
(* The packets of a message that is complete, by their offsets.            *)
(***************************************************************************)
LEMMA PacketsKnown ==
  ASSUME IInv, SentInv, OnlyInv, NEW s \in 1 .. out.outgoingSequence - 1
  PROVE  /\ s \in Nat \ {0}
         /\ sent[s] \in Message
         /\ \A start : PacketsAt(s, start)
                          = { p \in MessagePackets(s, sent[s]) : p.chunk.start = start }
<1>1. PICK seq \in Nat : seq = out.outgoingSequence
  BY DEF IInv, TypeOK, OutType
<1>2. sent \in Seq(Message) /\ s \in 1 .. Len(sent)
  BY <1>1 DEF IInv, TypeOK, OutInv
<1>3. MessagePackets(s, sent[s]) \subseteq net
  BY DEF SentInv, SentCompletely
<1>4. \A p \in MessagePackets(s, sent[s]) : p.sequence = s
  BY DEF MessagePackets, FragmentPacket, PlainPacket
<1> QED
  BY <1>1, <1>2, <1>3, <1>4 DEF OnlyInv, PacketsAt

(***************************************************************************)
(* Where there is one packet, it is read.                                  *)
(***************************************************************************)
LEMMA ReadNextOnly ==
  ASSUME NEW r, NEW s, NEW start, NEW p, PacketsAt(s, start) = {p}
  PROVE  ReadNext(r, s, start) = ReadPacket(r, p)
<1>1. (CHOOSE q \in PacketsAt(s, start) : TRUE) = p
  OBVIOUS
<1> QED
  BY <1>1 DEF ReadNext

(***************************************************************************)
(* A fresh receiver that reads the first n packets of sequence s.          *)
(***************************************************************************)
IsReading(read, s, n) ==
    read = [k \in 0 .. n |-> IF k = 0 THEN [chan |-> SetupIn, got |-> << >>]
                             ELSE ReadNext(read[k - 1], s, (k - 1) * FRAGMENT_SIZE)]

(***************************************************************************)
(* One or two packets are read one by one.                                 *)
(***************************************************************************)
LEMMA ReadingStarts ==
  ASSUME NEW read, NEW s, NEW n \in {1, 2}, IsReading(read, s, n)
  PROVE  /\ read[0] = [chan |-> SetupIn, got |-> << >>]
         /\ read[1] = ReadNext(read[0], s, 0)
         /\ n = 2 => read[2] = ReadNext(read[1], s, FRAGMENT_SIZE)
<1>1. \A k \in 0 .. n : read[k] = IF k = 0 THEN [chan |-> SetupIn, got |-> << >>]
                                   ELSE ReadNext(read[k - 1], s, (k - 1) * FRAGMENT_SIZE)
  BY DEF IsReading
<1>2. 0 * FRAGMENT_SIZE = 0 /\ 1 * FRAGMENT_SIZE = FRAGMENT_SIZE
  BY SizeType
<1> QED
  BY <1>1, <1>2

(***************************************************************************)
(* They can be read, and ReadInOrder does so.                              *)
(***************************************************************************)
LEMMA ReadingExists ==
  ASSUME NEW s, NEW n \in {1, 2}, sent[s].length \div FRAGMENT_SIZE = n - 1
  PROVE  \E read : IsReading(read, s, n) /\ ReadInOrder(s) = read[n]
<1> DEFINE fresh == [chan |-> SetupIn, got |-> << >>]
           first == ReadNext(fresh, s, 0)
           second == ReadNext(first, s, FRAGMENT_SIZE)
           some == [k \in 0 .. n |-> IF k = 0 THEN fresh ELSE IF k = 1 THEN first ELSE second]
<1>1. /\ \A k \in 0 .. n : k = 0 \/ k = 1 \/ k = 2
      /\ 0 * FRAGMENT_SIZE = 0 /\ 1 * FRAGMENT_SIZE = FRAGMENT_SIZE
  BY SizeType
<1>2. ASSUME NEW k \in 0 .. n
      PROVE  some[k] = IF k = 0 THEN fresh
                       ELSE ReadNext(some[k - 1], s, (k - 1) * FRAGMENT_SIZE)
  <2> HIDE DEF fresh
  <2> QED
    BY <1>1
<1>3. IsReading(some, s, n)
  BY <1>2 DEF IsReading
<1> DEFINE read == CHOOSE f : IsReading(f, s, n)
<1> HIDE DEF some
<1>4. IsReading(read, s, n)
  BY <1>3
<1>5. (n - 1) + 1 = n
  OBVIOUS
<1>6. ReadInOrder(s) = read[n]
  BY <1>5 DEF ReadInOrder, IsReading
<1> QED
  BY <1>4, <1>6

(***************************************************************************)
(* A short message that is complete can be read.                           *)
(***************************************************************************)
LEMMA ShortIsRead ==
  ASSUME IInv, SentInv, OnlyInv, NEW s \in 1 .. out.outgoingSequence - 1,
         sent[s].length < 2 * FRAGMENT_SIZE
  PROVE  Readable(s)
<1>1. PICK msg \in Message : msg = sent[s]
  BY PacketsKnown
<1>2. /\ s \in Nat \ {0}
      /\ msg.length \in Nat /\ msg.length <= MAX_MSGLEN
      /\ msg.length < 2 * FRAGMENT_SIZE
  BY <1>1, PacketsKnown, SizeType DEF Message
<1>3. \A start : PacketsAt(s, start) = { p \in MessagePackets(s, msg) : p.chunk.start = start }
  BY <1>1, PacketsKnown
<1> DEFINE fresh == [chan |-> SetupIn, got |-> << >>]
<1>4. CASE msg.length < FRAGMENT_SIZE
  <2>1. sent[s].length \div FRAGMENT_SIZE = 0
    BY <1>1, <1>2, <1>4, SizeType
  <2>2. PICK read : IsReading(read, s, 1) /\ ReadInOrder(s) = read[1]
    BY <2>1, ReadingExists
  <2>3. read[0] = fresh /\ read[1] = ReadNext(fresh, s, 0)
    BY <2>2, ReadingStarts
  <2>4. PacketsAt(s, 0) = {PlainPacket(s, msg)}
    BY <1>2, <1>3, <1>4, SizeType DEF MessagePackets, PlainPacket
  <2>5. ReadNext(fresh, s, 0) = ReadPacket(fresh, PlainPacket(s, msg))
    BY <2>4, ReadNextOnly
  <2> HIDE DEF fresh
  <2> QED
    BY <1>1, <1>2, <2>2, <2>3, <2>5, PlainIsRead DEF Readable, fresh
<1>5. CASE msg.length >= FRAGMENT_SIZE
  <2>1. sent[s].length \div FRAGMENT_SIZE = 1
    BY <1>1, <1>2, <1>5, SizeType
  <2>2. PICK read : IsReading(read, s, 2) /\ ReadInOrder(s) = read[2]
    BY <2>1, ReadingExists
  <2>3. /\ read[0] = fresh
        /\ read[1] = ReadNext(fresh, s, 0)
        /\ read[2] = ReadNext(read[1], s, FRAGMENT_SIZE)
    BY <2>2, ReadingStarts
  <2>4. 0 \in FragmentStarts /\ FRAGMENT_SIZE \in FragmentStarts
    <3>1. 0 + FRAGMENT_SIZE <= MAX_MSGLEN /\ 0 + FRAGMENT_SIZE = FRAGMENT_SIZE
      BY <1>2, <1>5, SizeType
    <3>2. 0 + FRAGMENT_SIZE \in FragmentStarts
      BY <3>1, ZeroIsStart, NextStart
    <3> QED
      BY <3>1, <3>2, ZeroIsStart
  <2>5. \A start \in FragmentStarts : start <= msg.length =>
           PacketsAt(s, start) = {FragmentPacket(s, msg, start)}
    BY <1>2, <1>3, <1>5 DEF MessagePackets, FragmentPacket
  <2>6. /\ PacketsAt(s, 0) = {FragmentPacket(s, msg, 0)}
        /\ PacketsAt(s, FRAGMENT_SIZE) = {FragmentPacket(s, msg, FRAGMENT_SIZE)}
    BY <1>2, <1>5, <2>4, <2>5, SizeType
  <2>7. /\ read[1] = ReadPacket(fresh, FragmentPacket(s, msg, 0))
        /\ read[2] = ReadPacket(read[1], FragmentPacket(s, msg, FRAGMENT_SIZE))
    BY <2>3, <2>6, ReadNextOnly
  <2>8. read[2].got = << msg >>
    BY <1>2, <1>5, <2>7, TwoAreRead
  <2> QED
    BY <1>1, <2>2, <2>8 DEF Readable
<1> QED
  BY <1>2, <1>4, <1>5, SizeType

(***************************************************************************)
(* A message of fewer than two full fragments whose packets arrive in      *)
(* order is read, for every fragment size a 16-bit offset can hold.        *)
(***************************************************************************)
THEOREM ShortMessagesReadable == Spec => []ShortReadable
<1>1. Init => SentInv /\ OnlyInv
  BY DEF Init, SetupOut, SentInv, SentCompletely, OnlyInv
<1>2. IInv /\ SentInv /\ OnlyInv => ShortReadable
  BY ShortIsRead DEF ShortReadable
<1> QED
  BY <1>1, <1>2, Invariance, SentStep, OnlyStep, PTL DEF Spec
=============================================================================
