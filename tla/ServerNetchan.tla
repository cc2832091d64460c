--------------------------- MODULE ServerNetchan ---------------------------
(***************************************************************************)
(* The server-to-client direction of a connection: SV_Netchan_Transmit and *)
(* its queue (server/sv_net_chan.c) over the channel of qcommon/net_chan.c *)
(* and a datagram network that loses, duplicates and reorders, read by the *)
(* client's Netchan_Process.                                               *)
(*                                                                         *)
(* net only grows: a datagram that was ever sent may arrive at any time,   *)
(* any number of times, or never.                                          *)
(***************************************************************************)
EXTENDS Netchan

CONSTANTS
    Lengths,        \* the message lengths the server hands to the channel
    MaxMessages     \* bound: messages handed to the channel

ASSUME ServerNetchanAssumption ==
    /\ Lengths \subseteq 0 .. MAX_MSGLEN
    /\ MaxMessages \in Nat

VARIABLES
    out,        \* the server's sending half of client_t.netchan
    queue,      \* netchan_start_queue .. netchan_end_queue
    net,        \* every datagram sent so far
    in,         \* the client's receiving half of clc.netchan
    accepted,   \* history: messages passed to SV_Netchan_Transmit
    sent,       \* history: sent[s] is the message transmitted as sequence s
    delivered   \* history: messages Netchan_Process returned qtrue for

vars == <<out, queue, net, in, accepted, sent, delivered>>

\* Mutants: only the fragments, or only the queue, hold a message back.
BusyFragments == out.unsentFragments
BusyQueue == queue # << >>

Busy == out.unsentFragments \/ queue # << >>

Init ==
    /\ out = SetupOut
    /\ queue = << >>
    /\ net = {}
    /\ in = SetupIn
    /\ accepted = << >>
    /\ sent = << >>
    /\ delivered = << >>

Transmit(m) ==
    /\ out' = AfterTransmit(out, m)
    /\ net' = net \cup {TransmitPacket(out, m)}
    /\ sent' = Append(sent, m)

(***************************************************************************)
(* SV_Netchan_Transmit: queued behind unfinished fragments or other queued *)
(* messages, transmitted at once otherwise.                                *)
(***************************************************************************)
SV_Netchan_Transmit(len) ==
    LET m == [id |-> Len(accepted) + 1, length |-> len]
    IN  /\ Len(accepted) < MaxMessages
        /\ accepted' = Append(accepted, m)
        /\ IF Busy
           THEN /\ queue' = Append(queue, m)
                /\ UNCHANGED <<out, net, sent>>
           ELSE /\ Transmit(m)
                /\ UNCHANGED queue
        /\ UNCHANGED <<in, delivered>>

(***************************************************************************)
(* SV_Netchan_TransmitNextFragment: the next fragment of the message under *)
(* way, or else the next queued message.                                   *)
(***************************************************************************)
SV_TransmitNextFragment ==
    /\ out.unsentFragments
    /\ net' = net \cup {NextFragment(out)}
    /\ out' = AfterNextFragment(out)
    /\ UNCHANGED <<queue, in, accepted, sent, delivered>>

\* Mutant: the queue itself keeps its head from going out.
SV_TransmitNextIfIdle ==
    /\ queue # << >>
    /\ ~Busy
    /\ Transmit(Head(queue))
    /\ queue' = Tail(queue)
    /\ UNCHANGED <<in, accepted, delivered>>

SV_TransmitNextInQueue ==
    /\ ~out.unsentFragments
    /\ queue # << >>
    /\ Transmit(Head(queue))
    /\ queue' = Tail(queue)
    /\ UNCHANGED <<in, accepted, delivered>>

(***************************************************************************)
(* SV_Netchan_FreeQueue, when the client is dropped: the fragments of the  *)
(* message under way still go out.                                         *)
(***************************************************************************)
SV_Netchan_FreeQueue ==
    /\ queue # << >>
    /\ queue' = << >>
    /\ UNCHANGED <<out, net, in, accepted, sent, delivered>>

(***************************************************************************)
(* Netchan_Process at the client, for any datagram the network holds.      *)
(***************************************************************************)
CL_Process(p) ==
    /\ in' = AfterProcess(in, p)
    /\ delivered' = IF Delivers(in, p)
                    THEN Append(delivered, DeliveredMessage(in, p))
                    ELSE delivered
    /\ UNCHANGED <<out, queue, net, accepted, sent>>

Next ==
    \/ \E len \in Lengths : SV_Netchan_Transmit(len)
    \/ SV_TransmitNextFragment
    \/ SV_TransmitNextInQueue
    \/ SV_Netchan_FreeQueue
    \/ \E p \in net : CL_Process(p)

Spec == Init /\ [][Next]_vars

(***************************************************************************)
(* SV_SendQueuedMessages walks every client each time the server is idle,  *)
(* so a fragment or a queued message that may go out does.                 *)
(***************************************************************************)
Fairness == WF_vars(SV_TransmitNextFragment) /\ WF_vars(SV_TransmitNextInQueue)

FairSpec == Spec /\ Fairness
-----------------------------------------------------------------------------
(***************************************************************************)
(* Type invariant.                                                         *)
(***************************************************************************)
OutType ==
    [outgoingSequence : Nat, unsentFragments : BOOLEAN,
     unsentFragmentStart : Nat, unsentMsg : Message]

InType ==
    [incomingSequence : Nat, fragmentSequence : Nat,
     fragmentLength : Nat, fragmentBuffer : Seq(Chunk)]

TypeOK ==
    /\ out \in OutType
    /\ queue \in Seq(Message)
    /\ net \subseteq Packet
    /\ in \in InType
    /\ accepted \in Seq(Message)
    /\ sent \in Seq(Message)
    /\ delivered \in Seq(Message)

(***************************************************************************)
(* Integrity.  Whatever the network does with the datagrams, a message     *)
(* that reaches the client is one the server handed to the channel, whole: *)
(* Netchan_Process never glues fragments of two messages together, leaves  *)
(* one out or copies one twice.                                            *)
(***************************************************************************)
DeliveredIntact ==
    \A i \in 1 .. Len(delivered) :
        /\ delivered[i].id \in 1 .. Len(accepted)
        /\ delivered[i] = accepted[delivered[i].id]

(***************************************************************************)
(* The client never sees a message twice, nor one after a later one.       *)
(***************************************************************************)
DeliveredInOrder ==
    \A i, j \in 1 .. Len(delivered) : i < j => delivered[i].id < delivered[j].id

(***************************************************************************)
(* "make sure they get sent in correct order" (sv_net_chan.c:105): the     *)
(* messages leave in the order SV_Netchan_Transmit was called.             *)
(***************************************************************************)
SentInOrder ==
    LET all == sent \o queue
    IN  \A i, j \in 1 .. Len(all) : i < j => all[i].id < all[j].id

(***************************************************************************)
(* No message is cut short by the next one: by the time a sequence number  *)
(* is given up, every fragment of its message has been sent.               *)
(***************************************************************************)
SentCompletely ==
    \A s \in 1 .. out.outgoingSequence - 1 : MessagePackets(s, sent[s]) \subseteq net

(***************************************************************************)
(* What a fresh receiver makes of the packets sent as sequence s when      *)
(* nothing is lost and nothing is reordered.                               *)
(***************************************************************************)
ReadPacket(r, p) ==
    [chan |-> AfterProcess(r.chan, p),
     got  |-> IF Delivers(r.chan, p) THEN Append(r.got, DeliveredMessage(r.chan, p))
                                     ELSE r.got]

PacketsAt(s, start) == { p \in net : p.sequence = s /\ p.chunk.start = start }

ReadNext(r, s, start) ==
    IF PacketsAt(s, start) = {} THEN r
    ELSE ReadPacket(r, CHOOSE p \in PacketsAt(s, start) : TRUE)

ReadInOrder(s) ==
    LET last == sent[s].length \div FRAGMENT_SIZE
        read[k \in 0 .. last + 1] ==
            IF k = 0 THEN [chan |-> SetupIn, got |-> << >>]
            ELSE ReadNext(read[k - 1], s, (k - 1) * FRAGMENT_SIZE)
    IN  read[last + 1]

(***************************************************************************)
(* "max length of a message, which may be fragmented into multiple         *)
(* packets" (qcommon.h:217): every message the channel has sent to the end *)
(* can be read by a receiver that gets its fragments once each and in      *)
(* order.                                                                  *)
(***************************************************************************)
Readable(s) == ReadInOrder(s).got = << sent[s] >>

ReadableWhenComplete == \A s \in 1 .. out.outgoingSequence - 1 : Readable(s)

(***************************************************************************)
(* The same for messages of fewer than two full fragments, whose offsets   *)
(* fit in 16 bits.                                                         *)
(***************************************************************************)
ShortReadable ==
    \A s \in 1 .. out.outgoingSequence - 1 :
        sent[s].length < 2 * FRAGMENT_SIZE => Readable(s)

(***************************************************************************)
(* A message waiting in the queue leaves it.                               *)
(***************************************************************************)
QueueDrains ==
    \A n \in 1 .. MaxMessages :
        (\E i \in 1 .. Len(queue) : queue[i].id = n) ~>
            ~(\E i \in 1 .. Len(queue) : queue[i].id = n)

(***************************************************************************)
(* A message that was begun is finished.                                   *)
(***************************************************************************)
FragmentsFinish == out.unsentFragments ~> ~out.unsentFragments

(***************************************************************************)
(* The channel implements the lossy ordered channel.                       *)
(***************************************************************************)
Abstract == INSTANCE LossyChannel
                WITH Lengths <- Lengths, accepted <- accepted, delivered <- delivered
ImplementsLossyChannel == Abstract!Spec
=============================================================================
