--------------------------- MODULE MessageChannel ---------------------------
(***************************************************************************)
(* The server's messages to one client as whole messages: client_t.netchan *)
(* and its queue of server/sv_net_chan.c, and what is in flight to the     *)
(* client.  A message shorter than a fragment leaves at once; a longer one *)
(* stays under way until its last fragment, and messages handed over       *)
(* meanwhile wait in the queue.  Those in flight arrive in order, or not   *)
(* at all (see ServerNetchan).                                             *)
(*                                                                         *)
(* Messages are records with at least a size and a sequence.               *)
(***************************************************************************)
EXTENDS Integers, Sequences

CONSTANTS
    Sizes,          \* subset of {"small", "large"}: whether messages are fragmented
    MaxSequence,    \* bound: server messages
    MaxInFlight     \* bound: messages in flight in each direction

ASSUME MessageChannelAssumption ==
    /\ Sizes \subseteq {"small", "large"}
    /\ Sizes # {}
    /\ {MaxSequence, MaxInFlight} \subseteq Nat

VARIABLES
    chan,       \* outgoingSequence, the message whose fragments are under
                \* way, the queue
    toClient    \* server messages in flight

NoMessage == [kind |-> "none"]
Busy == chan.sending # NoMessage \/ chan.queue # << >>

ChannelInit ==
    /\ chan = [outgoingSequence |-> 1, sending |-> NoMessage, queue |-> << >>]
    /\ toClient = << >>

(***************************************************************************)
(* The sequence number is the channel's, given when a message begins to go *)
(* out.                                                                    *)
(***************************************************************************)
Begin(m, rest) ==
    LET numbered == [m EXCEPT !.sequence = chan.outgoingSequence]
    IN  IF m.size = "large"
        THEN /\ chan' = [chan EXCEPT !.sending = numbered, !.queue = rest]
             /\ UNCHANGED toClient
        ELSE /\ chan' = [chan EXCEPT !.outgoingSequence = @ + 1, !.queue = rest]
             /\ toClient' = Append(toClient, numbered)

(***************************************************************************)
(* SV_Netchan_Transmit: a message is begun unless something is still under *)
(* way.                                                                    *)
(***************************************************************************)
SV_Netchan_Transmit(m) ==
    /\ chan.outgoingSequence + Len(chan.queue) < MaxSequence
    /\ Len(toClient) + Len(chan.queue) < MaxInFlight
    /\ IF Busy
       THEN /\ chan' = [chan EXCEPT !.queue = Append(@, m)]
            /\ UNCHANGED toClient
       ELSE Begin(m, << >>)

(***************************************************************************)
(* SV_Netchan_TransmitNextFragment: the last fragment of the message under *)
(* way, which completes it, or else the next message of the queue.         *)
(***************************************************************************)
SV_Netchan_TransmitNextFragment ==
    /\ Busy
    /\ IF chan.sending # NoMessage
       THEN /\ chan' = [chan EXCEPT !.sending = NoMessage, !.outgoingSequence = @ + 1]
            /\ toClient' = Append(toClient, chan.sending)
       ELSE Begin(Head(chan.queue), Tail(chan.queue))

\* Every message that may still arrive.
Coming ==
    {toClient[i] : i \in 1 .. Len(toClient)} \cup ({chan.sending} \ {NoMessage})
        \cup {chan.queue[i] : i \in 1 .. Len(chan.queue)}
=============================================================================
