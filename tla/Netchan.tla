------------------------------ MODULE Netchan ------------------------------
(***************************************************************************)
(* The sequenced channel of qcommon/net_chan.c, as operators on the two    *)
(* halves of a netchan_t.  Both directions of a connection are built from  *)
(* them: ServerNetchan (server to client) and ClientNetchan (client to     *)
(* server).                                                                *)
(*                                                                         *)
(* The bytes of a message are abstracted to its identity and its length: a *)
(* piece of a message is the chunk [msg, start, len], and a reassembly     *)
(* buffer is the sequence of the chunks copied into it.  The lengths, the  *)
(* fragment size and the 16-bit fragment offset are the code's own         *)
(* numbers.  qport and checksum are left out: both ends of the connection  *)
(* modelled here hold the same challenge, so the checksum always matches.  *)
(***************************************************************************)
EXTENDS Integers, Sequences

CONSTANTS
    FRAGMENT_SIZE,  \* bytes of payload in a full fragment
    MAX_MSGLEN,     \* the longest message the channel accepts
    MaxFragments    \* full fragments that fit in MAX_MSGLEN

(***************************************************************************)
(* MSG_WriteShort followed by MSG_ReadShort: the value keeps its low 16    *)
(* bits and comes back sign-extended.                                      *)
(***************************************************************************)
Short(n) == ((n + 32768) % 65536) - 32768

(***************************************************************************)
(* The offsets at which a fragment can start.                              *)
(***************************************************************************)
FragmentStarts == { k * FRAGMENT_SIZE : k \in 0 .. MaxFragments }

ASSUME NetchanAssumption ==
    /\ FRAGMENT_SIZE \in Nat \ {0}
    /\ FRAGMENT_SIZE <= 32767
    /\ MAX_MSGLEN \in Nat

ASSUME MaxFragmentsAssumption ==
    /\ MaxFragments \in Nat
    /\ MaxFragments * FRAGMENT_SIZE <= MAX_MSGLEN
    /\ MAX_MSGLEN < (MaxFragments + 1) * FRAGMENT_SIZE

(***************************************************************************)
(* A fragment offset that comes back as another offset would let a         *)
(* fragment be copied to the wrong place.  With the code's numbers an      *)
(* offset either survives the 16 bits or comes back as a value that is no  *)
(* offset at all.                                                          *)
(***************************************************************************)
ASSUME OffsetAssumption ==
    \A s, t \in FragmentStarts : Short(s) = t => s = t

Message == [id : Nat, length : 0 .. MAX_MSGLEN]
Corrupt == [id |-> 0, length |-> 0]
Chunk == [msg : Message, start : Nat, len : Nat]

(***************************************************************************)
(* The sending half of a netchan_t after Netchan_Setup.                    *)
(***************************************************************************)
SetupOut ==
    [outgoingSequence |-> 1, unsentFragments |-> FALSE,
     unsentFragmentStart |-> 0, unsentMsg |-> Corrupt]

(***************************************************************************)
(* The receiving half after Netchan_Setup.                                 *)
(***************************************************************************)
SetupIn ==
    [incomingSequence |-> 0, fragmentSequence |-> 0,
     fragmentLength |-> 0, fragmentBuffer |-> << >>]

(***************************************************************************)
(* How many bytes the fragment of a message that begins at start carries,  *)
(* and whether it is the last one: a full fragment never is.               *)
(***************************************************************************)
\* Mutant: the subtraction the wrong way round.
FragmentLenSwapped(msg, start) ==
    IF start + FRAGMENT_SIZE > msg.length THEN start - msg.length ELSE FRAGMENT_SIZE

FragmentLen(msg, start) ==
    IF start + FRAGMENT_SIZE > msg.length THEN msg.length - start ELSE FRAGMENT_SIZE

\* Mutant: no empty fragment after a message of full fragments.
IsFinalAtEnd(msg, start) == start + FragmentLen(msg, start) = msg.length

IsFinal(msg, start) ==
    LET len == FragmentLen(msg, start)
    IN  start + len = msg.length /\ len # FRAGMENT_SIZE

FragmentPacket(seq, msg, start) ==
    LET len == FragmentLen(msg, start)
    IN  [sequence |-> seq, fragmented |-> TRUE,
         fragmentStart |-> Short(start), fragmentLength |-> Short(len),
         chunk |-> [msg |-> msg, start |-> start, len |-> len]]

PlainPacket(seq, msg) ==
    [sequence |-> seq, fragmented |-> FALSE,
     fragmentStart |-> 0, fragmentLength |-> 0,
     chunk |-> [msg |-> msg, start |-> 0, len |-> msg.length]]

Packet == [sequence : Nat, fragmented : BOOLEAN,
           fragmentStart : Int, fragmentLength : Int, chunk : Chunk]

(***************************************************************************)
(* Netchan_TransmitNextFragment: one more fragment of the current message  *)
(* goes out; the sequence number moves on with the last one only.          *)
(***************************************************************************)
NextFragment(chan) ==
    FragmentPacket(chan.outgoingSequence, chan.unsentMsg, chan.unsentFragmentStart)

\* Mutant: the offset does not move on.
AfterNextFragmentStuck(chan) ==
    LET final == IsFinal(chan.unsentMsg, chan.unsentFragmentStart)
    IN  [chan EXCEPT !.outgoingSequence = IF final THEN @ + 1 ELSE @,
                     !.unsentFragments = ~final]

AfterNextFragment(chan) ==
    LET start == chan.unsentFragmentStart
        final == IsFinal(chan.unsentMsg, start)
    IN  [chan EXCEPT
            !.unsentFragmentStart = start + FragmentLen(chan.unsentMsg, start),
            !.outgoingSequence = IF final THEN @ + 1 ELSE @,
            !.unsentFragments = ~final]

(***************************************************************************)
(* Netchan_Transmit: a message shorter than a fragment goes out whole; of  *)
(* a longer one only the first fragment goes out now.                      *)
(***************************************************************************)
Loaded(chan, msg) ==
    [chan EXCEPT !.unsentFragmentStart = 0, !.unsentFragments = TRUE, !.unsentMsg = msg]

TransmitPacket(chan, msg) ==
    IF msg.length >= FRAGMENT_SIZE
    THEN NextFragment(Loaded(chan, msg))
    ELSE PlainPacket(chan.outgoingSequence, msg)

AfterTransmit(chan, msg) ==
    IF msg.length >= FRAGMENT_SIZE
    THEN AfterNextFragment(Loaded(chan, msg))
    ELSE [chan EXCEPT !.unsentFragmentStart = 0, !.outgoingSequence = @ + 1]

(***************************************************************************)
(* The packets Netchan_EnqueueFragments and Netchan_Enqueue produce for a  *)
(* message, and the ones repeated Netchan_TransmitNextFragment calls do.   *)
(***************************************************************************)
MessagePackets(seq, msg) ==
    IF msg.length >= FRAGMENT_SIZE
    THEN { FragmentPacket(seq, msg, s) : s \in { t \in FragmentStarts : t <= msg.length } }
    ELSE { PlainPacket(seq, msg) }

(***************************************************************************)
(* What a reassembly buffer holds, read as a message: the chunks of one    *)
(* message, each where the one before it ends, up to its full length.      *)
(***************************************************************************)
Whole(buffer, msg) ==
    LET n == Len(buffer)
    IN  /\ n > 0
        /\ buffer[1].start = 0
        /\ \A i \in 1 .. n : buffer[i].msg = msg
        /\ \A i \in 1 .. n - 1 : buffer[i + 1].start = buffer[i].start + buffer[i].len
        /\ buffer[n].start + buffer[n].len = msg.length

Reassembled(buffer) ==
    IF Whole(buffer, buffer[1].msg) THEN buffer[1].msg ELSE Corrupt

(***************************************************************************)
(* Netchan_Process, in its parts.  A packet that is not newer than the     *)
(* last delivered one is discarded.  A fragment of another sequence than   *)
(* the one being reassembled restarts the reassembly; one that does not    *)
(* start where the buffer ends, or that does not fit, is discarded after   *)
(* that.                                                                   *)
(***************************************************************************)
\* Mutant: the packet delivered last is taken again.
StaleStrict(chan, p) == p.sequence - chan.incomingSequence < 0

Stale(chan, p) == p.sequence - chan.incomingSequence <= 0

\* Mutant: the buffer of the sequence before is kept.
RestartedKeepingBuffer(chan, p) == [chan EXCEPT !.fragmentSequence = p.sequence]

Restarted(chan, p) ==
    IF p.sequence # chan.fragmentSequence
    THEN [chan EXCEPT !.fragmentSequence = p.sequence,
                      !.fragmentLength = 0, !.fragmentBuffer = << >>]
    ELSE chan

\* Mutant: a lost fragment goes unnoticed.
FitsAnywhere(chan, p) ==
    /\ p.fragmentLength >= 0
    /\ chan.fragmentLength + p.fragmentLength <= MAX_MSGLEN

Fits(chan, p) ==
    /\ p.fragmentStart = chan.fragmentLength
    /\ p.fragmentLength >= 0
    /\ chan.fragmentLength + p.fragmentLength <= MAX_MSGLEN

Filled(chan, p) ==
    [chan EXCEPT !.fragmentBuffer = Append(@, p.chunk),
                 !.fragmentLength = @ + p.fragmentLength]

Delivers(chan, p) ==
    /\ ~Stale(chan, p)
    /\ p.fragmented => /\ Fits(Restarted(chan, p), p)
                       /\ p.fragmentLength # FRAGMENT_SIZE

DeliveredMessage(chan, p) ==
    IF p.fragmented
    THEN Reassembled(Filled(Restarted(chan, p), p).fragmentBuffer)
    ELSE Reassembled(<< p.chunk >>)

AfterProcess(chan, p) ==
    IF Stale(chan, p) THEN chan
    ELSE IF ~p.fragmented THEN [chan EXCEPT !.incomingSequence = p.sequence]
    ELSE LET c == Restarted(chan, p)
         IN  IF ~Fits(c, p) THEN c
             ELSE IF p.fragmentLength = FRAGMENT_SIZE THEN Filled(c, p)
             ELSE [c EXCEPT !.fragmentLength = 0, !.fragmentBuffer = << >>,
                            !.incomingSequence = p.sequence]
=============================================================================
