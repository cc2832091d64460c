------------------------- MODULE GamestateAckProofs -------------------------
(***************************************************************************)
(* Proofs about GamestateAck, for every number of maps, changes and        *)
(* messages.  The inductive invariant orders what is under way by map and  *)
(* by number, from the client's messages back to the server's queue, and   *)
(* says what the client has once its acknowledgement counts.               *)
(***************************************************************************)
EXTENDS GamestateAck, RingLemmas

ServerType == [serverId : Nat, cs : Nat]

SlotType ==
    [state : {"connected", "primed", "active"},
     gamestateAck : {"init", "once", "many", "acked"},
     gamestateMessageNum : Nat \cup {-1}, csUpdated : BOOLEAN,
     reliableAcknowledge : Nat, reliableCommands : Seq(Nat)]

ReplyType ==
    [serverId : Nat, messageAcknowledge : Nat, reliableAcknowledge : Nat, move : BOOLEAN]

ClientType ==
    [serverId : Nat, cs : Nat, serverMessageSequence : Nat, serverCommandSequence : Nat]

ChanType ==
    [outgoingSequence : Nat, sending : MessageType \cup {NoMessage}, queue : Seq(MessageType)]

Issued == Len(cl.reliableCommands)

(***************************************************************************)
(* Messages under way are of later maps, and carry later commands, the     *)
(* later they arrive: line are those in flight, sending the one whose      *)
(* fragments are, queue the rest.                                          *)
(***************************************************************************)
NoLater(a, b) == a.serverId <= b.serverId /\ LastIn(a) <= LastIn(b)

InOrder(line, sending, queue) ==
    /\ \A i \in 1 .. Len(line), j \in 1 .. Len(line) :
          i < j => NoLater(line[i], line[j])
    /\ \A i \in 1 .. Len(queue), j \in 1 .. Len(queue) :
          i < j => NoLater(queue[i], queue[j])
    /\ \A i \in 1 .. Len(line), j \in 1 .. Len(queue) : NoLater(line[i], queue[j])
    /\ sending # NoMessage =>
          /\ \A i \in 1 .. Len(line) : NoLater(line[i], sending)
          /\ \A j \in 1 .. Len(queue) : NoLater(sending, queue[j])

MapInv ==
    /\ InOrder(toClient, chan.sending, chan.queue)
    /\ cg.serverId <= sv.serverId
    /\ \A m \in Coming : cg.serverId <= m.serverId /\ m.serverId <= sv.serverId
    /\ \A i \in 1 .. Len(toServer) : toServer[i].serverId <= cg.serverId

(***************************************************************************)
(* Numbers in flight grow, and both ends keep to those they have seen.     *)
(***************************************************************************)
Numbered ==
    /\ \A i \in 1 .. Len(toClient) : toClient[i].sequence < chan.outgoingSequence
    /\ \A i \in 1 .. Len(toClient), j \in 1 .. Len(toClient) :
          i < j => toClient[i].sequence < toClient[j].sequence
    /\ chan.sending # NoMessage => chan.sending.sequence = chan.outgoingSequence

NumberInv ==
    /\ Numbered
    /\ cl.gamestateMessageNum <= chan.outgoingSequence
    /\ cg.serverMessageSequence < chan.outgoingSequence
    /\ \A i \in 1 .. Len(toClient) : cg.serverMessageSequence < toClient[i].sequence
    /\ \A i \in 1 .. Len(toServer) :
          toServer[i].messageAcknowledge <= cg.serverMessageSequence

(***************************************************************************)
(* Every message ends with the command that was the last one issued when   *)
(* it was built, and begins no later than the client expects.              *)
(***************************************************************************)
Repeats(m) ==
    /\ m.first >= 1
    /\ LastIn(m) <= Issued
    /\ m.commands # << >> => m.commands[Len(m.commands)] = cl.reliableCommands[LastIn(m)]

CommandInv ==
    /\ cl.reliableAcknowledge <= cg.serverCommandSequence
    /\ cg.serverCommandSequence <= Issued
    /\ \A m \in Coming :
          /\ Repeats(m)
          /\ m.first - 1 <= cg.serverCommandSequence
          /\ cg.serverCommandSequence <= LastIn(m)
    /\ \A i \in 1 .. Len(toServer) :
          toServer[i].reliableAcknowledge <= cg.serverCommandSequence

(***************************************************************************)
(* The two state fields of the slot agree, and before the first gamestate  *)
(* of a map nobody has one.                                                *)
(***************************************************************************)
StateInv ==
    /\ cl.state = "connected" <=> cl.gamestateAck = "init"
    /\ cl.state = "active" => cl.gamestateAck = "acked"
    /\ cl.gamestateAck = "init" =>
          /\ cg.serverId < sv.serverId
          /\ \A m \in Coming : m.kind = "gamestate" => m.serverId < sv.serverId

(***************************************************************************)
(* What a client has once it has loaded the gamestate: every command, and  *)
(* the configstrings but for what csUpdated stands for.                    *)
(***************************************************************************)
Loaded(last, cs) == last = Issued /\ (~cl.csUpdated => cs = sv.cs)

ClientLoaded == Loaded(cg.serverCommandSequence, cg.cs)

Gamestate(m) == m.kind = "gamestate"

\* An acknowledgement of this number counts.
Counts(sequence) == sequence = cl.gamestateMessageNum \/ cl.gamestateAck = "once"

PrimedInv ==
    cl.state = "primed" =>
        /\ \A m \in Coming : Gamestate(m) /\ m.serverId = sv.serverId /\ Counts(m.sequence)
                             => Loaded(LastIn(m), m.cs)
        /\ cg.serverId = sv.serverId /\ Counts(cg.serverMessageSequence) => ClientLoaded
        /\ \A i \in 1 .. Len(toServer) :
              /\ toServer[i].serverId = sv.serverId
              /\ toServer[i].messageAcknowledge = cl.gamestateMessageNum
              => ClientLoaded
        /\ cl.gamestateAck = "acked" => ClientLoaded

ActiveInv ==
    cl.state = "active" =>
        IF cg.serverCommandSequence = Issued
        THEN cg.cs = sv.cs
        ELSE cl.reliableCommands[Issued] = sv.cs

NumberNoted ==
    /\ chan.queue = << >>
    /\ \A m \in Coming :
          /\ Gamestate(m) => m.sequence <= cl.gamestateMessageNum
          /\ cl.state # "connected" /\ m.sequence = cl.gamestateMessageNum => Gamestate(m)
    /\ chan.sending = NoMessage => cl.gamestateMessageNum < chan.outgoingSequence
    /\ cl.gamestateAck = "acked" => cl.gamestateMessageNum <= cg.serverMessageSequence

UnqueuedInv == ~queued => NumberNoted /\ PrimedInv /\ ActiveInv

IInv ==
    /\ TypeOK
    /\ MapInv
    /\ NumberInv
    /\ CommandInv
    /\ StateInv
    /\ AckedSameMap
    /\ UnqueuedInv
-----------------------------------------------------------------------------
(***************************************************************************)
(* TypeOK by its parts.                                                    *)
(***************************************************************************)
LEMMA TypeParts ==
  TypeOK <=> /\ sv \in ServerType
             /\ cl \in SlotType
             /\ chan \in ChanType
             /\ toClient \in Seq(MessageType)
             /\ toServer \in Seq(ReplyType)
             /\ cg \in ClientType
             /\ queued \in BOOLEAN
  BY DEF TypeOK, ServerType, SlotType, ChanType, ReplyType, ClientType

(***************************************************************************)
(* No message is NoMessage.                                                *)
(***************************************************************************)
LEMMA RealMessage == \A m \in MessageType : m # NoMessage
<1> SUFFICES ASSUME NEW m \in MessageType, m = NoMessage
             PROVE  FALSE
  OBVIOUS
<1>1. m.kind \in {"gamestate", "snapshot"}
  BY DEF MessageType
<1>2. NoMessage.kind = "none"
  BY DEF NoMessage
<1> QED
  BY <1>1, <1>2

(***************************************************************************)
(* What may still arrive is a message.                                     *)
(***************************************************************************)
LEMMA ComingType ==
  ASSUME chan \in ChanType, toClient \in Seq(MessageType)
  PROVE  Coming \subseteq MessageType
<1>1. \A i \in 1 .. Len(toClient) : toClient[i] \in MessageType
  OBVIOUS
<1>2. chan.queue \in Seq(MessageType) /\ chan.sending \in MessageType \cup {NoMessage}
  BY DEF ChanType
<1>3. \A i \in 1 .. Len(chan.queue) : chan.queue[i] \in MessageType
  BY <1>2
<1> QED
  BY <1>1, <1>2, <1>3 DEF Coming

(***************************************************************************)
(* d and m differ in their number alone.                                   *)
(***************************************************************************)
Like(d, m) ==
    /\ d.kind = m.kind
    /\ d.serverId = m.serverId
    /\ d.cs = m.cs
    /\ d.first = m.first
    /\ d.commands = m.commands

(***************************************************************************)
(* d goes out in front of rest: it leaves at once, or its first fragment   *)
(* does.                                                                   *)
(***************************************************************************)
GoesOut(d, rest) ==
    /\ chan'.queue = rest
    /\ d.sequence = chan.outgoingSequence
    /\ \/ /\ chan'.outgoingSequence = chan.outgoingSequence
          /\ chan'.sending = d
          /\ toClient' = toClient
       \/ /\ chan'.outgoingSequence = chan.outgoingSequence + 1
          /\ chan'.sending = NoMessage
          /\ toClient' = Append(toClient, d)

(***************************************************************************)
(* Begin numbers the message and sends it on its way.                      *)
(***************************************************************************)
LEMMA BeginGoesOut ==
  ASSUME chan \in ChanType, chan.sending = NoMessage,
         NEW m \in MessageType, NEW rest \in Seq(MessageType), Begin(m, rest)
  PROVE  /\ chan' \in ChanType
         /\ \E d \in MessageType : Like(d, m) /\ GoesOut(d, rest)
<1>1. PICK n \in Nat : n = chan.outgoingSequence
  BY DEF ChanType
<1>2. PICK d : d = [m EXCEPT !.sequence = n]
  OBVIOUS
<1>3. d \in MessageType /\ Like(d, m) /\ d.sequence = n
  BY <1>2 DEF MessageType, Like
<1>4. CASE m.size = "large"
  <2>1. chan' = [chan EXCEPT !.sending = d, !.queue = rest] /\ toClient' = toClient
    BY <1>1, <1>2, <1>4 DEF Begin
  <2>2. /\ chan' \in ChanType
        /\ chan'.outgoingSequence = n /\ chan'.sending = d /\ chan'.queue = rest
    BY <1>1, <1>3, <2>1 DEF ChanType
  <2> QED
    BY <1>1, <1>3, <2>1, <2>2 DEF GoesOut
<1>5. CASE m.size # "large"
  <2>1. /\ chan' = [chan EXCEPT !.outgoingSequence = n + 1, !.queue = rest]
        /\ toClient' = Append(toClient, d)
    BY <1>1, <1>2, <1>5 DEF Begin, ChanType
  <2>2. PICK next \in Nat : next = n + 1
    OBVIOUS
  <2>3. /\ chan'.outgoingSequence = next /\ chan'.sending = NoMessage /\ chan'.queue = rest
        /\ chan' = [outgoingSequence |-> next, sending |-> NoMessage, queue |-> rest]
    BY <2>1, <2>2 DEF ChanType
  <2>4. chan' \in ChanType
    BY <2>2, <2>3 DEF ChanType
  <2> QED
    BY <1>1, <1>3, <2>1, <2>2, <2>3, <2>4 DEF GoesOut
<1> QED
  BY <1>4, <1>5

(***************************************************************************)
(* What may still arrive once d has gone out.                              *)
(***************************************************************************)
LEMMA ComingOut ==
  ASSUME toClient \in Seq(MessageType), chan \in ChanType,
         NEW d \in MessageType, NEW rest \in Seq(MessageType), GoesOut(d, rest)
  PROVE  /\ toClient' \in Seq(MessageType)
         /\ \A n \in Coming' : \/ \E i \in 1 .. Len(toClient) : n = toClient[i]
                               \/ n = d
                               \/ \E i \in 1 .. Len(rest) : n = rest[i]
         /\ \A i \in 1 .. Len(toClient') :
               \/ i <= Len(toClient) /\ toClient'[i] = toClient[i]
               \/ i > Len(toClient) /\ i = Len(toClient') /\ toClient'[i] = d
<1>1. CASE chan'.sending = d /\ toClient' = toClient
  <2>1. \A n \in Coming' : \/ \E i \in 1 .. Len(toClient) : n = toClient[i]
                           \/ n = d
                           \/ \E i \in 1 .. Len(rest) : n = rest[i]
    BY <1>1 DEF Coming, GoesOut
  <2> QED
    BY <1>1, <2>1
<1>2. CASE chan'.sending = NoMessage /\ toClient' = Append(toClient, d)
  <2>1. /\ toClient' \in Seq(MessageType)
        /\ Len(toClient') = Len(toClient) + 1
        /\ toClient'[Len(toClient) + 1] = d
        /\ \A j \in 1 .. Len(toClient) : toClient'[j] = toClient[j]
    BY <1>2, Appended
  <2>2. Len(toClient) \in Nat /\ Len(toClient') = Len(toClient) + 1
    BY <2>1
  <2>3. \A i \in 1 .. Len(toClient') :
               \/ i <= Len(toClient) /\ toClient'[i] = toClient[i]
               \/ i > Len(toClient) /\ i = Len(toClient') /\ toClient'[i] = d
    BY <2>1, <2>2
  <2>4. \A n \in Coming' : \/ \E i \in 1 .. Len(toClient') : n = toClient'[i]
                           \/ \E i \in 1 .. Len(rest) : n = rest[i]
    BY <1>2 DEF Coming, GoesOut
  <2>5. \A i \in 1 .. Len(toClient') :
            (\E j \in 1 .. Len(toClient) : toClient'[i] = toClient[j]) \/ toClient'[i] = d
    BY <2>2, <2>3
  <2> QED
    BY <2>1, <2>3, <2>4, <2>5
<1> QED
  BY <1>1, <1>2 DEF GoesOut

(***************************************************************************)
(* d goes out where it stood, so the order by maps remains.                *)
(***************************************************************************)
LEMMA OrderOut ==
  ASSUME toClient \in Seq(MessageType), chan \in ChanType,
         NEW d \in MessageType, NEW rest \in Seq(MessageType), GoesOut(d, rest),
         InOrder(toClient, d, rest)
  PROVE  InOrder(toClient, chan.sending, chan.queue)'
<1>1. d # NoMessage
  BY RealMessage
<1>2. CASE chan'.sending = d /\ toClient' = toClient
  BY <1>2 DEF GoesOut
<1>3. CASE chan'.sending = NoMessage /\ toClient' = Append(toClient, d)
  <2>1. PICK line : line = toClient'
    OBVIOUS
  <2>0. PICK len \in Nat : len = Len(toClient)
    OBVIOUS
  <2>2. /\ Len(line) = len + 1
        /\ line[len + 1] = d
        /\ \A j \in 1 .. len : line[j] = toClient[j]
    BY <1>3, <2>0, <2>1, Appended
  <2>3. ASSUME NEW i \in 1 .. Len(line)
        PROVE  (i \in 1 .. len /\ line[i] = toClient[i]) \/ (i = len + 1 /\ line[i] = d)
    BY <2>0, <2>1, <2>2
  <2>4. \A i \in 1 .. Len(line), j \in 1 .. Len(line) :
          i < j => NoLater(line[i], line[j])
    <3> SUFFICES ASSUME NEW i \in 1 .. Len(line), NEW j \in 1 .. Len(line), i < j
                 PROVE  NoLater(line[i], line[j])
      OBVIOUS
    <3>1. CASE j \in 1 .. len
      <4>1. i \in 1 .. len /\ line[i] = toClient[i] /\ line[j] = toClient[j]
        BY <2>0, <2>1, <2>2, <3>1
      <4> QED
        BY <2>0, <2>1, <3>1, <4>1 DEF InOrder
    <3>2. CASE j = len + 1
      <4>1. i \in 1 .. len /\ line[i] = toClient[i] /\ line[j] = d
        BY <2>0, <2>1, <2>2, <3>2
      <4> QED
        BY <1>1, <2>0, <2>1, <4>1 DEF InOrder
    <3> QED
      BY <2>0, <2>1, <2>2, <3>1, <3>2
  <2>5. \A i \in 1 .. Len(line), j \in 1 .. Len(rest) : NoLater(line[i], rest[j])
    BY <1>1, <2>0, <2>1, <2>3 DEF InOrder
  <2> QED
    BY <1>3, <2>0, <2>1, <2>4, <2>5 DEF InOrder, GoesOut
<1> QED
  BY <1>2, <1>3 DEF GoesOut

(***************************************************************************)
(* d goes out with the next number.                                        *)
(***************************************************************************)
LEMMA NumbersOut ==
  ASSUME toClient \in Seq(MessageType), chan \in ChanType,
         NEW d \in MessageType, NEW rest \in Seq(MessageType), GoesOut(d, rest),
         Numbered
  PROVE  Numbered' /\ chan'.outgoingSequence >= chan.outgoingSequence
<1>1. PICK n \in Nat : n = chan.outgoingSequence
  BY DEF ChanType
<1>2. d.sequence = n
  BY <1>1 DEF GoesOut
<1>3. CASE /\ chan'.outgoingSequence = n
           /\ chan'.sending = d /\ toClient' = toClient
  BY <1>1, <1>2, <1>3 DEF Numbered
<1>4. CASE /\ chan'.outgoingSequence = n + 1
           /\ chan'.sending = NoMessage /\ toClient' = Append(toClient, d)
  <2>1. PICK line : line = toClient'
    OBVIOUS
  <2>0. PICK len \in Nat : len = Len(toClient)
    OBVIOUS
  <2>2. /\ Len(line) = len + 1
        /\ line[len + 1] = d
        /\ \A j \in 1 .. len : line[j] = toClient[j]
    BY <1>4, <2>0, <2>1, Appended
  <2>3. \A i \in 1 .. len : toClient[i].sequence \in Nat /\ toClient[i].sequence < n
    <3>1. \A i \in 1 .. len : toClient[i] \in MessageType
      BY <2>0
    <3> QED
      BY <1>1, <2>0, <3>1 DEF Numbered, MessageType
  <2>4. \A i \in 1 .. Len(line) : line[i].sequence < n + 1
    BY <1>1, <1>2, <2>0, <2>1, <2>2, <2>3
  <2>5. \A i \in 1 .. Len(line), j \in 1 .. Len(line) : i < j => line[i].sequence < line[j].sequence
    <3> SUFFICES ASSUME NEW i \in 1 .. Len(line), NEW j \in 1 .. Len(line), i < j
                 PROVE  line[i].sequence < line[j].sequence
      OBVIOUS
    <3>1. i \in 1 .. len /\ line[i] = toClient[i] /\ j \in 1 .. len + 1
      BY <2>0, <2>1, <2>2
    <3>2. CASE j \in 1 .. len
      BY <2>0, <2>1, <2>2, <3>1, <3>2 DEF Numbered
    <3>3. CASE j = len + 1
      BY <1>2, <2>2, <2>3, <3>1, <3>3
    <3> QED
      BY <2>0, <2>1, <3>1, <3>2, <3>3
  <2>6. /\ \A i \in 1 .. Len(toClient') : toClient'[i].sequence < chan'.outgoingSequence
        /\ \A i \in 1 .. Len(toClient'), j \in 1 .. Len(toClient') :
              i < j => toClient'[i].sequence < toClient'[j].sequence
    BY <1>4, <2>1, <2>4, <2>5
  <2>7. Numbered'
    BY <1>4, <2>6 DEF Numbered
  <2> QED
    BY <1>1, <1>4, <2>7
<1> QED
  BY <1>1, <1>3, <1>4 DEF GoesOut
-----------------------------------------------------------------------------
(***************************************************************************)
(* SV_Netchan_Transmit: a message of the latest map is sent, or waits at   *)
(* the end of the queue.                                                   *)
(***************************************************************************)
LEMMA TransmitStep ==
  ASSUME toClient \in Seq(MessageType), chan \in ChanType, Numbered,
         InOrder(toClient, chan.sending, chan.queue),
         NEW m \in MessageType, SV_Netchan_Transmit(m),
         \A n \in Coming : NoLater(n, m)
  PROVE  /\ chan' \in ChanType /\ toClient' \in Seq(MessageType)
         /\ InOrder(toClient, chan.sending, chan.queue)' /\ Numbered'
         /\ chan'.outgoingSequence >= chan.outgoingSequence
         /\ \A n \in Coming' : n \in Coming \/ Like(n, m)
         /\ \A i \in 1 .. Len(toClient') :
               \/ i \in 1 .. Len(toClient) /\ toClient'[i] = toClient[i]
               \/ toClient'[i].sequence = chan.outgoingSequence
         /\ ~Busy => /\ chan'.queue = << >>
                     /\ \A n \in Coming' : n \in Coming \/ n.sequence = chan.outgoingSequence
                     /\ \/ chan'.sending # NoMessage
                        \/ chan'.outgoingSequence > chan.outgoingSequence
<1>1. chan.outgoingSequence \in Nat /\ chan.queue \in Seq(MessageType)
  BY DEF ChanType
<1>2. CASE Busy
  <2>1. PICK queue \in Seq(MessageType) : queue = chan.queue
    BY <1>1
  <2>2. PICK longer : longer = Append(queue, m)
    OBVIOUS
  <2>3. chan' = [chan EXCEPT !.queue = longer] /\ toClient' = toClient
    BY <1>2, <2>1, <2>2 DEF SV_Netchan_Transmit, ChanType
  <2>4. PICK len \in Nat : len = Len(queue)
    BY <2>1
  <2>5. /\ longer \in Seq(MessageType) /\ Len(longer) = len + 1
        /\ longer[len + 1] = m
        /\ \A j \in 1 .. len : longer[j] = queue[j]
    BY <2>2, <2>4, Appended
  <2>6. /\ chan' \in ChanType
        /\ chan'.outgoingSequence = chan.outgoingSequence
        /\ chan'.sending = chan.sending /\ chan'.queue = longer
    BY <2>3, <2>5 DEF ChanType
  <2>7. ASSUME NEW j \in 1 .. Len(longer)
        PROVE  (j \in 1 .. len /\ longer[j] = queue[j]) \/ (j = len + 1 /\ longer[j] = m)
    BY <2>4, <2>5
  <2>8. \A n \in Coming' : n \in Coming \/ n = m
    BY <2>1, <2>3, <2>4, <2>6, <2>7 DEF Coming
  <2>9. /\ \A i \in 1 .. Len(toClient) : NoLater(toClient[i], m)
        /\ \A j \in 1 .. len : NoLater(queue[j], m)
        /\ chan.sending # NoMessage => NoLater(chan.sending, m)
    BY <2>1, <2>4 DEF Coming
  <2>10. InOrder(toClient, chan.sending, chan.queue)'
    <3>1. \A i \in 1 .. Len(longer), j \in 1 .. Len(longer) :
             i < j => NoLater(longer[i], longer[j])
      <4> SUFFICES ASSUME NEW i \in 1 .. Len(longer), NEW j \in 1 .. Len(longer), i < j
                   PROVE  NoLater(longer[i], longer[j])
        OBVIOUS
      <4>1. i \in 1 .. len /\ longer[i] = queue[i] /\ j \in 1 .. len + 1
        BY <2>4, <2>5
      <4>2. CASE j \in 1 .. len
        BY <2>1, <2>4, <2>5, <4>1, <4>2 DEF InOrder
      <4>3. CASE j = len + 1
        BY <2>5, <2>9, <4>1, <4>3
      <4> QED
        BY <2>4, <4>1, <4>2, <4>3
    <3>2. \A i \in 1 .. Len(toClient), j \in 1 .. Len(longer) :
             NoLater(toClient[i], longer[j])
      BY <2>1, <2>4, <2>7, <2>9 DEF InOrder
    <3>3. chan.sending # NoMessage => \A j \in 1 .. Len(longer) :
             NoLater(chan.sending, longer[j])
      BY <2>1, <2>4, <2>7, <2>9 DEF InOrder
    <3> QED
      BY <2>3, <2>6, <3>1, <3>2, <3>3 DEF InOrder
  <2>11. Numbered'
    BY <2>3, <2>6 DEF Numbered
  <2> QED
    BY <1>1, <1>2, <2>3, <2>6, <2>8, <2>10, <2>11 DEF Like
<1>3. CASE ~Busy
  <2>1. chan.sending = NoMessage /\ chan.queue = << >> /\ << >> \in Seq(MessageType)
    BY <1>1, <1>3 DEF Busy
  <2>2. Begin(m, << >>)
    BY <1>3 DEF SV_Netchan_Transmit
  <2>3. PICK d \in MessageType : Like(d, m) /\ GoesOut(d, << >>) /\ chan' \in ChanType
    BY <2>1, <2>2, BeginGoesOut
  <2>4. \A i \in 1 .. Len(toClient) : toClient[i] \in Coming
    BY DEF Coming
  <2>5. InOrder(toClient, d, << >>)
    <3>1. \A i \in 1 .. Len(toClient) : NoLater(toClient[i], d)
      BY <2>3, <2>4 DEF Like, NoLater, LastIn
    <3>2. Len(<< >>) = 0 /\ 1 .. 0 = {}
      OBVIOUS
    <3> QED
      BY <2>1, <3>1, <3>2 DEF InOrder
  <2>6. InOrder(toClient, chan.sending, chan.queue)'
    BY <2>1, <2>3, <2>5, OrderOut
  <2>7. Numbered' /\ chan'.outgoingSequence >= chan.outgoingSequence
    BY <2>1, <2>3, NumbersOut
  <2>8. PICK rest \in Seq(MessageType) : rest = << >> /\ GoesOut(d, rest)
    BY <2>1, <2>3
  <2>9. /\ toClient' \in Seq(MessageType)
        /\ \A n \in Coming' : \/ \E i \in 1 .. Len(toClient) : n = toClient[i]
                              \/ n = d
                              \/ \E i \in 1 .. Len(rest) : n = rest[i]
        /\ \A i \in 1 .. Len(toClient') :
               \/ i <= Len(toClient) /\ toClient'[i] = toClient[i]
               \/ i > Len(toClient) /\ i = Len(toClient') /\ toClient'[i] = d
    BY <2>8, ComingOut
  <2>10. 1 .. Len(rest) = {}
    BY <2>8
  <2>11. \A n \in Coming' : n \in Coming \/ n = d
    BY <2>4, <2>9, <2>10
  <2>12. d.sequence = chan.outgoingSequence /\ chan'.queue = << >>
    BY <2>3 DEF GoesOut
  <2>13. \A i \in 1 .. Len(toClient') :
               \/ i \in 1 .. Len(toClient) /\ toClient'[i] = toClient[i]
               \/ toClient'[i].sequence = chan.outgoingSequence
    BY <2>9, <2>12
  <2>14. chan'.sending # NoMessage \/ chan'.outgoingSequence > chan.outgoingSequence
    BY <1>1, <2>3, RealMessage DEF GoesOut
  <2> QED
    BY <2>3, <2>6, <2>7, <2>9, <2>11, <2>12, <2>13, <2>14
<1> QED
  BY <1>2, <1>3

(***************************************************************************)
(* SV_Netchan_TransmitNextFragment: the message under way arrives in full, *)
(* or the first of the queue is begun; nothing is added.                   *)
(***************************************************************************)
LEMMA FragmentStep ==
  ASSUME toClient \in Seq(MessageType), chan \in ChanType, Numbered,
         InOrder(toClient, chan.sending, chan.queue), SV_Netchan_TransmitNextFragment
  PROVE  /\ chan' \in ChanType /\ toClient' \in Seq(MessageType)
         /\ InOrder(toClient, chan.sending, chan.queue)' /\ Numbered'
         /\ chan'.outgoingSequence >= chan.outgoingSequence
         /\ \A n \in Coming' : \E o \in Coming : Like(n, o)
         /\ \A i \in 1 .. Len(toClient') :
               \/ i \in 1 .. Len(toClient) /\ toClient'[i] = toClient[i]
               \/ toClient'[i].sequence = chan.outgoingSequence
         /\ chan.queue = << >> => /\ chan'.queue = << >>
                                  /\ Coming' \subseteq Coming
                                  /\ chan'.sending = NoMessage
                                  /\ chan'.outgoingSequence > chan.outgoingSequence
<1>1. /\ chan.outgoingSequence \in Nat /\ chan.queue \in Seq(MessageType)
      /\ chan.sending \in MessageType \cup {NoMessage}
  BY DEF ChanType
<1>2. PICK queue \in Seq(MessageType) : queue = chan.queue
  BY <1>1
<1>3. \A i \in 1 .. Len(toClient) : toClient[i] \in Coming
  BY DEF Coming
<1>4. \A i \in 1 .. Len(queue) : queue[i] \in Coming
  BY <1>2 DEF Coming
<1>5. \A n : Like(n, n)
  BY DEF Like
<1>6. CASE chan.sending # NoMessage
  <2>1. PICK d \in MessageType : d = chan.sending /\ d \in Coming
    BY <1>1, <1>6 DEF Coming
  <2>2. PICK next \in Nat : next = chan.outgoingSequence + 1
    BY <1>1
  <2>3. /\ chan' = [chan EXCEPT !.sending = NoMessage, !.outgoingSequence = next]
        /\ toClient' = Append(toClient, d)
    BY <1>6, <2>1, <2>2 DEF SV_Netchan_TransmitNextFragment, ChanType
  <2>4. /\ chan' \in ChanType /\ chan'.outgoingSequence = next
        /\ chan'.sending = NoMessage /\ chan'.queue = queue
    BY <1>2, <2>3 DEF ChanType
  <2>5. d.sequence = chan.outgoingSequence
    BY <1>6, <2>1 DEF Numbered
  <2>6. GoesOut(d, queue)
    BY <2>2, <2>3, <2>4, <2>5 DEF GoesOut
  <2>7. InOrder(toClient, d, queue)
    BY <1>2, <2>1
  <2>8. InOrder(toClient, chan.sending, chan.queue)'
    BY <2>6, <2>7, OrderOut
  <2>9. Numbered' /\ chan'.outgoingSequence >= chan.outgoingSequence
    BY <2>6, NumbersOut
  <2>10. /\ toClient' \in Seq(MessageType)
         /\ \A n \in Coming' : \/ \E i \in 1 .. Len(toClient) : n = toClient[i]
                               \/ n = d
                               \/ \E i \in 1 .. Len(queue) : n = queue[i]
         /\ \A i \in 1 .. Len(toClient') :
                \/ i <= Len(toClient) /\ toClient'[i] = toClient[i]
                \/ i > Len(toClient) /\ i = Len(toClient') /\ toClient'[i] = d
    BY <2>6, ComingOut
  <2>11. Coming' \subseteq Coming
    BY <1>3, <1>4, <2>1, <2>10
  <2>12. \A i \in 1 .. Len(toClient') :
               \/ i \in 1 .. Len(toClient) /\ toClient'[i] = toClient[i]
               \/ toClient'[i].sequence = chan.outgoingSequence
    BY <2>5, <2>10
  <2> QED
    BY <1>1, <1>2, <1>5, <2>2, <2>4, <2>8, <2>9, <2>10, <2>11, <2>12
<1>7. CASE chan.sending = NoMessage
  <2>1. queue # << >> /\ Begin(Head(queue), Tail(queue))
    BY <1>2, <1>7 DEF SV_Netchan_TransmitNextFragment, Busy
  <2>2. PICK m \in MessageType, rest \in Seq(MessageType) : m = Head(queue) /\ rest = Tail(queue)
    BY <2>1, HeadTailProperties
  <2>3. PICK d \in MessageType : Like(d, m) /\ GoesOut(d, rest) /\ chan' \in ChanType
    BY <1>7, <2>1, <2>2, BeginGoesOut
  <2>4. /\ Len(queue) \in Nat /\ Len(queue) >= 1 /\ Len(rest) = Len(queue) - 1
        /\ m = queue[1]
        /\ \A j \in 1 .. Len(rest) : rest[j] = queue[j + 1] /\ j + 1 \in 1 .. Len(queue)
    BY <2>1, <2>2
  <2>5. InOrder(toClient, d, rest)
    <3>1. \A i \in 1 .. Len(rest), j \in 1 .. Len(rest) :
             i < j => NoLater(rest[i], rest[j])
      <4> SUFFICES ASSUME NEW i \in 1 .. Len(rest), NEW j \in 1 .. Len(rest), i < j
                   PROVE  NoLater(rest[i], rest[j])
        OBVIOUS
      <4>1. PICK k \in 1 .. Len(queue), l \in 1 .. Len(queue) : k = i + 1 /\ l = j + 1
        BY <2>4
      <4>2. rest[i] = queue[k] /\ rest[j] = queue[l] /\ k < l
        BY <2>4, <4>1
      <4> QED
        BY <1>2, <4>2 DEF InOrder
    <3>2. \A i \in 1 .. Len(toClient), j \in 1 .. Len(rest) :
             NoLater(toClient[i], rest[j])
      BY <1>2, <2>4 DEF InOrder
    <3>3. \A i \in 1 .. Len(toClient) : NoLater(toClient[i], d)
      BY <1>2, <2>3, <2>4 DEF InOrder, Like, NoLater, LastIn
    <3>4. \A j \in 1 .. Len(rest) : NoLater(d, rest[j])
      <4> SUFFICES ASSUME NEW j \in 1 .. Len(rest)
                   PROVE  NoLater(d, rest[j])
        OBVIOUS
      <4>1. PICK l \in 1 .. Len(queue) : l = j + 1 /\ rest[j] = queue[l] /\ 1 < l
        BY <2>4
      <4>2. NoLater(queue[1], queue[l])
        BY <1>2, <2>4, <4>1 DEF InOrder
      <4> QED
        BY <2>3, <2>4, <4>1, <4>2 DEF Like, NoLater, LastIn
    <3>5. \A i \in 1 .. Len(toClient), j \in 1 .. Len(toClient) :
             i < j => NoLater(toClient[i], toClient[j])
      BY DEF InOrder
    <3> QED
      BY <3>1, <3>2, <3>3, <3>4, <3>5 DEF InOrder
  <2>6. InOrder(toClient, chan.sending, chan.queue)'
    BY <2>3, <2>5, OrderOut
  <2>7. Numbered' /\ chan'.outgoingSequence >= chan.outgoingSequence
    BY <2>3, NumbersOut
  <2>8. /\ toClient' \in Seq(MessageType)
        /\ \A n \in Coming' : \/ \E i \in 1 .. Len(toClient) : n = toClient[i]
                              \/ n = d
                              \/ \E i \in 1 .. Len(rest) : n = rest[i]
        /\ \A i \in 1 .. Len(toClient') :
               \/ i <= Len(toClient) /\ toClient'[i] = toClient[i]
               \/ i > Len(toClient) /\ i = Len(toClient') /\ toClient'[i] = d
    BY <2>3, ComingOut
  <2>9. \A n \in Coming' : \E o \in Coming : Like(n, o)
    <3>1. queue[1] \in Coming /\ \A j \in 1 .. Len(rest) : rest[j] \in Coming
      BY <1>4, <2>4
    <3> QED
      BY <1>3, <1>5, <2>3, <2>4, <2>8, <3>1
  <2>10. d.sequence = chan.outgoingSequence
    BY <2>3 DEF GoesOut
  <2>11. \A i \in 1 .. Len(toClient') :
               \/ i \in 1 .. Len(toClient) /\ toClient'[i] = toClient[i]
               \/ toClient'[i].sequence = chan.outgoingSequence
    BY <2>8, <2>10
  <2> QED
    BY <1>2, <2>1, <2>3, <2>6, <2>7, <2>8, <2>9, <2>11
<1> QED
  BY <1>6, <1>7
-----------------------------------------------------------------------------
(***************************************************************************)
(* The inductive invariant holds at the start.                             *)
(***************************************************************************)
LEMMA InitInv == Init => IInv
<1> SUFFICES ASSUME Init
             PROVE  IInv
  OBVIOUS
<1> USE DEF Init, ChannelInit
<1>1. /\ sv.serverId = 1 /\ sv.cs = 0 /\ cl.state = "connected" /\ cl.gamestateAck = "init"
      /\ cl.gamestateMessageNum = -1 /\ cl.reliableAcknowledge = 0
      /\ cl.reliableCommands = << >> /\ Issued = 0
      /\ chan.outgoingSequence = 1 /\ chan.sending = NoMessage /\ chan.queue = << >>
      /\ toClient = << >> /\ toServer = << >>
      /\ cg.serverId = 0 /\ cg.serverMessageSequence = 0 /\ cg.serverCommandSequence = 0
      /\ Len(toClient) = 0 /\ Len(toServer) = 0 /\ Len(chan.queue) = 0
  BY DEF Issued
<1>2. TypeOK
  <2>1. << >> \in Seq(Nat) /\ << >> \in Seq(MessageType) /\ << >> \in Seq(ReplyType)
    OBVIOUS
  <2>2. sv \in ServerType /\ cg \in ClientType /\ queued \in BOOLEAN
    BY DEF ServerType, ClientType
  <2>3. cl \in SlotType
    BY <2>1 DEF SlotType
  <2>4. chan \in ChanType
    BY <2>1 DEF ChanType
  <2> QED
    BY <2>1, <2>2, <2>3, <2>4, TypeParts
<1>3. 1 .. 0 = {}
  OBVIOUS
<1>4. Coming = {}
  BY <1>1, <1>3 DEF Coming
<1> HIDE DEF Init
<1>5. MapInv
  BY <1>1, <1>3, <1>4 DEF MapInv, InOrder
<1>6. NumberInv
  BY <1>1, <1>3 DEF NumberInv, Numbered
<1>7. CommandInv /\ StateInv /\ AckedSameMap
  BY <1>1, <1>4 DEF CommandInv, StateInv, AckedSameMap
<1>8. UnqueuedInv
  BY <1>1, <1>4 DEF UnqueuedInv, NumberNoted, PrimedInv, ActiveInv
<1> QED
  BY <1>2, <1>5, <1>6, <1>7, <1>8 DEF IInv

(***************************************************************************)
(* The numbers that are compared.                                          *)
(***************************************************************************)
LEMMA Numbers ==
  ASSUME TypeOK
  PROVE  /\ sv.serverId \in Nat /\ sv.cs \in Nat
         /\ cl.gamestateMessageNum \in Int /\ cl.reliableAcknowledge \in Nat
         /\ cl.reliableCommands \in Seq(Nat) /\ Issued \in Nat
         /\ chan.outgoingSequence \in Nat
         /\ cg.serverId \in Nat /\ cg.cs \in Nat
         /\ cg.serverMessageSequence \in Nat /\ cg.serverCommandSequence \in Nat
         /\ \A m \in Coming : m \in MessageType
         /\ \A m \in MessageType :
               /\ m.serverId \in Nat /\ m.sequence \in Nat /\ m.first \in Nat /\ m.cs \in Nat
               /\ m.commands \in Seq(Nat) /\ Len(m.commands) \in Nat /\ LastIn(m) \in Int
         /\ \A i \in 1 .. Len(toClient) : toClient[i] \in MessageType /\ toClient[i] \in Coming
         /\ \A i \in 1 .. Len(toServer) :
               /\ toServer[i] \in ReplyType
               /\ toServer[i].serverId \in Nat /\ toServer[i].messageAcknowledge \in Nat
               /\ toServer[i].reliableAcknowledge \in Nat
<1> USE TypeParts
<1>1. /\ sv.serverId \in Nat /\ sv.cs \in Nat
      /\ cl.gamestateMessageNum \in Int /\ cl.reliableAcknowledge \in Nat
      /\ cl.reliableCommands \in Seq(Nat)
      /\ chan.outgoingSequence \in Nat
      /\ cg.serverId \in Nat /\ cg.cs \in Nat
      /\ cg.serverMessageSequence \in Nat /\ cg.serverCommandSequence \in Nat
  BY DEF ServerType, SlotType, ChanType, ClientType
<1>2. Issued \in Nat
  BY <1>1 DEF Issued
<1>3. \A m \in Coming : m \in MessageType
  BY ComingType
<1>4. ASSUME NEW m \in MessageType
      PROVE  /\ m.serverId \in Nat /\ m.sequence \in Nat /\ m.first \in Nat /\ m.cs \in Nat
             /\ m.commands \in Seq(Nat) /\ Len(m.commands) \in Nat /\ LastIn(m) \in Int
  <2>1. m.serverId \in Nat /\ m.sequence \in Nat /\ m.first \in Nat /\ m.cs \in Nat
        /\ m.commands \in Seq(Nat)
    BY DEF MessageType
  <2> QED
    BY <2>1 DEF LastIn
<1>5. \A i \in 1 .. Len(toClient) : toClient[i] \in MessageType /\ toClient[i] \in Coming
  BY DEF Coming
<1>6. \A i \in 1 .. Len(toServer) : toServer[i] \in ReplyType
  OBVIOUS
<1> QED
  BY <1>1, <1>2, <1>3, <1>4, <1>5, <1>6 DEF ReplyType

(***************************************************************************)
(* A message just built carries the latest and every unacknowledged        *)
(* command.                                                                *)
(***************************************************************************)
LEMMA Built ==
  ASSUME TypeOK, NEW s \in SlotType, s.reliableCommands = cl.reliableCommands,
         s.reliableAcknowledge <= Issued,
         NEW kind \in {"gamestate", "snapshot"}, NEW size \in Sizes,
         NEW m, m = Message(kind, size, s)
  PROVE  /\ m \in MessageType
         /\ m.kind = kind /\ m.serverId = sv.serverId /\ m.cs = sv.cs
         /\ Repeats(m) /\ LastIn(m) = Issued /\ m.first = s.reliableAcknowledge + 1
<1>1. PICK commands \in Seq(Nat), issued \in Nat : commands = cl.reliableCommands /\ issued = Issued
      /\ issued = Len(commands)
  BY Numbers DEF Issued
<1>2. PICK ack \in Nat : ack = s.reliableAcknowledge
  BY DEF SlotType
<1>3. PICK rest : rest = SubSeq(commands, ack + 1, issued)
  OBVIOUS
<1>4. /\ rest \in Seq(Nat) /\ Len(rest) = issued - ack
      /\ \A j \in 1 .. Len(rest) : rest[j] = commands[ack + j]
  <2>1. CASE ack = 0
    <3>1. rest = commands
      BY <1>1, <1>3, <2>1
    <3> QED
      BY <1>1, <2>1, <3>1
  <2>2. CASE ack # 0
    <3>1. ack \in 1 .. Len(commands)
      BY <1>1, <1>2, <2>2
    <3>2. rest = SubSeq(commands, ack + 1, Len(commands))
      BY <1>1, <1>3
    <3>3. /\ rest \in Seq(Nat) /\ Len(rest) = Len(commands) - ack
          /\ \A j \in 1 .. Len(rest) : rest[j] = commands[ack + j]
      <4> HIDE <1>1, <1>3
      <4> QED
        BY <3>1, <3>2, Suffix
    <3> QED
      BY <1>1, <3>3
  <2> QED
    BY <2>1, <2>2
<1>5. PICK first \in Nat : first = ack + 1
  OBVIOUS
<1>6. m = [kind |-> kind, size |-> size, sequence |-> 0, serverId |-> sv.serverId,
           cs |-> sv.cs, first |-> first, commands |-> rest]
  BY <1>1, <1>2, <1>3, <1>5 DEF Message, Issued
<1>7. m \in MessageType
  BY <1>4, <1>6, Numbers DEF MessageType
<1>8. LastIn(m) = Issued
  <2>1. m.first = first /\ m.commands = rest
    BY <1>6
  <2>2. LastIn(m) = first + Len(rest) - 1
    BY <2>1 DEF LastIn
  <2>3. PICK len \in Nat : len = Len(rest)
    BY <1>4
  <2>4. first + len - 1 = issued
    BY <1>4, <1>5, <2>3
  <2> QED
    BY <1>1, <2>2, <2>3, <2>4
<1>9. rest # << >> => rest[Len(rest)] = commands[issued]
  <2> SUFFICES ASSUME rest # << >>
               PROVE  rest[Len(rest)] = commands[issued]
    OBVIOUS
  <2>1. Len(rest) \in 1 .. Len(rest) /\ ack + Len(rest) = issued
    BY <1>1, <1>4
  <2> QED
    BY <1>4, <2>1
<1>10. Repeats(m)
  BY <1>1, <1>5, <1>6, <1>8, <1>9 DEF Repeats
<1> QED
  BY <1>2, <1>5, <1>6, <1>7, <1>8, <1>10

(***************************************************************************)
(* What Like keeps.                                                        *)
(***************************************************************************)
LEMMA LikeKeeps ==
  ASSUME NEW d, NEW m, Like(d, m)
  PROVE  /\ d.kind = m.kind /\ d.serverId = m.serverId
         /\ LastIn(d) = LastIn(m) /\ d.first = m.first
         /\ Repeats(m) => Repeats(d)
  BY DEF Like, LastIn, Repeats
-----------------------------------------------------------------------------
(***************************************************************************)
(* A snapshot that fits what the server has.                               *)
(***************************************************************************)
NewSnapshot(n) ==
    /\ n.kind = "snapshot"
    /\ n.serverId = sv.serverId
    /\ LastIn(n) = Issued
    /\ n.first = cl.reliableAcknowledge + 1
    /\ Repeats(n)

(***************************************************************************)
(* A message, or a fragment, goes out and nothing else changes.            *)
(***************************************************************************)
LEMMA SendSound ==
  ASSUME IInv, UNCHANGED <<sv, cl, toServer, cg, queued>>,
         chan' \in ChanType, toClient' \in Seq(MessageType),
         InOrder(toClient, chan.sending, chan.queue)', Numbered',
         chan'.outgoingSequence >= chan.outgoingSequence,
         \A n \in Coming' : (\E o \in Coming : Like(n, o)) \/ NewSnapshot(n),
         \A i \in 1 .. Len(toClient') :
               \/ i \in 1 .. Len(toClient) /\ toClient'[i] = toClient[i]
               \/ toClient'[i].sequence = chan.outgoingSequence,
         ~queued => /\ chan'.queue = << >>
                    /\ \A n \in Coming' : \/ n \in Coming
                                          \/ n.kind = "snapshot"
                                             /\ n.sequence > cl.gamestateMessageNum
                    /\ chan'.sending = NoMessage
                       => cl.gamestateMessageNum < chan'.outgoingSequence
  PROVE  IInv'
<1>1. TypeOK /\ TypeOK'
  BY TypeParts DEF IInv, TypeOK, ServerType, SlotType, ChanType, ReplyType, ClientType, MessageType
<1>2. \A n \in Coming' : n.sequence \in Nat
  <2>1. \A i \in 1 .. Len(toClient') : toClient'[i] \in MessageType
    OBVIOUS
  <2>2. chan'.queue \in Seq(MessageType) /\ chan'.sending \in MessageType \cup {NoMessage}
    BY DEF ChanType
  <2>3. \A i \in 1 .. Len(chan'.queue) : chan'.queue[i] \in MessageType
    BY <2>2
  <2>4. \A n \in Coming' : n \in MessageType
    BY <2>1, <2>2, <2>3 DEF Coming
  <2> QED
    BY <2>4 DEF MessageType
<1>3. Issued' = Issued
  BY DEF Issued
<1>4. \A n \in Coming' : /\ cg.serverId <= n.serverId /\ n.serverId <= sv.serverId
                         /\ Repeats(n)
                         /\ n.first - 1 <= cg.serverCommandSequence
                         /\ cg.serverCommandSequence <= LastIn(n)
  <2> SUFFICES ASSUME NEW n \in Coming'
               PROVE  /\ cg.serverId <= n.serverId /\ n.serverId <= sv.serverId
                      /\ Repeats(n)
                      /\ n.first - 1 <= cg.serverCommandSequence
                      /\ cg.serverCommandSequence <= LastIn(n)
    OBVIOUS
  <2>1. CASE \E o \in Coming : Like(n, o)
    BY <2>1, LikeKeeps DEF IInv, MapInv, CommandInv
  <2>2. CASE NewSnapshot(n)
    <3>1. /\ cg.serverId \in Nat /\ sv.serverId \in Nat /\ cg.serverId <= sv.serverId
          /\ cl.reliableAcknowledge \in Nat /\ cl.reliableAcknowledge <= cg.serverCommandSequence
          /\ cg.serverCommandSequence <= Issued
      BY <1>1, Numbers DEF IInv, MapInv, CommandInv
    <3>2. /\ n.serverId = sv.serverId /\ LastIn(n) = Issued
          /\ n.first = cl.reliableAcknowledge + 1 /\ Repeats(n)
      BY <2>2 DEF NewSnapshot
    <3>3. n.first - 1 = cl.reliableAcknowledge
      BY <3>1, <3>2
    <3> QED
      BY <3>1, <3>2, <3>3
  <2> QED
    BY <2>1, <2>2
<1>5. MapInv'
  BY <1>4 DEF IInv, MapInv
<1>6. NumberInv'
  <2>1. /\ chan.outgoingSequence \in Nat /\ chan'.outgoingSequence \in Nat
        /\ cg.serverMessageSequence \in Nat /\ cl.gamestateMessageNum \in Int
    BY <1>1, Numbers, TypeParts DEF ChanType
  <2>2. \A i \in 1 .. Len(toClient') : cg.serverMessageSequence < toClient'[i].sequence
    BY DEF IInv, NumberInv
  <2>3. /\ cl.gamestateMessageNum <= chan'.outgoingSequence
        /\ cg.serverMessageSequence < chan'.outgoingSequence
    BY <2>1 DEF IInv, NumberInv
  <2> QED
    BY <2>2, <2>3 DEF IInv, NumberInv
<1>7. CommandInv'
  <2>1. \A n \in Coming' : Repeats(n)'
    BY <1>3, <1>4 DEF Repeats
  <2> QED
    BY <1>3, <1>4, <2>1 DEF IInv, CommandInv, LastIn
<1>8. StateInv' /\ AckedSameMap'
  <2>1. cl.gamestateAck = "init" =>
          \A n \in Coming' : n.kind = "gamestate" => n.serverId < sv.serverId
    BY LikeKeeps DEF IInv, StateInv, NewSnapshot
  <2> QED
    BY <2>1 DEF IInv, StateInv, AckedSameMap
<1>9. UnqueuedInv'
  <2> SUFFICES ASSUME ~queued
               PROVE  (NumberNoted /\ PrimedInv /\ ActiveInv)'
    BY DEF UnqueuedInv
  <2>1. NumberNoted /\ PrimedInv /\ ActiveInv
    BY DEF IInv, UnqueuedInv
  <2>2. NumberNoted'
    <3>1. \A n \in Coming' :
             /\ Gamestate(n) => n.sequence <= cl.gamestateMessageNum
             /\ cl.state # "connected" /\ n.sequence = cl.gamestateMessageNum => Gamestate(n)
      <4> SUFFICES ASSUME NEW n \in Coming'
                   PROVE  /\ Gamestate(n) => n.sequence <= cl.gamestateMessageNum
                          /\ cl.state # "connected" /\ n.sequence = cl.gamestateMessageNum
                             => Gamestate(n)
        OBVIOUS
      <4>1. CASE n \in Coming
        BY <2>1, <4>1 DEF NumberNoted
      <4>2. CASE n.kind = "snapshot" /\ n.sequence > cl.gamestateMessageNum
        <5>1. ~Gamestate(n)
          BY <4>2 DEF Gamestate
        <5>2. n.sequence \in Nat /\ cl.gamestateMessageNum \in Int
          BY <1>1, <1>2, Numbers
        <5>3. n.sequence # cl.gamestateMessageNum
          BY <4>2, <5>2
        <5> QED
          BY <5>1, <5>3
      <4> QED
        BY <4>1, <4>2
    <3> QED
      BY <2>1, <3>1 DEF NumberNoted
  <2>3. PrimedInv'
    <3>1. \A n \in Coming' : Gamestate(n) => n \in Coming
      BY DEF Gamestate
    <3> QED
      BY <1>3, <2>1, <3>1 DEF PrimedInv, Loaded, ClientLoaded, Counts
  <2>4. ActiveInv'
    BY <1>3, <2>1 DEF ActiveInv
  <2> QED
    BY <2>2, <2>3, <2>4
<1> QED
  BY <1>1, <1>5, <1>6, <1>7, <1>8, <1>9 DEF IInv

(***************************************************************************)
(* The next fragment.                                                      *)
(***************************************************************************)
LEMMA FragmentInv == ASSUME IInv, SV_TransmitNextFragment PROVE IInv'
<1>1. /\ SV_Netchan_TransmitNextFragment /\ UNCHANGED <<sv, cl, toServer, cg, queued>>
      /\ toClient \in Seq(MessageType) /\ chan \in ChanType /\ Numbered
      /\ InOrder(toClient, chan.sending, chan.queue) /\ TypeOK
  BY TypeParts DEF SV_TransmitNextFragment, IInv, MapInv, NumberInv
<1>2. /\ chan' \in ChanType /\ toClient' \in Seq(MessageType)
      /\ InOrder(toClient, chan.sending, chan.queue)' /\ Numbered'
      /\ chan'.outgoingSequence >= chan.outgoingSequence
      /\ \A n \in Coming' : \E o \in Coming : Like(n, o)
      /\ \A i \in 1 .. Len(toClient') :
            \/ i \in 1 .. Len(toClient) /\ toClient'[i] = toClient[i]
            \/ toClient'[i].sequence = chan.outgoingSequence
      /\ chan.queue = << >> => /\ chan'.queue = << >>
                               /\ Coming' \subseteq Coming
                               /\ chan'.outgoingSequence > chan.outgoingSequence
  BY <1>1, FragmentStep
<1>3. ~queued => /\ chan'.queue = << >>
                 /\ Coming' \subseteq Coming
                 /\ cl.gamestateMessageNum < chan'.outgoingSequence
  <2>1. /\ chan.outgoingSequence \in Nat /\ chan'.outgoingSequence \in Nat
        /\ cl.gamestateMessageNum \in Int
        /\ cl.gamestateMessageNum <= chan.outgoingSequence
    BY <1>1, <1>2, Numbers DEF ChanType, IInv, NumberInv
  <2> QED
    BY <1>2, <2>1 DEF IInv, UnqueuedInv, NumberNoted
<1> QED
  BY <1>1, <1>2, <1>3, SendSound

(***************************************************************************)
(* A snapshot.                                                             *)
(***************************************************************************)
LEMMA SnapshotInv ==
  ASSUME IInv, NEW size \in Sizes, SV_SendClientSnapshot(size)
  PROVE  IInv'
<1>1. /\ UNCHANGED <<sv, cl, toServer, cg, queued>> /\ ~Busy
      /\ toClient \in Seq(MessageType) /\ chan \in ChanType /\ Numbered
      /\ InOrder(toClient, chan.sending, chan.queue) /\ TypeOK
      /\ cl \in SlotType
  BY TypeParts DEF SV_SendClientSnapshot, IInv, MapInv, NumberInv
<1>2. PICK kind \in {"gamestate", "snapshot"} : kind = "snapshot"
  OBVIOUS
<1>3. PICK m : m = Message(kind, size, cl)
  OBVIOUS
<1>4. SV_Netchan_Transmit(m)
  BY <1>2, <1>3 DEF SV_SendClientSnapshot
<1>5. /\ m \in MessageType /\ m.kind = kind /\ m.serverId = sv.serverId /\ Repeats(m)
      /\ LastIn(m) = Issued /\ m.first = cl.reliableAcknowledge + 1
  <2>1. cl.reliableAcknowledge <= Issued
    BY <1>1, Numbers DEF IInv, CommandInv
  <2> QED
    BY <1>1, <1>3, <2>1, Built
<1>6. \A n \in Coming : NoLater(n, m)
  BY <1>5 DEF IInv, MapInv, CommandInv, Repeats, NoLater
<1>7. /\ chan' \in ChanType /\ toClient' \in Seq(MessageType)
      /\ InOrder(toClient, chan.sending, chan.queue)' /\ Numbered'
      /\ chan'.outgoingSequence >= chan.outgoingSequence
      /\ \A n \in Coming' : n \in Coming \/ Like(n, m)
      /\ \A i \in 1 .. Len(toClient') :
            \/ i \in 1 .. Len(toClient) /\ toClient'[i] = toClient[i]
            \/ toClient'[i].sequence = chan.outgoingSequence
      /\ chan'.queue = << >>
      /\ \A n \in Coming' : n \in Coming \/ n.sequence = chan.outgoingSequence
      /\ chan'.sending # NoMessage \/ chan'.outgoingSequence > chan.outgoingSequence
  BY <1>1, <1>4, <1>5, <1>6, TransmitStep
<1>8. \A n \in Coming' : n \in Coming \/ NewSnapshot(n)
  BY <1>2, <1>5, <1>7, LikeKeeps DEF NewSnapshot
<1>9. ASSUME ~queued
      PROVE  /\ \A n \in Coming' : \/ n \in Coming
                                   \/ n.kind = "snapshot"
                                      /\ n.sequence > cl.gamestateMessageNum
             /\ chan'.sending = NoMessage
                => cl.gamestateMessageNum < chan'.outgoingSequence
  <2>1. cl.gamestateMessageNum < chan.outgoingSequence
    BY <1>1, <1>9 DEF Busy, IInv, UnqueuedInv, NumberNoted
  <2>2. /\ chan.outgoingSequence \in Nat /\ chan'.outgoingSequence \in Nat
        /\ cl.gamestateMessageNum \in Int
    BY <1>1, <1>7, Numbers DEF ChanType
  <2> QED
    BY <1>7, <1>8, <2>1, <2>2 DEF NewSnapshot
<1>10. \A n : Like(n, n)
  BY DEF Like
<1>11. \A n \in Coming' : (\E o \in Coming : Like(n, o)) \/ NewSnapshot(n)
  BY <1>8, <1>10
<1> QED
  BY <1>1, <1>7, <1>9, <1>11, SendSound
-----------------------------------------------------------------------------
(***************************************************************************)
(* What is under way once message i has arrived, and those before it are   *)
(* lost: messages no earlier than it, with higher numbers.                 *)
(***************************************************************************)
LEMMA ReceivedStep ==
  ASSUME TypeOK, Numbered, InOrder(toClient, chan.sending, chan.queue),
         NEW i \in 1 .. Len(toClient),
         toClient' = SubSeq(toClient, i + 1, Len(toClient)), chan' = chan
  PROVE  /\ toClient' \in Seq(MessageType)
         /\ InOrder(toClient, chan.sending, chan.queue)' /\ Numbered'
         /\ Coming' \subseteq Coming
         /\ \A n \in Coming' : NoLater(toClient[i], n)
         /\ \A j \in 1 .. Len(toClient') : toClient[i].sequence < toClient'[j].sequence
<1>1. toClient \in Seq(MessageType)
  BY TypeParts
<1>2. /\ toClient' \in Seq(MessageType)
      /\ \A j \in 1 .. Len(toClient') : i + j \in 1 .. Len(toClient)
                                        /\ toClient'[j] = toClient[i + j]
  BY <1>1, Suffix
<1>3. ASSUME NEW j \in 1 .. Len(toClient')
      PROVE  \E k \in 1 .. Len(toClient) : k = i + j /\ i < k /\ toClient'[j] = toClient[k]
  <2>1. i \in Nat /\ j \in Nat /\ j >= 1
    BY <1>1, <1>2
  <2>2. PICK k : k = i + j
    OBVIOUS
  <2>3. i < k
    BY <2>1, <2>2
  <2>4. k \in 1 .. Len(toClient) /\ toClient'[j] = toClient[k]
    BY <1>2, <2>2
  <2> QED
    BY <2>2, <2>3, <2>4
<1>4. InOrder(toClient, chan.sending, chan.queue)'
  <2>1. \A j \in 1 .. Len(toClient'), l \in 1 .. Len(toClient') :
           j < l => NoLater(toClient'[j], toClient'[l])
    <3> SUFFICES ASSUME NEW j \in 1 .. Len(toClient'), NEW l \in 1 .. Len(toClient'), j < l
                 PROVE  NoLater(toClient'[j], toClient'[l])
      OBVIOUS
    <3>1. PICK k \in 1 .. Len(toClient) : k = i + j /\ toClient'[j] = toClient[k]
      BY <1>3
    <3>2. PICK p \in 1 .. Len(toClient) : p = i + l /\ toClient'[l] = toClient[p]
      BY <1>3
    <3>3. k < p
      BY <3>1, <3>2
    <3> QED
      BY <3>1, <3>2, <3>3 DEF InOrder
  <2>2. \A j \in 1 .. Len(toClient'), l \in 1 .. Len(chan.queue) :
           NoLater(toClient'[j], chan.queue[l])
    BY <1>3 DEF InOrder
  <2>3. chan.sending # NoMessage =>
           \A j \in 1 .. Len(toClient') : NoLater(toClient'[j], chan.sending)
    BY <1>3 DEF InOrder
  <2>4. /\ \A j \in 1 .. Len(chan.queue), l \in 1 .. Len(chan.queue) :
              j < l => NoLater(chan.queue[j], chan.queue[l])
        /\ chan.sending # NoMessage =>
              \A l \in 1 .. Len(chan.queue) : NoLater(chan.sending, chan.queue[l])
    BY DEF InOrder
  <2>5. InOrder(toClient', chan.sending, chan.queue)
    BY <2>1, <2>2, <2>3, <2>4 DEF InOrder
  <2> QED
    BY <2>5
<1>5. Numbered'
  <2>1. \A j \in 1 .. Len(toClient'), l \in 1 .. Len(toClient') :
           j < l => toClient'[j].sequence < toClient'[l].sequence
    <3> SUFFICES ASSUME NEW j \in 1 .. Len(toClient'), NEW l \in 1 .. Len(toClient'), j < l
                 PROVE  toClient'[j].sequence < toClient'[l].sequence
      OBVIOUS
    <3>1. PICK k \in 1 .. Len(toClient) : k = i + j /\ toClient'[j] = toClient[k]
      BY <1>3
    <3>2. PICK p \in 1 .. Len(toClient) : p = i + l /\ toClient'[l] = toClient[p]
      BY <1>3
    <3>3. k < p
      BY <3>1, <3>2
    <3> QED
      BY <3>1, <3>2, <3>3 DEF Numbered
  <2>2. \A j \in 1 .. Len(toClient') : toClient'[j].sequence < chan.outgoingSequence
    BY <1>3 DEF Numbered
  <2> QED
    BY <2>1, <2>2 DEF Numbered
<1>6. Coming' \subseteq Coming
  BY <1>3 DEF Coming
<1>7. \A n \in Coming' : NoLater(toClient[i], n)
  <2>1. \A j \in 1 .. Len(toClient') : NoLater(toClient[i], toClient'[j])
    BY <1>3 DEF InOrder
  <2>2. chan.sending # NoMessage => NoLater(toClient[i], chan.sending)
    BY DEF InOrder
  <2>3. \A l \in 1 .. Len(chan.queue) : NoLater(toClient[i], chan.queue[l])
    BY DEF InOrder
  <2> QED
    BY <2>1, <2>2, <2>3 DEF Coming
<1>8. \A j \in 1 .. Len(toClient') : toClient[i].sequence < toClient'[j].sequence
  BY <1>3 DEF Numbered
<1> QED
  BY <1>2, <1>4, <1>5, <1>6, <1>7, <1>8

(***************************************************************************)
(* What the client makes of message m.                                     *)
(***************************************************************************)
LEMMA Parsed ==
  ASSUME IInv, NEW i \in 1 .. Len(toClient), CL_ParseServerMessage(i),
         NEW m, m = toClient[i]
  PROVE  /\ cg' \in ClientType
         /\ cg'.serverMessageSequence = m.sequence
         /\ cg'.serverCommandSequence = LastIn(m)
         /\ Gamestate(m) => cg'.serverId = m.serverId /\ cg'.cs = m.cs
         /\ ~Gamestate(m) =>
               /\ cg'.serverId = cg.serverId
               /\ LastIn(m) = cg.serverCommandSequence => cg'.cs = cg.cs
               /\ LastIn(m) # cg.serverCommandSequence =>
                     cg'.cs = cl.reliableCommands[LastIn(m)]
<1>1. TypeOK /\ m \in Coming /\ m \in MessageType
  BY Numbers DEF IInv
<1>2. PICK last \in Int, seen \in Nat : last = LastIn(m) /\ seen = cg.serverCommandSequence
  BY <1>1, Numbers
<1>3. seen <= last /\ m.first - 1 <= seen /\ Repeats(m)
  BY <1>1, <1>2 DEF IInv, CommandInv
<1>4. /\ m.sequence \in Nat /\ m.serverId \in Nat /\ m.cs \in Nat /\ m.first \in Nat
      /\ m.commands \in Seq(Nat) /\ cg \in ClientType /\ last \in Nat
  <2>1. last \in Nat
    BY <1>2, <1>3
  <2> QED
    BY <1>1, <2>1, Numbers, TypeParts
<1>5. CASE Gamestate(m)
  <2>1. cg' = [serverId |-> m.serverId, cs |-> m.cs, serverMessageSequence |-> m.sequence,
               serverCommandSequence |-> last]
    BY <1>2, <1>5 DEF CL_ParseServerMessage, Gamestate
  <2> QED
    BY <1>2, <1>4, <1>5, <2>1 DEF ClientType
<1>6. CASE ~Gamestate(m)
  <2>1. PICK cs : cs = IF last > seen THEN m.commands[Len(m.commands)] ELSE cg.cs
    OBVIOUS
  <2>2. PICK new : new = IF last > seen THEN last ELSE seen
    OBVIOUS
  <2>3. cg' = [cg EXCEPT !.serverMessageSequence = m.sequence, !.serverCommandSequence = new,
                         !.cs = cs]
    BY <1>2, <1>4, <1>6, <2>1, <2>2 DEF CL_ParseServerMessage, Gamestate, ClientType
  <2>4. new = last
    BY <1>2, <1>3, <2>2
  <2>5. CASE last = seen
    <3>1. cs = cg.cs /\ cs \in Nat
      BY <1>4, <2>1, <2>5 DEF ClientType
    <3> QED
      BY <1>2, <1>4, <1>6, <2>3, <2>4, <2>5, <3>1 DEF ClientType
  <2>6. CASE last # seen
    <3>1. last > seen
      BY <1>2, <1>3, <2>6
    <3>2. PICK len \in Nat : len = Len(m.commands) /\ last = m.first + len - 1
      BY <1>2, <1>4 DEF LastIn
    <3>3. len > 0
      BY <1>2, <1>3, <1>4, <3>1, <3>2
    <3>4. m.commands # << >> /\ m.commands[Len(m.commands)] \in Nat
      BY <1>4, <3>2, <3>3
    <3>5. cs \in Nat /\ cs = cl.reliableCommands[last]
      BY <1>2, <1>3, <2>1, <3>1, <3>4 DEF Repeats
    <3> QED
      BY <1>2, <1>4, <1>6, <2>3, <2>4, <2>6, <3>5 DEF ClientType
  <2> QED
    BY <2>5, <2>6
<1> QED
  BY <1>5, <1>6

(***************************************************************************)
(* The client receives a message.                                          *)
(***************************************************************************)
LEMMA ParseInv ==
  ASSUME IInv, NEW i \in 1 .. Len(toClient), CL_ParseServerMessage(i)
  PROVE  IInv'
<1>1. PICK m : m = toClient[i]
  OBVIOUS
<1>2. /\ UNCHANGED <<sv, cl, chan, toServer, queued>>
      /\ toClient' = SubSeq(toClient, i + 1, Len(toClient))
  BY DEF CL_ParseServerMessage
<1>3. /\ TypeOK /\ m \in Coming /\ m \in MessageType
      /\ Numbered /\ InOrder(toClient, chan.sending, chan.queue)
  BY <1>1, Numbers DEF IInv, MapInv, NumberInv
<1>4. /\ toClient' \in Seq(MessageType)
      /\ InOrder(toClient, chan.sending, chan.queue)' /\ Numbered'
      /\ Coming' \subseteq Coming
      /\ \A n \in Coming' : NoLater(m, n)
      /\ \A j \in 1 .. Len(toClient') : m.sequence < toClient'[j].sequence
  BY <1>1, <1>2, <1>3, ReceivedStep
<1>5. PICK last \in Int, seen \in Nat : last = LastIn(m) /\ seen = cg.serverCommandSequence
  BY <1>3, Numbers
<1>6. /\ cg' \in ClientType
      /\ cg'.serverMessageSequence = m.sequence
      /\ cg'.serverCommandSequence = last
      /\ Gamestate(m) => cg'.serverId = m.serverId /\ cg'.cs = m.cs
      /\ ~Gamestate(m) => /\ cg'.serverId = cg.serverId
                          /\ last = seen => cg'.cs = cg.cs
                          /\ last # seen => cg'.cs = cl.reliableCommands[last]
  BY <1>1, <1>5, Parsed
<1>7. /\ seen <= last /\ last <= Issued /\ Issued \in Nat /\ Issued' = Issued
      /\ cg.serverId <= m.serverId /\ m.serverId <= sv.serverId
      /\ cg.serverId \in Nat /\ m.serverId \in Nat /\ sv.serverId \in Nat
      /\ m.sequence \in Nat /\ cg.serverMessageSequence \in Nat
      /\ cg.serverMessageSequence < m.sequence
      /\ cl.gamestateMessageNum \in Int
  <2>1. cg.serverMessageSequence < m.sequence
    BY <1>1 DEF IInv, NumberInv
  <2>2. Issued' = Issued
    BY <1>2 DEF Issued
  <2> QED
    BY <1>3, <1>5, <2>1, <2>2, Numbers DEF IInv, CommandInv, Repeats, MapInv
<1>8. TypeOK'
  BY <1>2, <1>3, <1>4, <1>6, TypeParts
     DEF TypeOK, ServerType, SlotType, ChanType, ReplyType, ClientType, MessageType
<1>9. cg.serverId <= cg'.serverId /\ cg'.serverId <= sv.serverId
      /\ \A n \in Coming' : cg'.serverId <= n.serverId
  BY <1>4, <1>6, <1>7 DEF NoLater, IInv, MapInv
<1>10. MapInv'
  <2>1. \A k \in 1 .. Len(toServer) : toServer[k].serverId <= cg'.serverId
    <3>1. \A k \in 1 .. Len(toServer) :
             toServer[k].serverId \in Nat /\ toServer[k].serverId <= cg.serverId
      BY <1>3, Numbers DEF IInv, MapInv
    <3>2. cg'.serverId \in Nat
      BY <1>6 DEF ClientType
    <3> QED
      BY <1>7, <1>9, <3>1, <3>2
  <2> QED
    BY <1>2, <1>4, <1>9, <2>1 DEF IInv, MapInv
<1>11. NumberInv'
  <2>1. m.sequence < chan.outgoingSequence
    BY <1>1, <1>3 DEF Numbered
  <2>2. \A k \in 1 .. Len(toServer) : toServer[k].messageAcknowledge <= m.sequence
    <3>1. \A k \in 1 .. Len(toServer) :
             /\ toServer[k].messageAcknowledge \in Nat
             /\ toServer[k].messageAcknowledge <= cg.serverMessageSequence
      BY <1>3, Numbers DEF IInv, NumberInv
    <3> QED
      BY <1>7, <3>1
  <2>3. cl'.gamestateMessageNum <= chan'.outgoingSequence
    BY <1>2 DEF IInv, NumberInv
  <2>4. cg'.serverMessageSequence < chan'.outgoingSequence
    BY <1>2, <1>6, <2>1
  <2>5. \A j \in 1 .. Len(toClient') : cg'.serverMessageSequence < toClient'[j].sequence
    BY <1>4, <1>6
  <2>6. \A k \in 1 .. Len(toServer') :
           toServer'[k].messageAcknowledge <= cg'.serverMessageSequence
    BY <1>2, <1>6, <2>2
  <2> QED
    BY <1>4, <2>3, <2>4, <2>5, <2>6 DEF NumberInv
<1>12. CommandInv'
  <2>1. cl.reliableAcknowledge <= last /\ last <= Issued
    BY SMTT(20), <1>3, <1>5, <1>7, Numbers DEF IInv, CommandInv
  <2>2. ASSUME NEW n \in Coming'
        PROVE  Repeats(n)' /\ n.first - 1 <= last /\ last <= LastIn(n)
    <3>1. Repeats(n) /\ n.first - 1 <= seen /\ n.first \in Nat
      BY <1>3, <1>4, <1>5, Numbers DEF IInv, CommandInv
    <3>2. last <= LastIn(n)
      BY <1>4, <1>5 DEF NoLater
    <3>3. Repeats(n)'
      BY <1>2, <1>7, <3>1 DEF Repeats
    <3> QED
      BY SMTT(20), <1>5, <1>7, <3>1, <3>2, <3>3
  <2>3. \A k \in 1 .. Len(toServer) : toServer[k].reliableAcknowledge <= last
    <3>1. \A k \in 1 .. Len(toServer) :
             /\ toServer[k].reliableAcknowledge \in Nat
             /\ toServer[k].reliableAcknowledge <= seen
      BY <1>3, <1>5, Numbers DEF IInv, CommandInv
    <3> QED
      BY <1>5, <1>7, <3>1
  <2> QED
    BY SMTT(20), <1>2, <1>6, <1>7, <2>1, <2>2, <2>3 DEF CommandInv, LastIn
<1>13. StateInv' /\ AckedSameMap'
  <2>1. cl.gamestateAck = "init" => cg'.serverId < sv.serverId
    BY <1>3, <1>6 DEF IInv, StateInv, Gamestate
  <2>2. cg.serverId = sv.serverId => cg'.serverId = sv.serverId
    BY <1>6, <1>7
  <2> QED
    BY <1>2, <1>4, <2>1, <2>2 DEF IInv, StateInv, AckedSameMap
<1>14. UnqueuedInv'
  <2> SUFFICES ASSUME ~queued
               PROVE  (NumberNoted /\ PrimedInv /\ ActiveInv)'
    BY <1>2 DEF UnqueuedInv
  <2>1. NumberNoted /\ PrimedInv /\ ActiveInv
    BY DEF IInv, UnqueuedInv
  <2>2. NumberNoted'
    BY <1>2, <1>4, <1>6, <1>7, <2>1 DEF NumberNoted
  <2>3. cl.gamestateMessageNum <= cg.serverMessageSequence => ~Gamestate(m)
    BY <1>3, <1>7, <2>1 DEF NumberNoted
  <2>4. ~Gamestate(m) /\ ClientLoaded => Loaded(last, cg'.cs)
    BY <1>5, <1>6, <1>7 DEF ClientLoaded, Loaded
  <2>5. PrimedInv'
    <3> SUFFICES ASSUME cl.state = "primed"
                 PROVE  PrimedInv'
      BY <1>2 DEF PrimedInv
    <3>1. \A n \in Coming' : Gamestate(n) /\ n.serverId = sv.serverId /\ Counts(n.sequence)
                             => Loaded(LastIn(n), n.cs)
      BY <1>4, <2>1 DEF PrimedInv
    <3>2. cg'.serverId = sv.serverId /\ Counts(m.sequence) => Loaded(last, cg'.cs)
      <4>1. CASE Gamestate(m)
        BY <1>3, <1>5, <1>6, <2>1, <4>1 DEF PrimedInv
      <4>2. CASE ~Gamestate(m)
        <5>1. m.sequence # cl.gamestateMessageNum
          BY <1>3, <2>1, <4>2 DEF NumberNoted
        <5> QED
          BY <1>6, <2>1, <2>4, <4>2, <5>1 DEF PrimedInv, Counts
      <4> QED
        BY <4>1, <4>2
    <3>3. ASSUME NEW k \in 1 .. Len(toServer), toServer[k].serverId = sv.serverId,
                 toServer[k].messageAcknowledge = cl.gamestateMessageNum
          PROVE  Loaded(last, cg'.cs)
      BY <2>1, <2>3, <2>4, <3>3 DEF PrimedInv, IInv, NumberInv
    <3>4. cl.gamestateAck = "acked" => Loaded(last, cg'.cs)
      BY <2>1, <2>3, <2>4 DEF PrimedInv, NumberNoted
    <3> QED
      BY <1>2, <1>6, <1>7, <3>1, <3>2, <3>3, <3>4
         DEF PrimedInv, Counts, Loaded, ClientLoaded, LastIn, Gamestate
  <2>6. ActiveInv'
    <3> SUFFICES ASSUME cl.state = "active"
                 PROVE  ActiveInv'
      BY <1>2 DEF ActiveInv
    <3>1. ~Gamestate(m)
      BY <2>1, <2>3 DEF NumberNoted, IInv, StateInv
    <3>2. IF seen = Issued THEN cg.cs = sv.cs ELSE cl.reliableCommands[Issued] = sv.cs
      BY <1>5, <2>1 DEF ActiveInv
    <3>3. IF last = Issued THEN cg'.cs = sv.cs ELSE cl.reliableCommands[Issued] = sv.cs
      BY <1>5, <1>6, <1>7, <3>1, <3>2
    <3> QED
      BY <1>2, <1>6, <1>7, <3>3 DEF ActiveInv
  <2> QED
    BY <2>2, <2>5, <2>6
<1> QED
  BY <1>8, <1>10, <1>11, <1>12, <1>13, <1>14 DEF IInv
-----------------------------------------------------------------------------
(***************************************************************************)
(* One more command leaves the messages under way correct.                 *)
(***************************************************************************)
LEMMA RepeatsStill ==
  ASSUME TypeOK, NEW x \in Nat,
         cl'.reliableCommands = Append(cl.reliableCommands, x)
  PROVE  /\ cl'.reliableCommands \in Seq(Nat)
         /\ Issued' = Issued + 1 /\ cl'.reliableCommands[Issued + 1] = x
         /\ \A n \in MessageType : Repeats(n) => Repeats(n)'
<1>1. PICK log \in Seq(Nat), issued \in Nat :
          log = cl.reliableCommands /\ issued = Issued /\ issued = Len(log)
  BY Numbers DEF Issued
<1>2. /\ cl'.reliableCommands \in Seq(Nat)
      /\ Len(cl'.reliableCommands) = issued + 1
      /\ cl'.reliableCommands[issued + 1] = x
      /\ \A j \in 1 .. issued : cl'.reliableCommands[j] = log[j]
  BY <1>1, Appended
<1>3. Issued' = issued + 1
  BY <1>2 DEF Issued
<1>4. ASSUME NEW n \in MessageType, Repeats(n)
      PROVE  Repeats(n)'
  <2>1. PICK last \in Int : last = LastIn(n) /\ n.first \in Nat /\ Len(n.commands) \in Nat
        /\ n.commands \in Seq(Nat)
    BY Numbers
  <2>2. n.first >= 1 /\ last <= issued
        /\ (n.commands # << >> => n.commands[Len(n.commands)] = log[last])
    BY <1>1, <1>4, <2>1 DEF Repeats
  <2>3. n.commands # << >> => last \in 1 .. issued
    <3>1. n.commands # << >> => Len(n.commands) >= 1
      BY <2>1
    <3>2. last = n.first + Len(n.commands) - 1
      BY <2>1 DEF LastIn
    <3> QED
      BY <2>1, <2>2, <3>1, <3>2
  <2>4. last <= issued + 1
    BY <1>1, <2>1, <2>2
  <2>5. n.commands # << >> => n.commands[Len(n.commands)] = cl'.reliableCommands[last]
    BY <1>2, <2>2, <2>3
  <2>6. LastIn(n)' = last
    BY <2>1 DEF LastIn
  <2> QED
    BY <1>3, <2>2, <2>4, <2>5, <2>6 DEF Repeats
<1> QED
  BY <1>1, <1>2, <1>3, <1>4

(***************************************************************************)
(* The client sends a message.                                             *)
(***************************************************************************)
LEMMA WriteInv == ASSUME IInv, NEW move \in BOOLEAN, CL_WritePacket(move) PROVE IInv'
<1>1. PICK r : r = [serverId |-> cg.serverId, messageAcknowledge |-> cg.serverMessageSequence,
                    reliableAcknowledge |-> cg.serverCommandSequence, move |-> move]
  OBVIOUS
<1>2. /\ toServer' = Append(toServer, r)
      /\ UNCHANGED <<sv, cl, chan, toClient, cg, queued>>
  BY <1>1 DEF CL_WritePacket
<1>3. TypeOK /\ toServer \in Seq(ReplyType)
  BY TypeParts DEF IInv
<1>4. r \in ReplyType /\ r.serverId = cg.serverId
      /\ r.messageAcknowledge = cg.serverMessageSequence
      /\ r.reliableAcknowledge = cg.serverCommandSequence
  BY <1>1, <1>3, Numbers DEF ReplyType
<1>5. PICK len \in Nat : len = Len(toServer)
  BY <1>3
<1>6. /\ toServer' \in Seq(ReplyType) /\ Len(toServer') = len + 1
      /\ toServer'[len + 1] = r
      /\ \A j \in 1 .. len : toServer'[j] = toServer[j]
  BY <1>2, <1>3, <1>4, <1>5, Appended
<1>7. \A j \in 1 .. Len(toServer') :
         (j \in 1 .. Len(toServer) /\ toServer'[j] = toServer[j]) \/ toServer'[j] = r
  BY <1>5, <1>6
<1>8. Coming' = Coming /\ Issued' = Issued
  BY <1>2 DEF Coming, Issued
<1>9. TypeOK'
  BY <1>2, <1>3, <1>6, TypeParts
     DEF TypeOK, ServerType, SlotType, ChanType, ReplyType, ClientType, MessageType
<1>10. MapInv'
  <2>1. cg.serverId <= cg.serverId
    BY <1>3, Numbers
  <2>2. \A j \in 1 .. Len(toServer') : toServer'[j].serverId <= cg.serverId
    BY <1>4, <1>7, <2>1 DEF IInv, MapInv
  <2> QED
    BY <1>2, <1>8, <2>2 DEF IInv, MapInv, InOrder, NoLater, LastIn
<1>11. NumberInv'
  <2>1. cg.serverMessageSequence <= cg.serverMessageSequence
    BY <1>3, Numbers
  <2>2. \A j \in 1 .. Len(toServer') :
            toServer'[j].messageAcknowledge <= cg.serverMessageSequence
    BY <1>4, <1>7, <2>1 DEF IInv, NumberInv
  <2> QED
    BY <1>2, <2>2 DEF IInv, NumberInv, Numbered
<1>12. CommandInv'
  <2>1. cg.serverCommandSequence <= cg.serverCommandSequence
    BY <1>3, Numbers
  <2>2. \A j \in 1 .. Len(toServer') :
            toServer'[j].reliableAcknowledge <= cg.serverCommandSequence
    BY <1>4, <1>7, <2>1 DEF IInv, CommandInv
  <2> QED
    BY <1>2, <1>8, <2>2 DEF IInv, CommandInv, Repeats, LastIn
<1>13. StateInv' /\ AckedSameMap'
  BY <1>2, <1>8 DEF IInv, StateInv, AckedSameMap
<1>14. UnqueuedInv'
  <2> SUFFICES ASSUME ~queued
               PROVE  (NumberNoted /\ PrimedInv /\ ActiveInv)'
    BY <1>2 DEF UnqueuedInv
  <2>1. NumberNoted /\ PrimedInv /\ ActiveInv
    BY DEF IInv, UnqueuedInv
  <2>2. NumberNoted' /\ ActiveInv'
    BY <1>2, <1>8, <2>1 DEF NumberNoted, ActiveInv, Gamestate
  <2>3. PrimedInv'
    <3> SUFFICES ASSUME cl.state = "primed"
                 PROVE  PrimedInv'
      BY <1>2 DEF PrimedInv
    <3>1. \A j \in 1 .. Len(toServer') :
              /\ toServer'[j].serverId = sv.serverId
              /\ toServer'[j].messageAcknowledge = cl.gamestateMessageNum
              => ClientLoaded
      BY <1>4, <1>7, <2>1 DEF PrimedInv, Counts
    <3> QED
      BY <1>2, <1>8, <2>1, <3>1 DEF PrimedInv, Counts, Loaded, ClientLoaded, LastIn, Gamestate
  <2> QED
    BY <2>2, <2>3
<1> QED
  BY <1>9, <1>10, <1>11, <1>12, <1>13, <1>14 DEF IInv

(***************************************************************************)
(* A configstring changes.                                                 *)
(***************************************************************************)
LEMMA ConfigstringInv == ASSUME IInv, SV_SetConfigstring PROVE IInv'
<1>1. TypeOK /\ cl \in SlotType /\ sv \in ServerType
  BY TypeParts DEF IInv
<1>2. PICK cs \in Nat : cs = sv.cs + 1
  BY <1>1, Numbers
<1>3. /\ sv' = [sv EXCEPT !.cs = cs]
      /\ UNCHANGED <<chan, toClient, toServer, cg, queued>>
  BY <1>1, <1>2 DEF SV_SetConfigstring, ServerType
<1>4. sv' \in ServerType /\ sv'.serverId = sv.serverId /\ sv'.cs = cs
  BY <1>1, <1>2, <1>3 DEF ServerType
<1>5. Coming' = Coming
  BY <1>3 DEF Coming
<1>6. /\ cl' \in SlotType
      /\ cl'.state = cl.state /\ cl'.gamestateAck = cl.gamestateAck
      /\ cl'.gamestateMessageNum = cl.gamestateMessageNum
      /\ cl'.reliableAcknowledge = cl.reliableAcknowledge
      /\ cl.state # "active" => cl'.csUpdated /\ Issued' = Issued
      /\ cl.state = "active" => Issued' = Issued + 1 /\ cl'.reliableCommands[Issued'] = cs
      /\ \A n \in MessageType : Repeats(n) => Repeats(n)'
  <2>1. CASE cl.state = "active"
    <3>1. PICK longer : longer = Append(cl.reliableCommands, cs)
      OBVIOUS
    <3>2. cl' = [cl EXCEPT !.reliableCommands = longer]
      BY <1>1, <1>2, <2>1, <3>1 DEF SV_SetConfigstring, SlotType
    <3>3. cl'.reliableCommands = Append(cl.reliableCommands, cs)
      BY <1>1, <3>1, <3>2 DEF SlotType
    <3>4. /\ longer \in Seq(Nat)
          /\ Issued' = Issued + 1 /\ cl'.reliableCommands[Issued + 1] = cs
          /\ \A n \in MessageType : Repeats(n) => Repeats(n)'
      BY <1>1, <3>1, <3>3, RepeatsStill
    <3> QED
      BY <1>1, <2>1, <3>2, <3>4 DEF SlotType
  <2>2. CASE cl.state # "active"
    <3>1. cl' = [cl EXCEPT !.csUpdated = TRUE]
      BY <2>2 DEF SV_SetConfigstring
    <3>2. cl'.reliableCommands = cl.reliableCommands
      BY <3>1 DEF SlotType
    <3>3. Issued' = Issued
      BY <3>2 DEF Issued
    <3>4. \A n \in MessageType : Repeats(n) => Repeats(n)'
      BY <3>2, <3>3 DEF Repeats, LastIn
    <3> QED
      BY <1>1, <2>2, <3>1, <3>3, <3>4 DEF SlotType
  <2> QED
    BY <2>1, <2>2
<1>7. Issued \in Nat /\ Issued' \in Nat /\ Issued <= Issued'
  BY <1>1, <1>6, Numbers
<1>8. TypeOK'
  BY <1>1, <1>3, <1>4, <1>6, TypeParts
     DEF TypeOK, ServerType, SlotType, ChanType, ReplyType, ClientType, MessageType
<1>9. MapInv'
  BY <1>3, <1>4, <1>5 DEF IInv, MapInv, InOrder, NoLater, LastIn
<1>10. NumberInv'
  BY <1>3, <1>6 DEF IInv, NumberInv, Numbered
<1>11. CommandInv'
  <2>1. cg.serverCommandSequence <= Issued'
    BY <1>1, <1>7, Numbers DEF IInv, CommandInv
  <2>2. \A n \in Coming : Repeats(n)'
    BY <1>1, <1>6, Numbers DEF IInv, CommandInv
  <2> QED
    BY <1>3, <1>5, <1>6, <2>1, <2>2 DEF IInv, CommandInv, LastIn
<1>12. StateInv' /\ AckedSameMap'
  BY <1>3, <1>4, <1>5, <1>6 DEF IInv, StateInv, AckedSameMap
<1>13. UnqueuedInv'
  <2> SUFFICES ASSUME ~queued
               PROVE  (NumberNoted /\ PrimedInv /\ ActiveInv)'
    BY <1>3 DEF UnqueuedInv
  <2>1. NumberNoted /\ PrimedInv /\ ActiveInv
    BY DEF IInv, UnqueuedInv
  <2>2. NumberNoted'
    BY <1>3, <1>5, <1>6, <2>1 DEF NumberNoted, Gamestate
  <2>3. PrimedInv'
    <3> SUFFICES ASSUME cl.state = "primed"
                 PROVE  PrimedInv'
      BY <1>6 DEF PrimedInv
    <3>1. cl'.csUpdated /\ Issued' = Issued
      BY <1>6
    <3>2. \A n \in Coming : LastIn(n)' = LastIn(n)
      BY DEF LastIn
    <3>3. \A n \in Coming : Gamestate(n) /\ n.serverId = sv.serverId /\ Counts(n.sequence)
                            => LastIn(n) = Issued
      BY <2>1 DEF PrimedInv, Loaded
    <3>4. ClientLoaded => ClientLoaded'
      BY <1>3, <3>1 DEF ClientLoaded, Loaded
    <3>5. \A n : Counts(n)' = Counts(n)
      BY <1>6 DEF Counts
    <3>6. \A n \in Coming' : Gamestate(n)' /\ n.serverId = sv'.serverId /\ Counts(n.sequence)'
                             => Loaded(LastIn(n), n.cs)'
      BY <1>4, <1>5, <1>6, <3>1, <3>2, <3>3 DEF Loaded, Counts, Gamestate
    <3>7. cg'.serverId = sv'.serverId /\ Counts(cg.serverMessageSequence)' => ClientLoaded'
      BY <1>3, <1>4, <1>6, <2>1, <3>4 DEF PrimedInv, Counts
    <3>8. \A j \in 1 .. Len(toServer') :
              /\ toServer'[j].serverId = sv'.serverId
              /\ toServer'[j].messageAcknowledge = cl'.gamestateMessageNum
              => ClientLoaded'
      BY <1>3, <1>4, <1>6, <2>1, <3>4 DEF PrimedInv
    <3>9. cl'.gamestateAck = "acked" => ClientLoaded'
      BY <1>6, <2>1, <3>4 DEF PrimedInv
    <3> QED
      BY <1>3, <3>6, <3>7, <3>8, <3>9 DEF PrimedInv, Gamestate
  <2>4. ActiveInv'
    <3> SUFFICES ASSUME cl.state = "active"
                 PROVE  ActiveInv'
      BY <1>6 DEF ActiveInv
    <3>1. cg.serverCommandSequence # Issued'
      BY <1>1, <1>6, <1>7, Numbers DEF IInv, CommandInv
    <3> QED
      BY <1>3, <1>4, <1>6, <3>1 DEF ActiveInv
  <2> QED
    BY <2>2, <2>3, <2>4
<1> QED
  BY <1>8, <1>9, <1>10, <1>11, <1>12, <1>13 DEF IInv

(***************************************************************************)
(* Another map.                                                            *)
(***************************************************************************)
LEMMA SpawnInv == ASSUME IInv, SV_SpawnServer PROVE IInv'
<1>1. TypeOK /\ cl \in SlotType
  BY TypeParts DEF IInv
<1>2. PICK id \in Nat, cs \in Nat : id = sv.serverId + 1 /\ cs = sv.cs + 1
  BY <1>1, Numbers
<1>3. /\ sv' = [serverId |-> id, cs |-> cs]
      /\ cl' = [cl EXCEPT !.state = "connected", !.gamestateAck = "init"]
      /\ UNCHANGED <<chan, toClient, toServer, cg, queued>>
  BY <1>2 DEF SV_SpawnServer
<1>4. /\ sv' \in ServerType /\ sv'.serverId = id
      /\ cl' \in SlotType /\ cl'.state = "connected" /\ cl'.gamestateAck = "init"
      /\ cl'.gamestateMessageNum = cl.gamestateMessageNum
      /\ cl'.reliableAcknowledge = cl.reliableAcknowledge
      /\ cl'.reliableCommands = cl.reliableCommands
  BY <1>1, <1>2, <1>3 DEF ServerType, SlotType
<1>5. Coming' = Coming /\ Issued' = Issued
  BY <1>3, <1>4 DEF Coming, Issued
<1>6. TypeOK'
  <2>1. /\ chan' \in ChanType /\ toClient' \in Seq(MessageType)
        /\ toServer' \in Seq(ReplyType) /\ cg' \in ClientType /\ queued' \in BOOLEAN
    BY <1>1, <1>3, TypeParts
  <2>2. /\ sv' \in ServerType /\ cl' \in SlotType /\ chan' \in ChanType
        /\ toClient' \in Seq(MessageType) /\ toServer' \in Seq(ReplyType)
        /\ cg' \in ClientType /\ queued' \in BOOLEAN
    BY <1>4, <2>1
  <2> QED
    BY SMTT(20), <2>2 DEF TypeOK, ServerType, SlotType, ChanType, ReplyType, ClientType
<1>7. cg.serverId < id /\ cg.serverId <= id
      /\ \A n \in Coming : n.serverId < id /\ n.serverId <= id
  <2>1. sv.serverId \in Nat /\ cg.serverId \in Nat /\ \A n \in Coming : n.serverId \in Nat
    BY <1>1, Numbers DEF MessageType
  <2>2. cg.serverId <= sv.serverId /\ \A n \in Coming : n.serverId <= sv.serverId
    BY DEF IInv, MapInv
  <2> QED
    BY <1>2, <2>1, <2>2
<1>8. MapInv'
  BY <1>3, <1>4, <1>5, <1>7 DEF IInv, MapInv, InOrder, NoLater, LastIn
<1>9. NumberInv'
  BY <1>3, <1>4 DEF IInv, NumberInv, Numbered
<1>10. CommandInv'
  BY <1>3, <1>4, <1>5 DEF IInv, CommandInv, Repeats, LastIn
<1>11. StateInv' /\ AckedSameMap'
  BY <1>3, <1>4, <1>5, <1>7 DEF StateInv, AckedSameMap
<1>12. UnqueuedInv'
  BY <1>3, <1>4, <1>5 DEF IInv, UnqueuedInv, NumberNoted, PrimedInv, ActiveInv, Gamestate
<1> QED
  BY <1>6, <1>8, <1>9, <1>10, <1>11, <1>12 DEF IInv
-----------------------------------------------------------------------------
(***************************************************************************)
(* Of the client's messages, toServer' holds some.                         *)
(***************************************************************************)
Received ==
    /\ toServer' \in Seq(ReplyType)
    /\ \A j \in 1 .. Len(toServer') : \E k \in 1 .. Len(toServer) : toServer'[j] = toServer[k]

(***************************************************************************)
(* The slot d differs from the slot c at most in what it has seen          *)
(* acknowledged.                                                           *)
(***************************************************************************)
Same(d, c) ==
    /\ d \in SlotType
    /\ d.gamestateMessageNum = c.gamestateMessageNum
    /\ d.csUpdated = c.csUpdated
    /\ d.reliableCommands = c.reliableCommands
    /\ d.state = c.state

(***************************************************************************)
(* The client has the gamestate the server waits for.                      *)
(***************************************************************************)
HasGamestate ==
    /\ cg.serverId = sv.serverId
    /\ ~queued => ClientLoaded /\ cl.gamestateMessageNum <= cg.serverMessageSequence

(***************************************************************************)
(* The parts of the invariant that the client's messages, once received,   *)
(* leave alone.                                                            *)
(***************************************************************************)
LEMMA ReceivedKeeps ==
  ASSUME IInv, Received, UNCHANGED <<sv, chan, toClient, cg>>
  PROVE  /\ MapInv'
         /\ Numbered'
         /\ \A j \in 1 .. Len(toServer') :
               /\ toServer'[j].messageAcknowledge <= cg.serverMessageSequence
               /\ toServer'[j].reliableAcknowledge <= cg.serverCommandSequence
         /\ Coming' = Coming
<1>1. Coming' = Coming
  BY DEF Coming
<1>2. MapInv'
  <2>1. \A j \in 1 .. Len(toServer') : toServer'[j].serverId <= cg.serverId
    BY DEF Received, IInv, MapInv
  <2> QED
    BY <1>1, <2>1 DEF IInv, MapInv, InOrder, NoLater, LastIn
<1>3. Numbered'
  BY DEF IInv, NumberInv, Numbered
<1>4. \A j \in 1 .. Len(toServer') :
         /\ toServer'[j].messageAcknowledge <= cg.serverMessageSequence
         /\ toServer'[j].reliableAcknowledge <= cg.serverCommandSequence
  BY DEF Received, IInv, NumberInv, CommandInv
<1> QED
  BY <1>1, <1>2, <1>3, <1>4

(***************************************************************************)
(* A message that at most acknowledges the gamestate.                      *)
(***************************************************************************)
LEMMA AckInv ==
  ASSUME IInv, Received, UNCHANGED <<sv, chan, toClient, cg, queued>>,
         Same(cl', cl), cl'.reliableAcknowledge <= cg.serverCommandSequence,
         \/ cl'.gamestateAck = cl.gamestateAck
         \/ cl'.gamestateAck = "acked" /\ cl.state = "primed" /\ HasGamestate
  PROVE  IInv'
<1>1. TypeOK
  BY DEF IInv
<1>2. TypeOK'
  BY <1>1, TypeParts DEF Received, Same,
     TypeOK, ServerType, SlotType, ChanType, ReplyType, ClientType, MessageType
<1>3. Issued' = Issued
  BY DEF Same, Issued
<1>4. MapInv' /\ Numbered' /\ Coming' = Coming
  BY ReceivedKeeps
<1>5. NumberInv'
  BY <1>4, ReceivedKeeps DEF IInv, NumberInv, Same
<1>6. CommandInv'
  BY <1>3, <1>4, ReceivedKeeps DEF IInv, CommandInv, Same, Repeats, LastIn
<1>7. StateInv'
  BY <1>4 DEF IInv, StateInv, Same
<1>8. AckedSameMap'
  BY DEF IInv, AckedSameMap, Same, HasGamestate
<1>9. UnqueuedInv'
  <2> SUFFICES ASSUME ~queued
               PROVE  (NumberNoted /\ PrimedInv /\ ActiveInv)'
    BY DEF UnqueuedInv
  <2>1. NumberNoted /\ PrimedInv /\ ActiveInv
    BY DEF IInv, UnqueuedInv
  <2>2. NumberNoted'
    BY <1>4, <2>1 DEF NumberNoted, Same, Gamestate, HasGamestate
  <2>3. ActiveInv'
    BY <1>3, <2>1 DEF ActiveInv, Same
  <2>4. PrimedInv'
    <3> SUFFICES ASSUME cl.state = "primed"
                 PROVE  PrimedInv'
      BY DEF PrimedInv, Same
    <3>1. /\ cl'.gamestateMessageNum = cl.gamestateMessageNum
          /\ cl'.csUpdated = cl.csUpdated /\ cl'.state = "primed"
      BY DEF Same
    <3>2. ClientLoaded' = ClientLoaded
      BY <1>3, <3>1 DEF ClientLoaded, Loaded
    <3>3. \A n : Counts(n)' => Counts(n)
      BY <3>1 DEF Counts
    <3>4. \A n \in Coming' : Gamestate(n)' /\ n.serverId = sv'.serverId /\ Counts(n.sequence)'
                             => Loaded(LastIn(n), n.cs)'
      BY <1>3, <1>4, <2>1, <3>1, <3>3 DEF PrimedInv, Loaded, LastIn, Gamestate, Counts
    <3>5. cg'.serverId = sv'.serverId /\ Counts(cg.serverMessageSequence)' => ClientLoaded'
      BY <2>1, <3>1, <3>2 DEF PrimedInv, Counts
    <3>6. \A j \in 1 .. Len(toServer') :
              /\ toServer'[j].serverId = sv'.serverId
              /\ toServer'[j].messageAcknowledge = cl'.gamestateMessageNum
              => ClientLoaded'
      BY <2>1, <3>1, <3>2 DEF PrimedInv, Received
    <3>7. cl'.gamestateAck = "acked" => ClientLoaded'
      BY <2>1, <3>2 DEF PrimedInv, HasGamestate
    <3> QED
      BY <3>4, <3>5, <3>6, <3>7 DEF PrimedInv, Gamestate
  <2> QED
    BY <2>2, <2>3, <2>4
<1> QED
  BY <1>2, <1>4, <1>5, <1>6, <1>7, <1>8, <1>9 DEF IInv

(***************************************************************************)
(* A client enters the world: the changes of the configstrings since its   *)
(* gamestate, if any, follow as a command.                                 *)
(***************************************************************************)
LEMMA EnterInv ==
  ASSUME IInv, Received, UNCHANGED <<sv, chan, toClient, cg, queued>>,
         cl.state = "primed", HasGamestate,
         NEW e, Same(e, cl), e.reliableAcknowledge <= cg.serverCommandSequence,
         cl' = SV_ClientEnterWorld(e)
  PROVE  IInv'
<1>1. TypeOK /\ e \in SlotType /\ sv.cs \in Nat
  BY Numbers DEF IInv, Same
<1>2. /\ cl' \in SlotType /\ cl'.state = "active" /\ cl'.gamestateAck = "acked"
      /\ cl'.gamestateMessageNum = cl.gamestateMessageNum
      /\ cl'.reliableAcknowledge = e.reliableAcknowledge
      /\ \A n \in MessageType : Repeats(n) => Repeats(n)'
      /\ cl.csUpdated => Issued' = Issued + 1 /\ cl'.reliableCommands[Issued'] = sv.cs
      /\ ~cl.csUpdated => Issued' = Issued
  <2>1. CASE e.csUpdated
    <3>1. PICK longer : longer = Append(cl.reliableCommands, sv.cs)
      OBVIOUS
    <3>2. cl' = [e EXCEPT !.state = "active", !.gamestateAck = "acked", !.csUpdated = FALSE,
                          !.reliableCommands = longer]
      BY <1>1, <2>1, <3>1 DEF SV_ClientEnterWorld, Same, SlotType
    <3>3. cl'.reliableCommands = Append(cl.reliableCommands, sv.cs)
      BY <1>1, <3>1, <3>2 DEF SlotType
    <3>4. /\ longer \in Seq(Nat)
          /\ Issued' = Issued + 1 /\ cl'.reliableCommands[Issued + 1] = sv.cs
          /\ \A n \in MessageType : Repeats(n) => Repeats(n)'
      BY <1>1, <3>1, <3>3, RepeatsStill
    <3>5. cl' \in SlotType
      BY <1>1, <3>2, <3>4 DEF SlotType
    <3> QED
      BY <1>1, <2>1, <3>2, <3>4, <3>5 DEF SlotType, Same
  <2>2. CASE ~e.csUpdated
    <3>1. cl' = [e EXCEPT !.state = "active", !.gamestateAck = "acked", !.csUpdated = FALSE]
      BY <1>1, <2>2 DEF SV_ClientEnterWorld, SlotType
    <3>2. cl'.reliableCommands = cl.reliableCommands
      BY <1>1, <3>1 DEF SlotType, Same
    <3>3. Issued' = Issued
      BY <3>2 DEF Issued
    <3>4. \A n \in MessageType : Repeats(n) => Repeats(n)'
      BY <3>2, <3>3 DEF Repeats, LastIn
    <3> QED
      BY <1>1, <2>2, <3>1, <3>3, <3>4 DEF SlotType, Same
  <2> QED
    BY <1>1, <2>1, <2>2 DEF SlotType
<1>3. Issued \in Nat /\ Issued' \in Nat /\ Issued <= Issued'
      /\ cg.serverCommandSequence \in Nat /\ cg.serverCommandSequence <= Issued
      /\ cl.csUpdated \in BOOLEAN
  <2>1. cl.csUpdated \in BOOLEAN
    BY <1>1, TypeParts DEF SlotType
  <2>2. Issued \in Nat /\ cg.serverCommandSequence \in Nat
        /\ cg.serverCommandSequence <= Issued
    BY <1>1, Numbers DEF IInv, CommandInv
  <2>3. Issued' = Issued \/ Issued' = Issued + 1
    BY <1>2, <2>1
  <2> QED
    BY <2>1, <2>2, <2>3
<1>4. TypeOK'
  BY <1>1, <1>2, TypeParts DEF Received,
     TypeOK, ServerType, SlotType, ChanType, ReplyType, ClientType, MessageType
<1>5. MapInv' /\ Numbered' /\ Coming' = Coming
  BY ReceivedKeeps
<1>6. NumberInv'
  BY <1>2, <1>5, ReceivedKeeps DEF IInv, NumberInv
<1>7. CommandInv'
  <2>1. cg.serverCommandSequence <= Issued'
    BY <1>3
  <2>2. \A n \in Coming : Repeats(n)'
    BY <1>1, <1>2, Numbers DEF IInv, CommandInv
  <2>3. cl'.reliableAcknowledge <= cg.serverCommandSequence
    BY <1>2
  <2>4. \A n \in Coming : /\ n.first - 1 <= cg.serverCommandSequence
                          /\ cg.serverCommandSequence <= LastIn(n)
    BY DEF IInv, CommandInv
  <2> QED
    BY <1>5, <2>1, <2>2, <2>3, <2>4, ReceivedKeeps DEF CommandInv, LastIn
<1>8. StateInv' /\ AckedSameMap'
  BY <1>2 DEF StateInv, AckedSameMap, HasGamestate
<1>9. UnqueuedInv'
  <2> SUFFICES ASSUME ~queued
               PROVE  (NumberNoted /\ PrimedInv /\ ActiveInv)'
    BY DEF UnqueuedInv
  <2>1. NumberNoted /\ ClientLoaded /\ cl.gamestateMessageNum <= cg.serverMessageSequence
    BY DEF IInv, UnqueuedInv, HasGamestate
  <2>2. NumberNoted'
    BY <1>2, <1>5, <2>1 DEF NumberNoted, Gamestate
  <2>3. PrimedInv'
    BY <1>2 DEF PrimedInv
  <2>4. ActiveInv'
    <3>1. CASE cl.csUpdated
      <4>1. cg.serverCommandSequence # Issued'
        BY <1>2, <1>3, <3>1
      <4> QED
        BY <1>2, <3>1, <4>1 DEF ActiveInv
    <3>2. CASE ~cl.csUpdated
      <4>1. cg.serverCommandSequence = Issued' /\ cg.cs = sv.cs
        BY <1>2, <2>1, <3>2 DEF ClientLoaded, Loaded
      <4> QED
        BY <4>1 DEF ActiveInv
    <3> QED
      BY <1>3, <3>1, <3>2
  <2> QED
    BY <2>2, <2>3, <2>4
<1> QED
  BY <1>4, <1>5, <1>6, <1>7, <1>8, <1>9 DEF IInv

(***************************************************************************)
(* The gamestate is sent, for the first time or again.                     *)
(***************************************************************************)
LEMMA GamestateInv ==
  ASSUME IInv, Received, UNCHANGED <<sv, cg>>, cl.gamestateAck # "acked",
         NEW s, Same(s, cl), s.gamestateAck = cl.gamestateAck,
         s.reliableAcknowledge <= cg.serverCommandSequence,
         NEW size \in Sizes, SV_SendClientGameState(s, size)
  PROVE  IInv'
<1>1. /\ TypeOK /\ toClient \in Seq(MessageType) /\ chan \in ChanType /\ s \in SlotType
      /\ Numbered /\ InOrder(toClient, chan.sending, chan.queue)
      /\ cl.state # "active"
  BY TypeParts DEF IInv, MapInv, NumberInv, StateInv, Same
<1>2. PICK kind \in {"gamestate", "snapshot"} : kind = "gamestate"
  OBVIOUS
<1>3. PICK m : m = Message(kind, size, s)
  OBVIOUS
<1>4. SV_Netchan_Transmit(m) /\ queued' = (queued \/ Busy) /\ cl' = Primed(s)
  BY <1>2, <1>3 DEF SV_SendClientGameState
<1>5. PICK number \in Nat : number = chan.outgoingSequence
  BY <1>1, Numbers
<1>6. /\ Issued \in Nat /\ cg.serverCommandSequence \in Nat
      /\ cg.serverCommandSequence <= Issued /\ s.reliableAcknowledge \in Nat
      /\ sv.serverId \in Nat /\ cg.serverId \in Nat /\ cg.serverId <= sv.serverId
  BY <1>1, Numbers DEF IInv, CommandInv, MapInv, SlotType
<1>7. /\ m \in MessageType /\ m.kind = kind /\ m.serverId = sv.serverId /\ m.cs = sv.cs
      /\ Repeats(m) /\ LastIn(m) = Issued /\ m.first = s.reliableAcknowledge + 1
  <2>1. s.reliableAcknowledge <= Issued
    BY <1>6
  <2> QED
    BY <1>1, <1>3, <2>1, Built DEF Same
<1>8. \A n \in Coming : NoLater(n, m)
  BY <1>7 DEF IInv, MapInv, CommandInv, Repeats, NoLater
<1>9. /\ chan' \in ChanType /\ toClient' \in Seq(MessageType)
      /\ InOrder(toClient, chan.sending, chan.queue)' /\ Numbered'
      /\ chan'.outgoingSequence >= number
      /\ \A n \in Coming' : n \in Coming \/ Like(n, m)
      /\ \A i \in 1 .. Len(toClient') :
            \/ i \in 1 .. Len(toClient) /\ toClient'[i] = toClient[i]
            \/ toClient'[i].sequence = number
      /\ ~Busy => /\ chan'.queue = << >>
                  /\ \A n \in Coming' : n \in Coming \/ n.sequence = number
                  /\ chan'.sending # NoMessage \/ chan'.outgoingSequence > number
  BY <1>1, <1>4, <1>5, <1>7, <1>8, TransmitStep
<1>10. /\ cl' \in SlotType
       /\ cl'.state = "primed" /\ cl'.gamestateMessageNum = number /\ cl'.csUpdated = FALSE
       /\ cl'.reliableAcknowledge = s.reliableAcknowledge
       /\ cl'.reliableCommands = cl.reliableCommands
       /\ cl'.gamestateAck \in {"once", "many"}
       /\ cl'.gamestateAck = "once" =>
             cl.gamestateAck = "init" \/ (cl.state = "primed" /\ ~cl.csUpdated
                                          /\ cl.gamestateAck = "once")
  <2>1. PICK ack : ack = IF \/ s.gamestateAck = "init"
                            \/ (s.gamestateAck = "once" /\ ~s.csUpdated)
                         THEN "once" ELSE "many"
    OBVIOUS
  <2>2. cl' = [s EXCEPT !.state = "primed", !.gamestateMessageNum = number,
                        !.csUpdated = FALSE, !.gamestateAck = ack]
    BY <1>1, <1>4, <1>5, <2>1 DEF Primed, SlotType
  <2>3. ack \in {"once", "many"}
    BY <2>1
  <2>4. ack = "once" => cl.gamestateAck = "init" \/ (cl.state = "primed" /\ ~cl.csUpdated
                                                     /\ cl.gamestateAck = "once")
    <3>1. cl.gamestateAck = "once" => cl.state = "primed"
      BY <1>1, TypeParts DEF IInv, StateInv, SlotType
    <3> QED
      BY <2>1, <3>1 DEF Same
  <2> QED
    BY <1>1, <2>2, <2>3, <2>4 DEF SlotType, Same
<1>11. Issued' = Issued
  BY <1>10 DEF Issued
<1>12. TypeOK'
  <2>1. queued' \in BOOLEAN
    BY <1>4
  <2> QED
    BY <1>1, <1>9, <1>10, <2>1, TypeParts DEF Received,
       TypeOK, ServerType, SlotType, ChanType, ReplyType, ClientType, MessageType
<1>13. \A n \in Coming' : /\ cg.serverId <= n.serverId /\ n.serverId <= sv.serverId
                          /\ Repeats(n)
                          /\ n.first - 1 <= cg.serverCommandSequence
                          /\ cg.serverCommandSequence <= LastIn(n)
  <2> SUFFICES ASSUME NEW n \in Coming'
               PROVE  /\ cg.serverId <= n.serverId /\ n.serverId <= sv.serverId
                      /\ Repeats(n)
                      /\ n.first - 1 <= cg.serverCommandSequence
                      /\ cg.serverCommandSequence <= LastIn(n)
    OBVIOUS
  <2>1. CASE n \in Coming
    BY <2>1 DEF IInv, MapInv, CommandInv
  <2>2. CASE Like(n, m)
    <3>1. /\ n.serverId = sv.serverId /\ LastIn(n) = Issued /\ Repeats(n)
          /\ n.first = s.reliableAcknowledge + 1
      BY <1>7, <2>2, LikeKeeps
    <3>2. n.first - 1 = s.reliableAcknowledge
      BY <1>6, <3>1
    <3> QED
      BY <1>6, <3>1, <3>2
  <2> QED
    BY <1>9, <2>1, <2>2
<1>14. \A j \in 1 .. Len(toServer') :
          /\ toServer'[j].serverId <= cg.serverId
          /\ toServer'[j].messageAcknowledge \in Nat
          /\ toServer'[j].messageAcknowledge <= cg.serverMessageSequence
          /\ toServer'[j].reliableAcknowledge <= cg.serverCommandSequence
  BY <1>1, Numbers DEF Received, IInv, MapInv, NumberInv, CommandInv
<1>15. MapInv'
  BY <1>9, <1>13, <1>14 DEF IInv, MapInv
<1>16. cg.serverMessageSequence \in Nat /\ cg.serverMessageSequence < number
  BY <1>1, <1>5, Numbers DEF IInv, NumberInv
<1>17. NumberInv'
  <2>1. chan'.outgoingSequence \in Nat
    BY <1>9 DEF ChanType
  <2>2. number <= chan'.outgoingSequence /\ cg.serverMessageSequence < chan'.outgoingSequence
    BY <1>5, <1>9, <1>16, <2>1
  <2>3. \A i \in 1 .. Len(toClient') : cg.serverMessageSequence < toClient'[i].sequence
    BY <1>9, <1>16 DEF IInv, NumberInv
  <2> QED
    BY <1>9, <1>10, <1>14, <2>2, <2>3 DEF NumberInv
<1>18. CommandInv'
  <2>1. \A n \in Coming' : Repeats(n)'
    BY <1>10, <1>11, <1>13 DEF Repeats, LastIn
  <2> QED
    BY <1>6, <1>10, <1>11, <1>13, <1>14, <2>1 DEF CommandInv, LastIn
<1>19. StateInv' /\ AckedSameMap'
  BY <1>10 DEF StateInv, AckedSameMap
<1>20. UnqueuedInv'
  <2> SUFFICES ASSUME ~queued'
               PROVE  (NumberNoted /\ PrimedInv /\ ActiveInv)'
    BY DEF UnqueuedInv
  <2>1. ~queued /\ ~Busy
    BY <1>4
  <2>2. NumberNoted /\ PrimedInv
    BY <2>1 DEF IInv, UnqueuedInv
  \* Nothing is under way but what is in flight, with lower numbers.
  <2>3. \A n \in Coming : n.sequence \in Nat /\ n.sequence < number
    <3>1. chan.sending = NoMessage /\ chan.queue = << >>
      BY <2>1 DEF Busy
    <3>2. Len(chan.queue) = 0
      BY <3>1
    <3>3. \A n \in Coming : \E i \in 1 .. Len(toClient) : n = toClient[i]
      BY <3>1, <3>2 DEF Coming
    <3> QED
      BY <1>1, <1>5, <3>3, Numbers DEF Numbered
  <2>4. \A n \in Coming' : n \in Coming \/ (n.sequence = number /\ Gamestate(n))
    BY <1>2, <1>7, <1>9, <2>1, <2>3, LikeKeeps DEF Gamestate
  <2>5. NumberNoted'
    <3>1. \A n \in Coming' : /\ Gamestate(n) => n.sequence <= number
                             /\ n.sequence = number => Gamestate(n)
      <4> SUFFICES ASSUME NEW n \in Coming'
                   PROVE  /\ Gamestate(n) => n.sequence <= number
                          /\ n.sequence = number => Gamestate(n)
        OBVIOUS
      <4>1. CASE n \in Coming
        <5>1. n.sequence \in Nat /\ n.sequence < number
          BY <2>3, <4>1
        <5> QED
          BY <1>5, <5>1
      <4>2. CASE n.sequence = number /\ Gamestate(n)
        BY <1>5, <4>2
      <4> QED
        BY <2>4, <4>1, <4>2
    <3>2. chan'.queue = << >> /\ (chan'.sending = NoMessage => number < chan'.outgoingSequence)
      BY <1>5, <1>9, <2>1 DEF ChanType
    <3> QED
      BY <1>10, <3>1, <3>2 DEF NumberNoted, Gamestate
  <2>6. cl'.gamestateAck = "once" /\ cl.gamestateAck # "init" =>
           cl.state = "primed" /\ ~cl.csUpdated /\ \A n : Counts(n)
    BY <1>10 DEF Counts
  <2>7. \A n \in Coming' : /\ Gamestate(n) /\ n.serverId = sv.serverId
                           /\ n.sequence = number \/ cl'.gamestateAck = "once"
                           => LastIn(n) = Issued /\ n.cs = sv.cs
    <3> SUFFICES ASSUME NEW n \in Coming', Gamestate(n), n.serverId = sv.serverId,
                        n.sequence = number \/ cl'.gamestateAck = "once"
                 PROVE  LastIn(n) = Issued /\ n.cs = sv.cs
      OBVIOUS
    <3>1. CASE Like(n, m)
      BY <1>7, <3>1, LikeKeeps DEF Like
    <3>2. CASE n \in Coming
      <4>1. n.sequence \in Nat /\ n.sequence < number
        BY <2>3, <3>2
      <4>2. n.sequence # number
        BY <1>5, <4>1
      <4>3. cl.gamestateAck # "init"
        <5>1. n.serverId \in Nat
          BY <1>1, <3>2, Numbers
        <5> QED
          BY <3>2, <5>1 DEF IInv, StateInv, Gamestate
      <4> QED
        BY <2>2, <2>6, <3>2, <4>2, <4>3 DEF PrimedInv, Loaded
    <3> QED
      BY <1>9, <3>1, <3>2
  <2>8. cg.serverId = sv.serverId /\ cl'.gamestateAck = "once"
        => cg.serverCommandSequence = Issued /\ cg.cs = sv.cs
    <3>1. cl.gamestateAck = "init" => cg.serverId # sv.serverId
      BY <1>6 DEF IInv, StateInv
    <3> QED
      BY <2>2, <2>6, <3>1 DEF PrimedInv, ClientLoaded, Loaded
  <2>9. PrimedInv'
    <3>1. \A n \in Coming' : Gamestate(n)' /\ n.serverId = sv'.serverId /\ Counts(n.sequence)'
                             => Loaded(LastIn(n), n.cs)'
      BY <1>10, <1>11, <2>7 DEF Counts, Loaded, LastIn, Gamestate
    <3>2. cg'.serverId = sv'.serverId /\ Counts(cg.serverMessageSequence)' => ClientLoaded'
      BY <1>5, <1>10, <1>11, <1>16, <2>8 DEF Counts, ClientLoaded, Loaded
    <3>3. \A j \in 1 .. Len(toServer') : toServer'[j].messageAcknowledge # number
      BY <1>5, <1>14, <1>16
    <3> QED
      BY <1>10, <3>1, <3>2, <3>3 DEF PrimedInv, Gamestate
  <2>10. ActiveInv'
    BY <1>10 DEF ActiveInv
  <2> QED
    BY <2>5, <2>9, <2>10
<1> QED
  BY <1>12, <1>15, <1>17, <1>18, <1>19, <1>20 DEF IInv
-----------------------------------------------------------------------------
(***************************************************************************)
(* An acknowledgement that counts comes from a client that has the         *)
(* gamestate: its number is the one noted, or, when every gamestate sent   *)
(* was the same, a later one.                                              *)
(***************************************************************************)
LEMMA AckCounts ==
  ASSUME IInv, NEW i \in 1 .. Len(toServer), NEW m, m = toServer[i],
         cl.state = "primed", m.serverId = sv.serverId,
         NEW delta, delta = m.messageAcknowledge - cl.gamestateMessageNum,
         delta = 0 \/ (delta > 0 /\ cl.gamestateAck = "once")
  PROVE  HasGamestate
<1>1. /\ m.serverId \in Nat /\ m.messageAcknowledge \in Nat
      /\ cg.serverId \in Nat /\ cg.serverMessageSequence \in Nat
      /\ cl.gamestateMessageNum \in Int
      /\ m.serverId <= cg.serverId /\ cg.serverId <= sv.serverId
      /\ m.messageAcknowledge <= cg.serverMessageSequence
  BY Numbers DEF IInv, MapInv, NumberInv
<1>2. cg.serverId = sv.serverId
  BY <1>1
<1>3. cl.gamestateMessageNum <= cg.serverMessageSequence
  BY <1>1
<1>4. ASSUME ~queued
      PROVE  ClientLoaded
  <2>1. PrimedInv
    BY <1>4 DEF IInv, UnqueuedInv
  <2>2. CASE delta = 0
    <3>1. m.messageAcknowledge = cl.gamestateMessageNum
      BY <1>1, <2>2
    <3> QED
      BY <2>1, <3>1 DEF PrimedInv
  <2>3. CASE cl.gamestateAck = "once"
    BY <1>2, <2>1, <2>3 DEF PrimedInv, Counts
  <2> QED
    BY <2>2, <2>3
<1> QED
  BY <1>2, <1>3, <1>4 DEF HasGamestate

(***************************************************************************)
(* A message of the client is executed.                                    *)
(***************************************************************************)
LEMMA ExecuteInv ==
  ASSUME IInv, NEW i \in 1 .. Len(toServer), NEW limited \in BOOLEAN, NEW size \in Sizes,
         SV_ExecuteClientMessage(i, limited, size)
  PROVE  IInv'
<1>1. PICK m : m = toServer[i]
  OBVIOUS
<1>2. PICK s : s = [cl EXCEPT !.reliableAcknowledge = m.reliableAcknowledge]
  OBVIOUS
<1>3. PICK e : e = EarlyCheck(s, m)
  OBVIOUS
<1>4. /\ toServer' = SubSeq(toServer, i + 1, Len(toServer))
      /\ UNCHANGED <<sv, cg>>
      /\ \/ cl' = cl /\ UNCHANGED <<chan, toClient, queued>>
         \/ /\ cl.state = "connected"
            /\ \/ cl' = s /\ UNCHANGED <<chan, toClient, queued>>
               \/ SV_SendClientGameState(s, size)
         \/ /\ cl.state # "connected" /\ e.gamestateAck # "acked"
            /\ \/ cl' = e /\ UNCHANGED <<chan, toClient, queued>>
               \/ SV_SendClientGameState(e, size)
         \/ /\ cl.state # "connected" /\ e.gamestateAck = "acked"
            /\ \/ cl' = e
               \/ e.state = "primed" /\ cl' = SV_ClientEnterWorld(e)
            /\ UNCHANGED <<chan, toClient, queued>>
  BY <1>1, <1>2, <1>3 DEF SV_ExecuteClientMessage
<1>5. TypeOK /\ cl \in SlotType /\ toServer \in Seq(ReplyType)
  BY TypeParts DEF IInv
<1>6. Received
  <2>1. /\ toServer' \in Seq(ReplyType)
        /\ \A j \in 1 .. Len(toServer') : i + j \in 1 .. Len(toServer)
                                          /\ toServer'[j] = toServer[i + j]
    BY <1>4, <1>5, Suffix
  <2> QED
    BY <2>1 DEF Received
<1>7. m.reliableAcknowledge \in Nat /\ m.reliableAcknowledge <= cg.serverCommandSequence
  BY <1>1, <1>5, Numbers DEF IInv, CommandInv
<1>8. /\ Same(s, cl) /\ s.gamestateAck = cl.gamestateAck
      /\ s.reliableAcknowledge = m.reliableAcknowledge
  BY <1>2, <1>5, <1>7 DEF Same, SlotType
<1>9. /\ Same(e, cl) /\ e.reliableAcknowledge = m.reliableAcknowledge
      /\ e.gamestateAck # "acked" => e = s
      /\ \/ e.gamestateAck = cl.gamestateAck
         \/ /\ e.gamestateAck = "acked" /\ cl.gamestateAck # "acked"
            /\ m.serverId = sv.serverId
            /\ LET delta == m.messageAcknowledge - cl.gamestateMessageNum
               IN  delta = 0 \/ (delta > 0 /\ cl.gamestateAck = "once")
  <2>1. CASE e = s
    BY <1>8, <2>1
  <2>2. CASE e # s
    <3>1. /\ e = [s EXCEPT !.gamestateAck = "acked"]
          /\ s.gamestateAck # "acked" /\ m.serverId = sv.serverId
          /\ LET delta == m.messageAcknowledge - s.gamestateMessageNum
             IN  delta = 0 \/ (delta > 0 /\ s.gamestateAck = "once")
      BY <1>3, <2>2 DEF EarlyCheck
    <3> QED
      BY <1>8, <3>1 DEF Same, SlotType
  <2> QED
    BY <2>1, <2>2
<1>10. CASE cl' = cl /\ UNCHANGED <<chan, toClient, queued>>
  <2>1. Same(cl, cl) /\ cl.reliableAcknowledge <= cg.serverCommandSequence
    BY <1>5 DEF Same, IInv, CommandInv
  <2> QED
    BY <1>4, <1>6, <1>10, <2>1, AckInv
<1>11. CASE cl.state = "connected" /\ cl' = s /\ UNCHANGED <<chan, toClient, queued>>
  BY <1>4, <1>6, <1>7, <1>8, <1>11, AckInv
<1>12. CASE cl.state = "connected" /\ SV_SendClientGameState(s, size)
  <2>1. cl.gamestateAck # "acked"
    BY <1>12 DEF IInv, StateInv
  <2> QED
    BY <1>4, <1>6, <1>7, <1>8, <1>12, <2>1, GamestateInv
<1>13. CASE /\ cl.state # "connected" /\ e.gamestateAck # "acked"
            /\ cl' = e /\ UNCHANGED <<chan, toClient, queued>>
  BY <1>4, <1>6, <1>7, <1>8, <1>9, <1>13, AckInv
<1>14. CASE /\ cl.state # "connected" /\ e.gamestateAck # "acked"
            /\ SV_SendClientGameState(e, size)
  BY <1>4, <1>6, <1>7, <1>8, <1>9, <1>14, GamestateInv
<1>15. ASSUME cl.state # "connected", e.gamestateAck = "acked"
       PROVE  \/ cl.gamestateAck = "acked"
              \/ cl.state = "primed" /\ HasGamestate
  <2>1. CASE e.gamestateAck = cl.gamestateAck
    BY <1>15, <2>1
  <2>2. CASE /\ e.gamestateAck = "acked" /\ cl.gamestateAck # "acked"
             /\ m.serverId = sv.serverId
             /\ LET delta == m.messageAcknowledge - cl.gamestateMessageNum
                IN  delta = 0 \/ (delta > 0 /\ cl.gamestateAck = "once")
    <3>1. cl.state = "primed"
      BY <1>5, <1>15, <2>2 DEF IInv, StateInv, SlotType
    <3> QED
      BY <1>1, <2>2, <3>1, AckCounts
  <2> QED
    BY <1>9, <2>1, <2>2
<1>16. CASE /\ cl.state # "connected" /\ e.gamestateAck = "acked" /\ cl' = e
            /\ UNCHANGED <<chan, toClient, queued>>
  BY <1>4, <1>6, <1>7, <1>9, <1>15, <1>16, AckInv
<1>17. CASE /\ cl.state # "connected" /\ e.gamestateAck = "acked" /\ e.state = "primed"
            /\ cl' = SV_ClientEnterWorld(e)
            /\ UNCHANGED <<chan, toClient, queued>>
  <2>1. cl.state = "primed"
    BY <1>9, <1>17 DEF Same
  <2>2. HasGamestate
    <3>1. CASE cl.gamestateAck = "acked"
      BY <2>1, <3>1
         DEF HasGamestate, IInv, AckedSameMap, UnqueuedInv, PrimedInv, NumberNoted
    <3> QED
      BY <1>15, <1>17, <3>1
  <2> QED
    BY <1>4, <1>6, <1>7, <1>9, <1>17, <2>1, <2>2, EnterInv
<1> QED
  BY <1>4, <1>10, <1>11, <1>12, <1>13, <1>14, <1>16, <1>17
-----------------------------------------------------------------------------
(***************************************************************************)
(* Every step preserves the inductive invariant.                           *)
(***************************************************************************)
LEMMA StepInv == IInv /\ [Next]_vars => IInv'
<1> SUFFICES ASSUME IInv, [Next]_vars
             PROVE  IInv'
  OBVIOUS
<1>1. CASE UNCHANGED vars
  <2>1. Received /\ Same(cl', cl) /\ cl'.reliableAcknowledge <= cg.serverCommandSequence
    BY <1>1, TypeParts DEF vars, Received, Same, IInv, CommandInv
  <2> QED
    BY <1>1, <2>1, AckInv DEF vars
<1>2. CASE Next
  BY <1>2, FragmentInv, SnapshotInv, ConfigstringInv, SpawnInv, ExecuteInv, ParseInv, WriteInv
     DEF Next
<1> QED
  BY <1>1, <1>2

(***************************************************************************)
(* The inductive invariant holds in every reachable state.                 *)
(***************************************************************************)
THEOREM Inductive == Spec => []IInv
<1>1. Init => IInv
  BY InitInv
<1>2. IInv /\ [Next]_vars => IInv'
  BY StepInv
<1> QED
  BY <1>1, <1>2, PTL DEF Spec

(***************************************************************************)
(* Type correctness.                                                       *)
(***************************************************************************)
THEOREM TypeCorrect == Spec => []TypeOK
<1>1. IInv => TypeOK
  BY DEF IInv
<1> QED
  BY <1>1, Inductive, PTL

(***************************************************************************)
(* The server never takes a gamestate for acknowledged, or lets a client   *)
(* into the world, before the client has loaded the current map, through   *)
(* any number of maps, repetitions and losses.                             *)
(***************************************************************************)
THEOREM AcknowledgedMap == Spec => []AckedSameMap
<1>1. IInv => AckedSameMap
  BY DEF IInv
<1> QED
  BY <1>1, Inductive, PTL

(***************************************************************************)
(* As long as no gamestate had to wait for the channel, a client in the    *)
(* world that has every command has the server's configstrings.            *)
(***************************************************************************)
THEOREM UpToDate == Spec => []UpToDateUnlessQueued
<1>1. IInv => UpToDateUnlessQueued
  BY DEF IInv, UnqueuedInv, ActiveInv, UpToDateUnlessQueued, ActiveUpToDate, Issued
<1> QED
  BY <1>1, Inductive, PTL
=============================================================================
