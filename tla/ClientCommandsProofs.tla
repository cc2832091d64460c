------------------------ MODULE ClientCommandsProofs ------------------------
(***************************************************************************)
(* Theorems about ClientCommands: commands are received as given and       *)
(* before the moves made later, neither side gives up on the other, and    *)
(* moves survive as many losses as they are repeated.  They hold for every *)
(* size of the ring, number of moves in a message and of repetitions.      *)
(***************************************************************************)
EXTENDS ClientCommands, RingLemmas

(***************************************************************************)
(* The numbers of messages whose moves a message repeats, its own included.*)
(***************************************************************************)
Messages == 1 .. cl_packetdup + 1

Ring == [0 .. MAX_RELIABLE_COMMANDS - 1 -> Command]

ClientType ==
    [state : {"primed", "disconnected"}, reliableSequence : Nat, reliableAcknowledge : Nat,
     reliableCommands : Ring, cmdNumber : Nat, outPackets : [Messages -> Nat]]

ServerType ==
    [state : {"primed", "active", "zombie"}, lastClientCommand : Nat, lastUsercmd : Nat]

MessageType == [first : Nat, commands : Seq(Command), firstMove : Nat, lastMove : Nat]

\* TypeOK says less of the messages: how many commands they hold is in
\* CarriesCommands.
Typed ==
    /\ clc \in ClientType
    /\ cl \in ServerType
    /\ toServer \in Seq(MessageType)
    /\ toClient \in Seq(Nat)
    /\ issued \in Seq(Command) /\ received \in Seq(Command)
    /\ moves \in Seq(Nat) /\ moved \in Seq(Nat)
    /\ missed \in 0 .. cl_packetdup + 1

(***************************************************************************)
(* Every command and every move made are counted; a command that may be    *)
(* sent again is in its place of the ring.                                 *)
(***************************************************************************)
ClientInv ==
    Connected =>
        /\ clc.reliableSequence = Len(issued)
        /\ Len(issued) <= MaxCommands
        /\ Pending(clc) \in 0 .. MAX_RELIABLE_COMMANDS
        /\ \A n \in clc.reliableAcknowledge + 1 .. clc.reliableSequence :
               clc.reliableCommands[SlotOf(n)] = issued[n]
        /\ clc.cmdNumber = Len(moves)

(***************************************************************************)
(* A disconnect is the last command and ends the connection.               *)
(***************************************************************************)
IssuedInv ==
    /\ \A n \in 1 .. Len(issued) :
          issued[n].kind = "disconnect" => n = Len(issued) /\ ~Connected
    /\ ~Connected =>
          /\ issued # << >>
          /\ issued[Len(issued)].kind = "disconnect"
          /\ toClient = << >>

(***************************************************************************)
(* Acknowledgements arrive in order, none after a later one, and none of a *)
(* command not received.                                                   *)
(***************************************************************************)
AckInv ==
    Connected =>
        /\ clc.reliableAcknowledge <= cl.lastClientCommand
        /\ \A i \in 1 .. Len(toClient) :
              toClient[i] \in clc.reliableAcknowledge .. cl.lastClientCommand
        /\ \A i, j \in 1 .. Len(toClient) : i <= j => toClient[i] <= toClient[j]

(***************************************************************************)
(* What was received so far is what was given first.                       *)
(***************************************************************************)
ReceivedInv ==
    /\ Len(received) = cl.lastClientCommand
    /\ InGame =>
          /\ Len(received) <= Len(issued)
          /\ \A n \in 1 .. Len(received) :
                received[n] = issued[n] /\ received[n].kind # "disconnect"
    /\ Connected => InGame

(***************************************************************************)
(* A message begins at a command that was received or at the next one,     *)
(* and holds what was given; only its first command may be another, the    *)
(* disconnect that found the ring full.                                    *)
(***************************************************************************)
AsGiven(m, k) ==
    \/ m.commands[k] = issued[m.first + k - 1]
    \/ k = 1 /\ ~Connected /\ m.first < Len(issued) /\ m.commands[k] = issued[Len(issued)]

CarriesCommands(m) ==
    /\ m.first \in 1 .. cl.lastClientCommand + 1
    /\ Len(m.commands) <= MAX_RELIABLE_COMMANDS + 1
    /\ \A k \in 1 .. Len(m.commands) : m.first + k - 1 <= Len(issued) /\ AsGiven(m, k)

(***************************************************************************)
(* Every move of a message was made before or at it, and so after no       *)
(* command that comes later.                                               *)
(***************************************************************************)
LastIn(m) == m.first + Len(m.commands) - 1

CarriesMoves(m) ==
    /\ m.firstMove >= 1
    /\ m.lastMove <= Len(moves)
    /\ \A j \in 1 .. m.lastMove : moves[j] <= LastIn(m)

ToServerInv ==
    \A i \in 1 .. Len(toServer) : CarriesCommands(toServer[i]) /\ CarriesMoves(toServer[i])

(***************************************************************************)
(* The server takes moves in order, each once, and notes the last.         *)
(***************************************************************************)
MovesInv ==
    /\ \A j \in 1 .. Len(moves) : moves[j] <= Len(issued)
    /\ \A j \in 1 .. Len(moved) : moved[j] \in 1 .. Len(moves)
    /\ \A i, j \in 1 .. Len(moved) : i < j => moved[i] < moved[j]
    /\ cl.lastUsercmd = IF moved = << >> THEN 0 ELSE moved[Len(moved)]

(***************************************************************************)
(* Why moves are carried over lost messages: a message that is not full    *)
(* goes on where the server is (if no more than cl_packetdup were missed), *)
(* and where each of the cl_packetdup + 1 messages before it ended; and    *)
(* outPackets leads no further than any of these.                          *)
(***************************************************************************)
FullMessage(m) == m.lastMove - m.firstMove + 1 = MAX_PACKET_USERCMDS

Continues(m, last) == FullMessage(m) \/ m.firstMove <= last + 1

ServerReached ==
    \A i \in 1 .. Len(toServer) :
        missed + i <= cl_packetdup + 1 => Continues(toServer[i], cl.lastUsercmd)

MessageReached ==
    \A i, j \in 1 .. Len(toServer) :
        i < j /\ j - i <= cl_packetdup + 1 => Continues(toServer[j], toServer[i].lastMove)

OutPacketsReach ==
    \A k \in Messages :
        /\ clc.outPackets[k] <= clc.cmdNumber
        /\ missed + Len(toServer) + k <= cl_packetdup + 1 =>
               clc.outPackets[k] <= cl.lastUsercmd
        /\ \A i \in 1 .. Len(toServer) :
               Len(toServer) - i + k <= cl_packetdup + 1 =>
                   clc.outPackets[k] <= toServer[i].lastMove

RepeatInv ==
    /\ InGame => ServerReached
    /\ MessageReached
    /\ Connected => OutPacketsReach

(***************************************************************************)
(* Only received commands are ignored, and only those of a client that has *)
(* entered the game, with a move.                                          *)
(***************************************************************************)
IgnoredInv ==
    /\ ignored \subseteq 1 .. Len(received)
    /\ cl.state = "active" => moved # << >>

IInv ==
    /\ Typed
    /\ ClientInv /\ IssuedInv /\ AckInv /\ ReceivedInv
    /\ ToServerInv /\ MovesInv /\ RepeatInv

-----------------------------------------------------------------------------
(***************************************************************************)
(* The constants: a ring of at least one place, and numbers.               *)
(***************************************************************************)
LEMMA Constant ==
  /\ MAX_RELIABLE_COMMANDS \in Nat \ {0} /\ MAX_RELIABLE_COMMANDS >= 1
  /\ MAX_PACKET_USERCMDS \in Nat /\ MAX_PACKET_USERCMDS >= 1
  /\ cl_packetdup \in Nat
  /\ MaxCommands \in Nat
  BY ClientCommandsAssumption

(***************************************************************************)
(* The greater of two numbers.                                             *)
(***************************************************************************)
LEMMA MaxOfTwo ==
  ASSUME NEW a \in Int, NEW b \in Int
  PROVE  /\ Max({a, b}) \in Int
         /\ Max({a, b}) = IF a >= b THEN a ELSE b
<1>1. CASE a >= b
  BY <1>1 DEF Max
<1>2. CASE b > a
  BY <1>2 DEF Max
<1> QED
  BY <1>1, <1>2

(***************************************************************************)
(* A command has its place in the ring, and no other of those that may be  *)
(* sent again has the same.                                                *)
(***************************************************************************)
LEMMA SlotType == ASSUME NEW n \in Int PROVE SlotOf(n) \in 0 .. MAX_RELIABLE_COMMANDS - 1
  BY SlotInRing, Constant DEF SlotOf

(***************************************************************************)
(* The typing that arithmetic needs.                                       *)
(***************************************************************************)
LEMMA Numbers ==
  ASSUME Typed
  PROVE  /\ clc.reliableSequence \in Nat /\ clc.reliableAcknowledge \in Nat
         /\ clc.cmdNumber \in Nat /\ clc.outPackets \in [Messages -> Nat]
         /\ clc.reliableCommands \in Ring
         /\ cl.lastClientCommand \in Nat /\ cl.lastUsercmd \in Nat
         /\ Len(issued) \in Nat /\ Len(received) \in Nat
         /\ Len(moves) \in Nat /\ Len(moved) \in Nat
         /\ Len(toServer) \in Nat /\ Len(toClient) \in Nat
         /\ missed \in Nat
  BY DEF Typed, ClientType, ServerType

(***************************************************************************)
(* The typing of a message in flight.                                      *)
(***************************************************************************)
LEMMA MessageNumbers ==
  ASSUME NEW m \in MessageType
  PROVE  /\ m.first \in Nat /\ m.firstMove \in Nat /\ m.lastMove \in Nat
         /\ m.commands \in Seq(Command) /\ Len(m.commands) \in Nat
  BY DEF MessageType

(***************************************************************************)
(* What a message carries stays true while more commands and moves are     *)
(* made, the server carries out more, and the connection ends.             *)
(***************************************************************************)
Grows(s, t) == Len(s) <= Len(t) /\ \A n \in 1 .. Len(s) : t[n] = s[n]

LEMMA StillCarried ==
  ASSUME Typed, Typed',
         cl.lastClientCommand <= cl'.lastClientCommand,
         Grows(issued, issued'), Grows(moves, moves'),
         ~Connected => UNCHANGED issued /\ ~Connected',
         NEW m \in MessageType, CarriesCommands(m), CarriesMoves(m)
  PROVE  CarriesCommands(m)' /\ CarriesMoves(m)'
<1>1. /\ m.first \in Nat /\ m.firstMove \in Nat /\ m.lastMove \in Nat
      /\ Len(m.commands) \in Nat
  BY MessageNumbers
<1>2. /\ cl.lastClientCommand \in Nat /\ Len(issued) \in Nat /\ Len(moves) \in Nat
      /\ cl'.lastClientCommand \in Nat /\ Len(issued') \in Nat /\ Len(moves') \in Nat
  <2>1. cl' \in ServerType /\ issued' \in Seq(Command) /\ moves' \in Seq(Nat)
    BY DEF Typed
  <2>2. cl'.lastClientCommand \in Nat
    BY <2>1 DEF ServerType
  <2>3. Len(issued') \in Nat /\ Len(moves') \in Nat
    BY <2>1
  <2> QED
    BY <2>2, <2>3, Numbers
<1>3. m.first \in 1 .. cl'.lastClientCommand + 1
  BY <1>1, <1>2 DEF CarriesCommands
<1>4. ASSUME NEW k \in 1 .. Len(m.commands)
      PROVE  m.first + k - 1 <= Len(issued') /\ AsGiven(m, k)'
  <2>1. m.first \in Nat /\ m.first >= 1 /\ k \in Nat /\ k >= 1
    BY <1>1, <1>2 DEF CarriesCommands
  <2>2. m.first + k - 1 <= Len(issued) /\ AsGiven(m, k)
    BY DEF CarriesCommands
  <2>3. m.first + k - 1 \in 1 .. Len(issued)
    BY <2>1, <2>2, <1>2
  <2>4. issued'[m.first + k - 1] = issued[m.first + k - 1]
    BY <2>3 DEF Grows
  <2>5. m.first + k - 1 <= Len(issued')
    BY <2>1, <2>2, <1>2 DEF Grows
  <2> QED
    BY <2>2, <2>4, <2>5 DEF AsGiven
<1>5. CarriesCommands(m)'
  BY <1>3, <1>4 DEF CarriesCommands
<1>6. ASSUME NEW j \in 1 .. m.lastMove
      PROVE  moves'[j] <= LastIn(m)
  <2>1. j \in 1 .. Len(moves)
    BY <1>1, <1>2 DEF CarriesMoves
  <2> QED
    BY <2>1 DEF CarriesMoves, Grows
<1>7. CarriesMoves(m)'
  <2>1. m.firstMove >= 1 /\ m.lastMove <= Len(moves')
    BY <1>1, <1>2 DEF CarriesMoves, Grows
  <2> QED
    BY <1>6, <2>1 DEF CarriesMoves, LastIn
<1> QED
  BY <1>5, <1>7

(***************************************************************************)
(* One more command.                                                       *)
(***************************************************************************)
LEMMA OneMoreCommand ==
  ASSUME NEW S, NEW s \in Seq(S), NEW e \in S
  PROVE  Grows(s, Append(s, e))
  BY Appended DEF Grows

(***************************************************************************)
(* The client adds a command to its ring.                                  *)
(***************************************************************************)
LEMMA AddedType ==
  ASSUME NEW c \in ClientType, NEW command \in Command, NEW d, d = Added(c, command)
  PROVE  /\ d \in ClientType
         /\ d.state = c.state
         /\ d.reliableSequence = c.reliableSequence + 1
         /\ d.reliableAcknowledge = c.reliableAcknowledge
         /\ d.cmdNumber = c.cmdNumber
         /\ d.outPackets = c.outPackets
         /\ d.reliableCommands =
                [c.reliableCommands EXCEPT ![SlotOf(c.reliableSequence + 1)] = command]
<1>1. PICK seq \in Nat : seq = c.reliableSequence
  BY DEF ClientType
<1>2. PICK slot \in 0 .. MAX_RELIABLE_COMMANDS - 1 : slot = SlotOf(c.reliableSequence + 1)
  BY <1>1, SlotType
<1>3. PICK next \in Nat : next = c.reliableSequence + 1
  BY <1>1
<1>4. PICK ring \in Ring : ring = [c.reliableCommands EXCEPT ![slot] = command]
  <2>1. c.reliableCommands \in Ring
    BY DEF ClientType
  <2> QED
    BY <2>1 DEF Ring
<1>5. d = [c EXCEPT !.reliableSequence = next, !.reliableCommands = ring]
  BY <1>2, <1>3, <1>4 DEF Added, ClientType
<1>6. d \in ClientType
  BY <1>5 DEF ClientType
<1> QED
  BY <1>2, <1>3, <1>4, <1>5, <1>6 DEF ClientType

(***************************************************************************)
(* A place of the ring is not taken again while its command may be sent.   *)
(***************************************************************************)
LEMMA RingHolds ==
  ASSUME Typed, ClientInv, Connected, NEW command \in Command,
         NEW d, d = Added(clc, command),
         NEW n \in clc.reliableAcknowledge + 1 .. clc.reliableSequence,
         n > clc.reliableSequence + 1 - MAX_RELIABLE_COMMANDS
  PROVE  d.reliableCommands[SlotOf(n)] = issued[n]
<1>1. PICK seq \in Nat : seq = clc.reliableSequence
  BY Numbers
<1>2. PICK ack \in Nat : ack = clc.reliableAcknowledge
  BY Numbers
<1>3. n \in Int /\ n < seq + 1 /\ seq + 1 - n < MAX_RELIABLE_COMMANDS
  BY <1>1, <1>2, Constant
<1>4. SlotOf(n) # SlotOf(seq + 1)
  BY <1>1, <1>3, Constant, SlotsDiffer DEF SlotOf
<1>5. clc \in ClientType
  BY DEF Typed
<1>6. d.reliableCommands = [clc.reliableCommands EXCEPT ![SlotOf(seq + 1)] = command]
  BY <1>1, <1>5, AddedType
<1>7. SlotOf(n) \in DOMAIN clc.reliableCommands
  BY <1>3, SlotType, Numbers DEF Ring
<1>8. clc.reliableCommands[SlotOf(n)] = issued[n]
  BY DEF ClientInv
<1> QED
  BY <1>4, <1>6, <1>7, <1>8

(***************************************************************************)
(* The commands given, with one more.                                      *)
(***************************************************************************)
LEMMA IssuedMore ==
  ASSUME Typed, NEW command \in Command, issued' = Append(issued, command)
  PROVE  /\ issued' \in Seq(Command) /\ Len(issued') = Len(issued) + 1
         /\ issued'[Len(issued) + 1] = command
         /\ \A n \in 1 .. Len(issued) : issued'[n] = issued[n]
         /\ Grows(issued, issued')
<1>1. issued \in Seq(Command)
  BY DEF Typed
<1> QED
  BY <1>1, Appended DEF Grows

(***************************************************************************)
(* Nothing is lost of what the server received when a command is added.    *)
(***************************************************************************)
LEMMA ReceivedStill ==
  ASSUME Typed, ReceivedInv, Grows(issued, issued'), UNCHANGED <<cl, received>>,
         Len(issued') \in Nat, Connected' => Connected
  PROVE  ReceivedInv'
<1>1. Len(received) \in Nat /\ Len(issued) \in Nat
  BY Numbers
<1>2. ASSUME InGame
      PROVE  /\ Len(received) <= Len(issued')
             /\ \A n \in 1 .. Len(received) :
                   received[n] = issued'[n] /\ received[n].kind # "disconnect"
  BY <1>1, <1>2 DEF ReceivedInv, Grows
<1> QED
  BY <1>2 DEF ReceivedInv, InGame

(***************************************************************************)
(* Nothing of the order of moves depends on the commands but that moves    *)
(* follow commands given.                                                  *)
(***************************************************************************)
LEMMA MovesStill ==
  ASSUME Typed, MovesInv, Len(issued) <= Len(issued'), Len(issued') \in Nat,
         UNCHANGED <<cl, moves, moved>>
  PROVE  MovesInv'
<1>1. \A j \in 1 .. Len(moves) : moves[j] \in Nat
  BY DEF Typed
<1>2. \A j \in 1 .. Len(moves) : moves[j] <= Len(issued')
  BY <1>1, Numbers DEF MovesInv
<1> QED
  BY <1>2 DEF MovesInv

(***************************************************************************)
(* The messages in flight stay what they are while commands are added.     *)
(***************************************************************************)
LEMMA InFlightStill ==
  ASSUME Typed, Typed', ToServerInv, Grows(issued, issued'), UNCHANGED <<cl, moves, toServer>>,
         ~Connected => UNCHANGED issued /\ ~Connected'
  PROVE  ToServerInv'
<1>1. cl.lastClientCommand <= cl'.lastClientCommand
  BY Numbers
<1>2. Grows(moves, moves')
  BY Numbers DEF Grows
<1>3. ASSUME NEW i \in 1 .. Len(toServer)
      PROVE  CarriesCommands(toServer[i])' /\ CarriesMoves(toServer[i])'
  <2>1. PICK m \in MessageType : m = toServer[i]
    BY DEF Typed
  <2>2. CarriesCommands(m) /\ CarriesMoves(m)
    BY <2>1 DEF ToServerInv
  <2>3. CarriesCommands(m)' /\ CarriesMoves(m)'
    BY <1>1, <1>2, <2>2, StillCarried
  <2> QED
    BY <2>1, <2>3 DEF CarriesCommands, CarriesMoves, AsGiven, LastIn
<1> QED
  BY <1>3 DEF ToServerInv

(***************************************************************************)
(* The client gives a command.                                             *)
(***************************************************************************)
LEMMA AddKeeps == ASSUME IInv, CL_AddReliableCommand PROVE IInv'
<1>1. Typed /\ clc \in ClientType /\ Connected
  BY DEF IInv, Typed, CL_AddReliableCommand
<1>2. PICK seq \in Nat, ack \in Nat :
         seq = clc.reliableSequence /\ ack = clc.reliableAcknowledge
  BY <1>1, Numbers
<1>3. /\ Len(issued) = seq /\ seq <= MaxCommands
      /\ seq - ack \in 0 .. MAX_RELIABLE_COMMANDS
  BY <1>1, <1>2 DEF IInv, ClientInv, Pending
<1>4. seq < MaxCommands /\ seq - ack < MAX_RELIABLE_COMMANDS
  BY <1>2, <1>3, Constant DEF CL_AddReliableCommand, Full, Pending
<1>5. PICK command \in Command :
         /\ command.kind # "disconnect"
         /\ clc' = Added(clc, command)
         /\ issued' = Append(issued, command)
  <2>1. seq + 1 \in 0 .. MaxCommands + 1
    BY <1>2, <1>4, Constant
  <2>2. [kind |-> IF seq + 1 \in Userinfos THEN "userinfo" ELSE "game", id |-> seq + 1]
           \in Command
    BY <2>1 DEF Command, Kind
  <2> QED
    BY <1>3, <2>2 DEF CL_AddReliableCommand
<1>6. UNCHANGED <<cl, received, moved, missed, toServer, toClient, moves>>
  BY DEF CL_AddReliableCommand, server
<1>7. /\ clc' \in ClientType /\ clc'.state = clc.state
      /\ clc'.reliableSequence = seq + 1 /\ clc'.reliableAcknowledge = ack
      /\ clc'.cmdNumber = clc.cmdNumber /\ clc'.outPackets = clc.outPackets
      /\ clc'.reliableCommands = [clc.reliableCommands EXCEPT ![SlotOf(seq + 1)] = command]
  BY <1>1, <1>2, <1>5, AddedType
<1>8. /\ issued' \in Seq(Command) /\ Len(issued') = seq + 1 /\ issued'[seq + 1] = command
      /\ \A n \in 1 .. Len(issued) : issued'[n] = issued[n]
      /\ Grows(issued, issued')
  BY <1>1, <1>3, <1>5, IssuedMore
<1>9. Typed'
  BY <1>1, <1>6, <1>7, <1>8 DEF Typed
<1>10. Connected'
  BY <1>1, <1>7 DEF Connected
<1>11. ClientInv'
  <2>1. Pending(clc)' \in 0 .. MAX_RELIABLE_COMMANDS
    <3>1. (seq + 1) - ack \in 0 .. MAX_RELIABLE_COMMANDS
      BY <1>3, <1>4, Constant
    <3> QED
      BY <1>7, <3>1 DEF Pending
  <2>2. ASSUME NEW n \in ack + 1 .. seq + 1
        PROVE  clc'.reliableCommands[SlotOf(n)] = issued'[n]
    <3>1. CASE n = seq + 1
      <4>1. SlotOf(seq + 1) \in 0 .. MAX_RELIABLE_COMMANDS - 1
        BY <1>2, SlotType
      <4>2. DOMAIN clc.reliableCommands = 0 .. MAX_RELIABLE_COMMANDS - 1
        BY <1>1, Numbers DEF Ring
      <4> QED
        BY <1>7, <1>8, <3>1, <4>1, <4>2
    <3>2. CASE n # seq + 1
      <4>1. n \in ack + 1 .. seq /\ n \in 1 .. Len(issued)
        BY <1>2, <1>3, <3>2
      <4>2. n > seq + 1 - MAX_RELIABLE_COMMANDS
        BY <1>2, <1>4, Constant
      <4>3. clc'.reliableCommands[SlotOf(n)] = issued[n]
        BY <1>1, <1>2, <1>5, <4>1, <4>2, RingHolds DEF IInv
      <4> QED
        BY <1>8, <4>1, <4>3
    <3> QED
      BY <3>1, <3>2
  <2>3. seq + 1 <= MaxCommands
    BY <1>2, <1>4, Constant
  <2>4. clc'.cmdNumber = Len(moves')
    BY <1>1, <1>6, <1>7 DEF IInv, ClientInv
  <2> QED
    BY <1>7, <1>8, <2>1, <2>2, <2>3, <2>4 DEF ClientInv
<1>12. IssuedInv'
  <2>1. ASSUME NEW n \in 1 .. seq + 1
        PROVE  issued'[n].kind # "disconnect"
    <3>1. CASE n = seq + 1
      BY <1>5, <1>8, <3>1
    <3>2. CASE n # seq + 1
      <4>1. n \in 1 .. Len(issued)
        BY <1>2, <1>3, <3>2
      <4> QED
        BY <1>1, <1>8, <4>1 DEF IInv, IssuedInv
    <3> QED
      BY <3>1, <3>2
  <2> QED
    BY <1>8, <1>10, <2>1 DEF IssuedInv
<1>13. AckInv'
  BY <1>1, <1>2, <1>6, <1>7 DEF IInv, AckInv
<1>14. ReceivedInv'
  BY <1>1, <1>2, <1>6, <1>8, ReceivedStill DEF IInv
<1>15. MovesInv'
  BY <1>1, <1>2, <1>3, <1>6, <1>8, MovesStill DEF IInv
<1>16. ToServerInv'
  BY <1>1, <1>6, <1>8, <1>9, InFlightStill DEF IInv
<1>17. RepeatInv'
  BY <1>1, <1>6, <1>7
     DEF IInv, RepeatInv, ServerReached, MessageReached, OutPacketsReach, InGame
<1> QED
  BY <1>9, <1>11, <1>12, <1>13, <1>14, <1>15, <1>16, <1>17 DEF IInv

(***************************************************************************)
(* The client makes a move.                                                *)
(***************************************************************************)
LEMMA MoveKeeps == ASSUME IInv, CL_CreateNewCommands PROVE IInv'
<1>1. Typed /\ clc \in ClientType /\ Connected
  BY DEF IInv, Typed, CL_CreateNewCommands
<1>2. PICK cmd \in Nat, given \in Nat : cmd = clc.cmdNumber + 1 /\ given = Len(issued)
  <2>1. clc.cmdNumber + 1 \in Nat /\ Len(issued) \in Nat
    BY <1>1, Numbers
  <2> QED
    BY <2>1
<1>3. /\ clc' = [clc EXCEPT !.cmdNumber = cmd]
      /\ moves' = Append(moves, given)
      /\ UNCHANGED <<cl, received, moved, missed, toServer, toClient, issued>>
  BY <1>2 DEF CL_CreateNewCommands, server
<1>4. /\ clc' \in ClientType /\ clc'.state = clc.state
      /\ clc'.reliableSequence = clc.reliableSequence
      /\ clc'.reliableAcknowledge = clc.reliableAcknowledge
      /\ clc'.cmdNumber = cmd /\ clc'.outPackets = clc.outPackets
      /\ clc'.reliableCommands = clc.reliableCommands
  BY <1>1, <1>2, <1>3 DEF ClientType
<1>5. /\ moves' \in Seq(Nat) /\ Len(moves') = Len(moves) + 1 /\ moves'[Len(moves) + 1] = given
      /\ \A n \in 1 .. Len(moves) : moves'[n] = moves[n]
      /\ Grows(moves, moves')
  <2>1. moves \in Seq(Nat)
    BY <1>1 DEF Typed
  <2> QED
    BY <1>3, <2>1, Appended DEF Grows
<1>6. Typed'
  BY <1>1, <1>3, <1>4, <1>5 DEF Typed
<1>7. Connected' /\ Connected
  BY <1>1, <1>4 DEF Connected
<1>8. ClientInv'
  <2>1. /\ clc'.reliableSequence = Len(issued') /\ Len(issued') <= MaxCommands
        /\ Pending(clc)' \in 0 .. MAX_RELIABLE_COMMANDS
    BY <1>1, <1>3, <1>4 DEF IInv, ClientInv, Pending
  <2>2. \A n \in clc.reliableAcknowledge + 1 .. clc.reliableSequence :
            clc'.reliableCommands[SlotOf(n)] = issued'[n]
    BY <1>1, <1>3, <1>4 DEF IInv, ClientInv
  <2>3. clc'.cmdNumber = Len(moves')
    BY <1>1, <1>2, <1>4, <1>5 DEF IInv, ClientInv
  <2> QED
    BY <1>4, <2>1, <2>2, <2>3 DEF ClientInv
<1>9. IssuedInv' /\ AckInv' /\ ReceivedInv'
  BY <1>1, <1>3, <1>4, <1>7 DEF IInv, IssuedInv, AckInv, ReceivedInv, InGame
<1>10. ToServerInv'
  <2>1. cl.lastClientCommand <= cl'.lastClientCommand /\ Grows(issued, issued')
    BY <1>1, <1>3, Numbers DEF Grows
  <2>2. ASSUME NEW i \in 1 .. Len(toServer)
        PROVE  CarriesCommands(toServer[i])' /\ CarriesMoves(toServer[i])'
    <3>1. PICK m \in MessageType : m = toServer[i]
      BY <1>1 DEF Typed
    <3>2. CarriesCommands(m) /\ CarriesMoves(m)
      BY <3>1 DEF IInv, ToServerInv
    <3>3. CarriesCommands(m)' /\ CarriesMoves(m)'
      BY <1>1, <1>5, <1>6, <2>1, <3>2, StillCarried
    <3> QED
      BY <1>3, <3>1, <3>3 DEF CarriesCommands, CarriesMoves, AsGiven, LastIn
  <2> QED
    BY <1>3, <2>2 DEF ToServerInv
<1>11. MovesInv'
  <2>1. Len(moves) \in Nat /\ given \in Nat /\ moved \in Seq(Nat)
    BY <1>1, Numbers DEF Typed
  <2>2. ASSUME NEW j \in 1 .. Len(moves) + 1
        PROVE  moves'[j] <= Len(issued')
    <3>1. CASE j = Len(moves) + 1
      BY <1>2, <1>3, <1>5, <3>1
    <3>2. CASE j # Len(moves) + 1
      <4>1. j \in 1 .. Len(moves)
        BY <2>1, <3>2
      <4> QED
        BY <1>3, <1>5, <4>1 DEF IInv, MovesInv
    <3> QED
      BY <3>1, <3>2
  <2>3. \A j \in 1 .. Len(moved) : moved[j] \in 1 .. Len(moves) + 1
    <3>1. \A j \in 1 .. Len(moved) : moved[j] \in 1 .. Len(moves)
      BY DEF IInv, MovesInv
    <3> QED
      BY <2>1, <3>1
  <2> QED
    BY <1>3, <1>5, <2>2, <2>3 DEF IInv, MovesInv
<1>12. RepeatInv'
  <2>1. (InGame => ServerReached)' /\ MessageReached'
    BY <1>3 DEF IInv, RepeatInv, ServerReached, MessageReached, InGame
  <2>2. OutPacketsReach'
    <3>1. OutPacketsReach
      BY <1>1 DEF IInv, RepeatInv
    <3>2. \A k \in Messages : clc.outPackets[k] <= cmd
      BY <1>1, <1>2, <3>1, Numbers DEF OutPacketsReach
    <3> QED
      BY <1>3, <1>4, <3>1, <3>2 DEF OutPacketsReach
  <2> QED
    BY <2>1, <2>2 DEF RepeatInv
<1> QED
  BY <1>6, <1>8, <1>9, <1>10, <1>11, <1>12 DEF IInv

(***************************************************************************)
(* The message of a client with outPackets and moves as they are: it       *)
(* repeats the commands from the first not acknowledged, and its moves     *)
(* begin behind the oldest of outPackets, or it is full.                   *)
(***************************************************************************)
LEMMA MessageBuilt ==
  ASSUME NEW c \in ClientType, Pending(c) \in 0 .. MAX_RELIABLE_COMMANDS + 1,
         NEW m, m = Message(c)
  PROVE  /\ m \in MessageType
         /\ m.first = c.reliableAcknowledge + 1
         /\ Len(m.commands) = Pending(c)
         /\ \A k \in 1 .. Pending(c) :
                m.commands[k] = c.reliableCommands[SlotOf(c.reliableAcknowledge + k)]
         /\ m.lastMove = c.cmdNumber
         /\ m.firstMove >= 1
         /\ FullMessage(m) \/ m.firstMove = c.outPackets[1] + 1
<1>1. PICK ack \in Nat : ack = c.reliableAcknowledge
  BY DEF ClientType
<1>2. PICK cmd \in Nat : cmd = c.cmdNumber
  BY DEF ClientType
<1>3. PICK out \in Nat : out = c.outPackets[1]
  <2>1. 1 \in Messages
    BY Constant DEF Messages
  <2> QED
    BY <2>1 DEF ClientType
<1>4. PICK first \in Int : first = FirstMove(c)
  BY <1>2, <1>3, Constant, MaxOfTwo DEF FirstMove
<1>5. /\ first \in Nat /\ first >= 1
      /\ first = out + 1 \/ cmd - first + 1 = MAX_PACKET_USERCMDS
  <2>1. first = Max({out + 1, cmd - MAX_PACKET_USERCMDS + 1})
    BY <1>2, <1>3, <1>4 DEF FirstMove
  <2>2. first = IF out + 1 >= cmd - MAX_PACKET_USERCMDS + 1
                THEN out + 1 ELSE cmd - MAX_PACKET_USERCMDS + 1
    BY <2>1, Constant, MaxOfTwo
  <2> QED
    BY <2>2, Constant
<1>6. PICK commands : commands = Unacknowledged(c)
  OBVIOUS
<1>7. PICK pending \in Nat : pending = Pending(c)
  BY Constant
<1>8. /\ commands \in Seq(Command) /\ Len(commands) = pending
      /\ \A k \in 1 .. pending : commands[k] = c.reliableCommands[SlotOf(ack + k)]
  <2>1. commands = [i \in 1 .. pending |-> c.reliableCommands[SlotOf(ack + i)]]
    BY <1>1, <1>6, <1>7 DEF Unacknowledged
  <2>2. \A i \in 1 .. pending : c.reliableCommands[SlotOf(ack + i)] \in Command
    <3> TAKE i \in 1 .. pending
    <3>1. SlotOf(ack + i) \in 0 .. MAX_RELIABLE_COMMANDS - 1
      BY SlotType
    <3>2. c.reliableCommands \in Ring
      BY DEF ClientType
    <3> QED
      BY <3>1, <3>2 DEF Ring
  <2> QED
    BY <2>1, <2>2
<1>9. PICK next \in Nat : next = ack + 1
  OBVIOUS
<1>10. m = [first |-> next, commands |-> commands, firstMove |-> first, lastMove |-> cmd]
  BY <1>1, <1>2, <1>4, <1>6, <1>9 DEF Message
<1>11. m \in MessageType
  BY <1>5, <1>8, <1>10 DEF MessageType
<1>12. /\ m.first = next /\ m.commands = commands /\ m.firstMove = first /\ m.lastMove = cmd
  BY <1>10
<1>13. FullMessage(m) \/ m.firstMove = c.outPackets[1] + 1
  BY <1>3, <1>5, <1>12 DEF FullMessage
<1> QED
  BY <1>1, <1>2, <1>5, <1>7, <1>8, <1>9, <1>11, <1>12, <1>13

(***************************************************************************)
(* A message sent to the server is the last in flight.                     *)
(***************************************************************************)
LEMMA SentLast ==
  ASSUME Typed, NEW m \in MessageType, toServer' = Append(toServer, m)
  PROVE  /\ toServer' \in Seq(MessageType) /\ Len(toServer') = Len(toServer) + 1
         /\ toServer'[Len(toServer) + 1] = m
         /\ \A i \in 1 .. Len(toServer) : toServer'[i] = toServer[i]
  BY Appended DEF Typed

(***************************************************************************)
(* What is sent goes on where the messages in flight end, and where the    *)
(* server will be if it misses none of them.                               *)
(***************************************************************************)
LEMMA SentReaches ==
  ASSUME IInv, Connected, NEW m \in MessageType, toServer' = Append(toServer, m),
         FullMessage(m) \/ m.firstMove = clc.outPackets[1] + 1,
         UNCHANGED <<cl, missed>>
  PROVE  ServerReached' /\ MessageReached'
<1>1. /\ Typed /\ OutPacketsReach /\ MessageReached /\ ServerReached
  BY DEF IInv, RepeatInv, ReceivedInv
<1>2. PICK sent \in Nat : sent = Len(toServer)
  BY <1>1, Numbers
<1>3. /\ Len(toServer') = sent + 1 /\ toServer'[sent + 1] = m
      /\ \A i \in 1 .. sent : toServer'[i] = toServer[i]
  BY <1>1, <1>2, SentLast
<1>4. PICK out \in Nat : out = clc.outPackets[1]
  <2>1. 1 \in Messages
    BY Constant DEF Messages
  <2> QED
    BY <1>1, <2>1, Numbers
<1>5. 1 \in Messages /\ m.firstMove \in Nat
  BY Constant, MessageNumbers DEF Messages
<1>6. ServerReached'
  <2> SUFFICES ASSUME NEW i \in 1 .. sent + 1, missed + i <= cl_packetdup + 1
               PROVE  Continues(toServer'[i], cl.lastUsercmd)
    BY <1>3 DEF ServerReached
  <2>1. CASE i \in 1 .. sent
    <3>1. Continues(toServer[i], cl.lastUsercmd)
      BY <1>1, <1>2, <2>1 DEF ServerReached
    <3> QED
      BY <1>3, <2>1, <3>1
  <2>2. CASE i = sent + 1
    <3>1. missed + Len(toServer) + 1 <= cl_packetdup + 1
      BY <1>1, <1>2, <2>2, Numbers, Constant
    <3>2. out <= cl.lastUsercmd
      BY <1>1, <1>4, <1>5, <3>1 DEF OutPacketsReach
    <3>3. Continues(m, cl.lastUsercmd)
      <4>1. m.firstMove <= out + 1 => m.firstMove <= cl.lastUsercmd + 1
        <5>1. cl.lastUsercmd \in Nat
          BY <1>1, Numbers
        <5> QED
          BY <1>5, <3>2, <5>1
      <4> QED
        BY <1>1, <1>4, <4>1 DEF Continues
    <3> QED
      BY <1>3, <2>2, <3>3
  <2> QED
    BY <1>2, <2>1, <2>2
<1>7. MessageReached'
  <2> SUFFICES ASSUME NEW i \in 1 .. sent + 1, NEW j \in 1 .. sent + 1,
                      i < j, j - i <= cl_packetdup + 1
               PROVE  Continues(toServer'[j], toServer'[i].lastMove)
    BY <1>3 DEF MessageReached
  <2>1. i \in 1 .. sent /\ toServer'[i] = toServer[i]
    BY <1>2, <1>3
  <2>2. CASE j \in 1 .. sent
    <3>1. Continues(toServer[j], toServer[i].lastMove)
      BY <1>1, <1>2, <2>1, <2>2 DEF MessageReached
    <3> QED
      BY <1>3, <2>1, <2>2, <3>1
  <2>3. CASE j = sent + 1
    <3>1. Len(toServer) - i + 1 <= cl_packetdup + 1
      BY <1>2, <2>3, Constant
    <3>2. PICK last \in Nat : last = toServer[i].lastMove
      <4>1. toServer[i] \in MessageType
        BY <1>1, <1>2, <2>1 DEF Typed
      <4> QED
        BY <4>1, MessageNumbers
    <3>3. out <= last
      BY <1>1, <1>2, <1>4, <1>5, <2>1, <3>1, <3>2 DEF OutPacketsReach
    <3>4. Continues(m, last)
      BY <1>4, <1>5, <3>3 DEF Continues
    <3> QED
      BY <1>3, <2>1, <2>3, <3>2, <3>4
  <2> QED
    BY <1>2, <2>2, <2>3
<1> QED
  BY <1>6, <1>7

(***************************************************************************)
(* outPackets after one more message.                                      *)
(***************************************************************************)
Shifted(out, cmd) == Append(Tail(out), cmd)

LEMMA OutPacketsShift ==
  ASSUME NEW out \in [Messages -> Nat], NEW cmd \in Nat, NEW next, next = Shifted(out, cmd)
  PROVE  /\ next \in [Messages -> Nat]
         /\ next[cl_packetdup + 1] = cmd
         /\ \A k \in 1 .. cl_packetdup : next[k] = out[k + 1]
<1>1. PICK dup \in Nat : dup = cl_packetdup
  BY Constant
<1>2. Messages = 1 .. dup + 1
  BY <1>1 DEF Messages
<1>3. out \in Seq(Nat) /\ Len(out) = dup + 1
  BY <1>1, <1>2
<1>4. PICK rest : rest = Tail(out)
  OBVIOUS
<1>5. rest \in Seq(Nat) /\ Len(rest) = dup /\ \A k \in 1 .. dup : rest[k] = out[k + 1]
  <2>1. out # << >>
    BY <1>1, <1>3
  <2>2. /\ rest \in Seq(Nat) /\ Len(rest) = Len(out) - 1
        /\ \A k \in 1 .. Len(rest) : rest[k] = out[k + 1]
    BY <1>3, <1>4, <2>1, HeadTailProperties
  <2>3. Len(rest) = dup
    BY <1>1, <1>3, <2>2
  <2> QED
    BY <2>2, <2>3
<1>6. /\ next \in Seq(Nat) /\ Len(next) = dup + 1 /\ next[dup + 1] = cmd
      /\ \A k \in 1 .. dup : next[k] = rest[k]
  BY <1>4, <1>5, Appended DEF Shifted
<1>7. next \in [1 .. dup + 1 -> Nat]
  BY <1>6, LenProperties
<1> QED
  BY <1>1, <1>2, <1>5, <1>6, <1>7

(***************************************************************************)
(* The client sends a message.                                             *)
(***************************************************************************)
LEMMA WriteKeeps == ASSUME IInv, CL_WritePacket PROVE IInv'
<1>1. Typed /\ clc \in ClientType /\ Connected
  BY DEF IInv, Typed, CL_WritePacket
<1>2. PICK m : m = Message(clc)
  OBVIOUS
<1>3. PICK out : out = Append(Tail(clc.outPackets), clc.cmdNumber)
  OBVIOUS
<1>4. /\ toServer' = Append(toServer, m)
      /\ clc' = [clc EXCEPT !.outPackets = out]
      /\ UNCHANGED <<cl, received, moved, missed, toClient, issued, moves>>
  BY <1>2, <1>3 DEF CL_WritePacket, server
<1>5. /\ out \in [Messages -> Nat] /\ out[cl_packetdup + 1] = clc.cmdNumber
      /\ \A k \in 1 .. cl_packetdup : out[k] = clc.outPackets[k + 1]
  <2>1. PICK packets \in [Messages -> Nat], cmd \in Nat :
           packets = clc.outPackets /\ cmd = clc.cmdNumber
    BY <1>1, Numbers
  <2>2. out = Shifted(packets, cmd)
    BY <1>3, <2>1 DEF Shifted
  <2>3. /\ out \in [Messages -> Nat] /\ out[cl_packetdup + 1] = cmd
        /\ \A k \in 1 .. cl_packetdup : out[k] = packets[k + 1]
    BY <2>2, OutPacketsShift
  <2> QED
    BY <2>1, <2>3
<1>6. /\ clc' \in ClientType /\ clc'.state = clc.state
      /\ clc'.reliableSequence = clc.reliableSequence
      /\ clc'.reliableAcknowledge = clc.reliableAcknowledge
      /\ clc'.cmdNumber = clc.cmdNumber /\ clc'.outPackets = out
      /\ clc'.reliableCommands = clc.reliableCommands
  BY <1>1, <1>4, <1>5 DEF ClientType
<1>7. PICK ack \in Nat, pending \in Nat, given \in Nat :
         /\ ack = clc.reliableAcknowledge /\ pending = Pending(clc) /\ given = Len(issued)
         /\ pending <= MAX_RELIABLE_COMMANDS /\ given = ack + pending
  <2>1. /\ Pending(clc) \in Nat /\ Pending(clc) <= MAX_RELIABLE_COMMANDS
        /\ Len(issued) = clc.reliableSequence
    BY <1>1, Constant DEF IInv, ClientInv
  <2>2. clc.reliableAcknowledge \in Nat /\ clc.reliableSequence \in Nat /\ Len(issued) \in Nat
    BY <1>1, Numbers
  <2>3. Len(issued) = clc.reliableAcknowledge + Pending(clc)
    BY <2>1, <2>2 DEF Pending
  <2> QED
    BY <2>1, <2>2, <2>3
<1>8. /\ m \in MessageType
      /\ m.first = ack + 1
      /\ Len(m.commands) = pending
      /\ \A k \in 1 .. pending : m.commands[k] = clc.reliableCommands[SlotOf(ack + k)]
      /\ m.lastMove = clc.cmdNumber
      /\ m.firstMove >= 1
      /\ FullMessage(m) \/ m.firstMove = clc.outPackets[1] + 1
  <2>1. Pending(clc) \in 0 .. MAX_RELIABLE_COMMANDS + 1
    BY <1>7, Constant
  <2> QED
    BY <1>1, <1>2, <1>7, <2>1, MessageBuilt
<1>9. /\ toServer' \in Seq(MessageType) /\ Len(toServer') = Len(toServer) + 1
      /\ toServer'[Len(toServer) + 1] = m
      /\ \A i \in 1 .. Len(toServer) : toServer'[i] = toServer[i]
  BY <1>1, <1>4, <1>8, SentLast
<1>10. Typed' /\ Connected'
  BY <1>1, <1>4, <1>6, <1>9 DEF Typed, Connected
<1>11. ClientInv' /\ IssuedInv' /\ AckInv' /\ ReceivedInv' /\ MovesInv'
  BY <1>1, <1>4, <1>6, <1>10
     DEF IInv, ClientInv, IssuedInv, AckInv, ReceivedInv, MovesInv, InGame, Pending
<1>12. CarriesCommands(m)
  <2>1. ack \in Nat /\ ack <= cl.lastClientCommand
    BY <1>1, <1>7 DEF IInv, AckInv
  <2>2. m.first \in 1 .. cl.lastClientCommand + 1
    BY <1>1, <1>8, <2>1, Numbers
  <2>3. ASSUME NEW k \in 1 .. pending
        PROVE  m.first + k - 1 <= given /\ AsGiven(m, k)
    <3>1. ack + k \in ack + 1 .. ack + pending
      BY <1>7
    <3>2. clc.reliableCommands[SlotOf(ack + k)] = issued[ack + k]
      <4>1. clc.reliableSequence = ack + pending
        BY <1>1, <1>7 DEF IInv, ClientInv
      <4> QED
        BY <1>1, <1>7, <3>1, <4>1 DEF IInv, ClientInv
    <3>3. m.first + k - 1 = ack + k
      BY <1>7, <1>8
    <3>4. AsGiven(m, k)
      BY <1>8, <3>2, <3>3 DEF AsGiven
    <3> QED
      BY <1>7, <3>1, <3>3, <3>4
  <2>4. Len(m.commands) <= MAX_RELIABLE_COMMANDS + 1
    BY <1>7, <1>8, Constant
  <2> QED
    BY <1>7, <1>8, <2>2, <2>3, <2>4 DEF CarriesCommands
<1>13. CarriesMoves(m)
  <2>1. m.lastMove = Len(moves)
    BY <1>1, <1>8 DEF IInv, ClientInv
  <2>2. LastIn(m) = Len(issued)
    BY <1>7, <1>8 DEF LastIn
  <2>3. Len(moves) \in Nat
    BY <1>1, Numbers
  <2> QED
    BY <1>8, <2>1, <2>2, <2>3 DEF CarriesMoves, IInv, MovesInv
<1>14. ToServerInv'
  <2>1. ASSUME NEW i \in 1 .. Len(toServer')
        PROVE  CarriesCommands(toServer[i])' /\ CarriesMoves(toServer[i])'
    <3>1. PICK n : n = toServer'[i]
      OBVIOUS
    <3>2. CarriesCommands(n) /\ CarriesMoves(n)
      <4>1. Len(toServer) \in Nat
        BY <1>1, Numbers
      <4>2. CASE i = Len(toServer) + 1
        BY <1>9, <1>12, <1>13, <3>1, <4>2
      <4>3. CASE i # Len(toServer) + 1
        <5>1. i \in 1 .. Len(toServer)
          BY <1>9, <4>1, <4>3
        <5> QED
          BY <1>9, <3>1, <5>1 DEF IInv, ToServerInv
      <4> QED
        BY <4>2, <4>3
    <3> QED
      BY <1>1, <1>4, <1>10, <3>1, <3>2 DEF CarriesCommands, CarriesMoves, AsGiven, LastIn
  <2> QED
    BY <2>1 DEF ToServerInv
<1>15. ServerReached' /\ MessageReached'
  BY <1>1, <1>4, <1>8, SentReaches
<1>16. OutPacketsReach'
  <2>1. PICK sent \in Nat, dup \in Nat, cmd \in Nat :
           sent = Len(toServer) /\ dup = cl_packetdup /\ cmd = clc.cmdNumber
    BY <1>1, Numbers, Constant
  <2>2. OutPacketsReach /\ missed \in Nat
    BY <1>1, Numbers DEF IInv, RepeatInv
  <2>3. Messages = 1 .. dup + 1
    BY <2>1 DEF Messages
  <2>4. ASSUME NEW k \in 1 .. dup + 1
        PROVE  /\ out[k] <= cmd
               /\ missed + (sent + 1) + k <= dup + 1 => out[k] <= cl.lastUsercmd
               /\ \A i \in 1 .. sent + 1 :
                      (sent + 1) - i + k <= dup + 1 => out[k] <= toServer'[i].lastMove
    <3>1. CASE k = dup + 1
      <4>1. out[k] = cmd
        BY <1>5, <2>1, <3>1
      <4>2. ~(missed + (sent + 1) + k <= dup + 1)
        BY <2>1, <2>2, <3>1
      <4>3. ASSUME NEW i \in 1 .. sent + 1, (sent + 1) - i + k <= dup + 1
            PROVE  i = sent + 1
        BY <2>1, <3>1, <4>3
      <4>4. toServer'[sent + 1].lastMove = cmd
        BY <1>8, <1>9, <2>1
      <4>5. out[k] <= cmd
        BY <2>1, <4>1
      <4>6. \A i \in 1 .. sent + 1 :
               (sent + 1) - i + k <= dup + 1 => out[k] <= toServer'[i].lastMove
        BY <2>1, <4>1, <4>3, <4>4
      <4> QED
        BY <4>2, <4>5, <4>6
    <3>2. CASE k # dup + 1
      <4>1. PICK l \in 1 .. dup + 1 : l = k + 1 /\ k \in 1 .. dup
        BY <2>1, <3>2
      <4>2. out[k] = clc.outPackets[l] /\ out[k] \in Nat
        BY <1>5, <2>1, <2>3, <4>1
      <4>3. /\ clc.outPackets[l] <= cmd
            /\ missed + sent + l <= dup + 1 => clc.outPackets[l] <= cl.lastUsercmd
            /\ \A i \in 1 .. sent :
                   sent - i + l <= dup + 1 => clc.outPackets[l] <= toServer[i].lastMove
        BY <2>1, <2>2, <2>3 DEF OutPacketsReach
      <4>4. missed + (sent + 1) + k = missed + sent + l
        BY <2>1, <2>2, <4>1
      <4>5. ASSUME NEW i \in 1 .. sent + 1, (sent + 1) - i + k <= dup + 1
            PROVE  out[k] <= toServer'[i].lastMove
        <5>1. CASE i = sent + 1
          BY <1>8, <1>9, <2>1, <4>2, <4>3, <5>1
        <5>2. CASE i # sent + 1
          <6>1. i \in 1 .. sent /\ sent - i + l <= dup + 1
            BY <2>1, <4>1, <4>5, <5>2
          <6> QED
            BY <1>9, <2>1, <4>2, <4>3, <6>1
        <5> QED
          BY <5>1, <5>2
      <4> QED
        BY <4>2, <4>3, <4>4, <4>5
    <3> QED
      BY <3>1, <3>2
  <2> QED
    BY <1>4, <1>6, <1>9, <2>1, <2>3, <2>4 DEF OutPacketsReach
<1> QED
  BY <1>10, <1>11, <1>14, <1>15, <1>16 DEF IInv, RepeatInv

(***************************************************************************)
(* A connection that begins, or has ended.                                 *)
(***************************************************************************)
LEMMA WipedType ==
  ASSUME NEW state \in {"primed", "disconnected"}, NEW c, c = Wiped(state)
  PROVE  /\ c \in ClientType /\ c.state = state
         /\ c.reliableSequence = 0 /\ c.reliableAcknowledge = 0 /\ c.cmdNumber = 0
         /\ \A k \in Messages : c.outPackets[k] = 0
<1>1. NoCommand \in Command
  BY Constant DEF NoCommand, Command, Kind
<1>2. PICK ring \in Ring : ring = [s \in 0 .. MAX_RELIABLE_COMMANDS - 1 |-> NoCommand]
  BY <1>1 DEF Ring
<1>3. PICK out \in [Messages -> Nat] : out = [i \in Messages |-> 0]
  OBVIOUS
<1>4. c = [state |-> state, reliableSequence |-> 0, reliableAcknowledge |-> 0,
           reliableCommands |-> ring, cmdNumber |-> 0, outPackets |-> out]
  BY <1>2, <1>3 DEF Wiped, Messages
<1> QED
  BY <1>3, <1>4 DEF ClientType

(***************************************************************************)
(* The client disconnects, with its ring full or not.                      *)
(***************************************************************************)
LEMMA DisconnectKeeps == ASSUME IInv, CL_Disconnect PROVE IInv'
<1>1. Typed /\ clc \in ClientType /\ Connected
  BY DEF IInv, Typed, CL_Disconnect
<1>2. PICK seq \in Nat, ack \in Nat :
         seq = clc.reliableSequence /\ ack = clc.reliableAcknowledge
  BY <1>1, Numbers
<1>3. /\ Len(issued) = seq /\ seq <= MaxCommands
      /\ seq - ack \in 0 .. MAX_RELIABLE_COMMANDS
  BY <1>1, <1>2 DEF IInv, ClientInv, Pending
<1>4. PICK command \in Command :
         command.kind = "disconnect" /\ command = [kind |-> "disconnect", id |-> seq + 1]
  <2>1. seq + 1 \in 0 .. MaxCommands + 1
    BY <1>2, <1>3, Constant
  <2>2. [kind |-> "disconnect", id |-> seq + 1] \in Command
    BY <2>1 DEF Command, Kind
  <2> QED
    BY <2>2
<1>5. PICK d, m : d = Added(clc, command) /\ m = Message(d)
  OBVIOUS
<1>6. /\ toServer' = Append(toServer, m)
      /\ clc' = Wiped("disconnected")
      /\ toClient' = << >>
      /\ issued' = Append(issued, command)
      /\ UNCHANGED <<cl, received, moved, missed, moves>>
  BY <1>3, <1>4, <1>5 DEF CL_Disconnect, Disconnect, server
<1>7. /\ d \in ClientType
      /\ d.reliableSequence = seq + 1 /\ d.reliableAcknowledge = ack
      /\ d.cmdNumber = clc.cmdNumber /\ d.outPackets = clc.outPackets
      /\ d.reliableCommands = [clc.reliableCommands EXCEPT ![SlotOf(seq + 1)] = command]
  <2>1. /\ d \in ClientType
        /\ d.reliableSequence = clc.reliableSequence + 1
        /\ d.reliableAcknowledge = clc.reliableAcknowledge
        /\ d.cmdNumber = clc.cmdNumber /\ d.outPackets = clc.outPackets
        /\ d.reliableCommands =
               [clc.reliableCommands EXCEPT ![SlotOf(clc.reliableSequence + 1)] = command]
    BY <1>1, <1>5, AddedType
  <2> QED
    BY <1>2, <2>1, Zenon
<1>8. PICK pending \in Nat :
         /\ pending = Pending(d) /\ pending = seq + 1 - ack
         /\ pending \in 0 .. MAX_RELIABLE_COMMANDS + 1
  BY <1>2, <1>3, <1>7, Constant DEF Pending
<1>9. /\ m \in MessageType
      /\ m.first = ack + 1
      /\ Len(m.commands) = pending
      /\ \A k \in 1 .. pending : m.commands[k] = d.reliableCommands[SlotOf(ack + k)]
      /\ m.lastMove = clc.cmdNumber
      /\ m.firstMove >= 1
      /\ FullMessage(m) \/ m.firstMove = clc.outPackets[1] + 1
  <2>1. Pending(d) \in 0 .. MAX_RELIABLE_COMMANDS + 1
    BY <1>8
  <2>2. /\ m \in MessageType
        /\ m.first = d.reliableAcknowledge + 1
        /\ Len(m.commands) = Pending(d)
        /\ \A k \in 1 .. Pending(d) :
               m.commands[k] = d.reliableCommands[SlotOf(d.reliableAcknowledge + k)]
        /\ m.lastMove = d.cmdNumber
        /\ m.firstMove >= 1
        /\ FullMessage(m) \/ m.firstMove = d.outPackets[1] + 1
    <3>1. d \in ClientType /\ m = Message(d)
      BY <1>5, <1>7
    <3> QED
      BY <2>1, <3>1, MessageBuilt
  <2> QED
    BY <1>7, <1>8, <2>2
<1>10. /\ clc' \in ClientType /\ clc'.state = "disconnected"
  BY <1>6, WipedType
<1>11. /\ issued' \in Seq(Command) /\ Len(issued') = seq + 1 /\ issued'[seq + 1] = command
       /\ \A n \in 1 .. Len(issued) : issued'[n] = issued[n]
       /\ Grows(issued, issued')
  BY <1>1, <1>3, <1>6, IssuedMore
<1>12. /\ toServer' \in Seq(MessageType) /\ Len(toServer') = Len(toServer) + 1
       /\ toServer'[Len(toServer) + 1] = m
       /\ \A i \in 1 .. Len(toServer) : toServer'[i] = toServer[i]
  BY <1>1, <1>6, <1>9, SentLast
<1>13. Typed'
  BY <1>1, <1>6, <1>10, <1>11, <1>12 DEF Typed
<1>14. ~Connected'
  BY <1>10 DEF Connected
<1>15. ClientInv' /\ AckInv'
  BY <1>14 DEF ClientInv, AckInv
<1>16. IssuedInv'
  <2>1. ASSUME NEW n \in 1 .. seq + 1, issued'[n].kind = "disconnect"
        PROVE  n = seq + 1
    <3> SUFFICES ASSUME n # seq + 1
                 PROVE  FALSE
      OBVIOUS
    <3>1. n \in 1 .. Len(issued)
      BY <1>2, <1>3
    <3> QED
      BY <1>1, <1>11, <2>1, <3>1 DEF IInv, IssuedInv
  <2>2. issued' # << >> /\ issued'[Len(issued')].kind = "disconnect"
    BY <1>2, <1>4, <1>11
  <2> QED
    BY <1>6, <1>11, <1>14, <2>1, <2>2 DEF IssuedInv
<1>17. ReceivedInv'
  BY <1>1, <1>2, <1>6, <1>11, <1>14, ReceivedStill DEF IInv
<1>18. MovesInv'
  BY <1>1, <1>2, <1>3, <1>6, <1>11, MovesStill DEF IInv
<1>19. CarriesCommands(m)'
  <2>1. ack <= cl.lastClientCommand
    BY <1>1, <1>2 DEF IInv, AckInv
  <2>2. m.first \in 1 .. cl'.lastClientCommand + 1
    <3>1. cl.lastClientCommand \in Nat /\ cl' = cl
      BY <1>1, <1>6, Numbers
    <3>2. m.first = ack + 1
      BY <1>9
    <3> QED
      BY <1>2, <2>1, <3>1, <3>2
  <2>3. ASSUME NEW k \in 1 .. pending
        PROVE  m.first + k - 1 <= seq + 1 /\ AsGiven(m, k)'
    <3>1. PICK n \in ack + 1 .. seq + 1 : n = ack + k
      BY <1>2, <1>8
    <3>2. m.first + k - 1 = n /\ m.commands[k] = d.reliableCommands[SlotOf(n)]
      BY <1>2, <1>9, <3>1
    <3>3. SlotOf(n) \in 0 .. MAX_RELIABLE_COMMANDS - 1
      BY <1>2, SlotType
    <3>4. clc.reliableCommands \in Ring
      BY <1>1, Numbers
    <3>5. CASE SlotOf(n) = SlotOf(seq + 1)
      <4>1. m.commands[k] = issued'[seq + 1]
        BY <1>7, <1>11, <3>2, <3>3, <3>4, <3>5 DEF Ring
      <4>2. CASE n = seq + 1
        BY <3>2, <4>1, <4>2 DEF AsGiven
      <4>3. CASE n # seq + 1
        <5>1. n < seq + 1 /\ n \in Int
          BY <1>2, <4>3
        <5>2. ~(seq + 1 - n < MAX_RELIABLE_COMMANDS)
          BY <1>2, <3>5, <5>1, Constant, SlotsDiffer DEF SlotOf
        <5>3. k = 1 /\ m.first < seq + 1
          <6>1. k \in Int /\ m.first = ack + 1
            BY <1>8, <1>9
          <6>2. n = ack + 1
            <7>1. seq - ack <= MAX_RELIABLE_COMMANDS
              BY <1>3
            <7>2. seq + 1 - n >= MAX_RELIABLE_COMMANDS
              BY <1>2, <5>1, <5>2, Constant
            <7> QED
              BY <1>2, <5>1, <7>1, <7>2, Constant
          <6> QED
            BY <1>2, <3>1, <5>1, <6>1, <6>2
        <5>4. AsGiven(m, k)'
          BY <1>11, <1>14, <4>1, <5>3 DEF AsGiven
        <5> QED
          BY <1>2, <3>2, <5>4
      <4> QED
        BY <4>2, <4>3
    <3>6. CASE SlotOf(n) # SlotOf(seq + 1)
      <4>1. d.reliableCommands[SlotOf(n)] = clc.reliableCommands[SlotOf(n)]
        BY <1>7, <3>3, <3>4, <3>6 DEF Ring
      <4>2. n \in ack + 1 .. seq /\ n \in 1 .. Len(issued)
        BY <1>2, <1>3, <3>6
      <4>3. clc.reliableCommands[SlotOf(n)] = issued[n]
        BY <1>1, <1>2, <4>2 DEF IInv, ClientInv
      <4>4. m.commands[k] = issued'[n]
        BY <1>11, <3>2, <4>1, <4>2, <4>3
      <4> QED
        BY <3>2, <4>4 DEF AsGiven
    <3> QED
      BY <1>2, <3>2, <3>5, <3>6
  <2> QED
    BY <1>8, <1>9, <1>11, <2>2, <2>3 DEF CarriesCommands
<1>20. CarriesMoves(m)'
  <2>1. m.lastMove = Len(moves')
    BY <1>1, <1>6, <1>9 DEF IInv, ClientInv
  <2>2. LastIn(m) = seq + 1
    <3>1. m.first = ack + 1 /\ Len(m.commands) = pending
      BY <1>9
    <3>2. LastIn(m) = ack + 1 + pending - 1
      BY <3>1 DEF LastIn
    <3> QED
      BY <1>2, <1>8, <3>2
  <2>3. ASSUME NEW j \in 1 .. Len(moves)
        PROVE  moves[j] <= seq + 1
    <3>1. moves[j] \in Nat
      BY <1>1 DEF Typed
    <3>2. moves[j] <= seq
      BY <1>3 DEF IInv, MovesInv
    <3> QED
      BY <1>2, <3>1, <3>2
  <2>4. Len(moves') \in Nat
    BY <1>1, <1>6, Numbers
  <2> QED
    BY <1>6, <1>9, <2>1, <2>2, <2>3, <2>4 DEF CarriesMoves, LastIn
<1>21. ToServerInv'
  <2>1. ASSUME NEW i \in 1 .. Len(toServer')
        PROVE  CarriesCommands(toServer[i])' /\ CarriesMoves(toServer[i])'
    <3>1. Len(toServer) \in Nat
      BY <1>1, Numbers
    <3>2. CASE i = Len(toServer) + 1
      BY <1>12, <1>19, <1>20, <3>2 DEF CarriesCommands, CarriesMoves, AsGiven, LastIn
    <3>3. CASE i # Len(toServer) + 1
      <4>1. i \in 1 .. Len(toServer)
        BY <1>12, <3>1, <3>3
      <4>2. PICK n \in MessageType : n = toServer[i]
        BY <1>1, <4>1 DEF Typed
      <4>3. CarriesCommands(n) /\ CarriesMoves(n)
        BY <4>1, <4>2 DEF IInv, ToServerInv
      <4>4. cl.lastClientCommand <= cl'.lastClientCommand /\ Grows(moves, moves')
        BY <1>1, <1>6, Numbers DEF Grows
      <4>5. CarriesCommands(n)' /\ CarriesMoves(n)'
        BY <1>1, <1>11, <1>13, <4>3, <4>4, StillCarried
      <4>6. toServer'[i] = n
        BY <1>12, <4>1, <4>2
      <4> QED
        BY <4>5, <4>6 DEF CarriesCommands, CarriesMoves, AsGiven, LastIn
    <3> QED
      BY <3>2, <3>3
  <2> QED
    BY <2>1 DEF ToServerInv
<1>22. RepeatInv'
  <2>1. ServerReached' /\ MessageReached'
    BY <1>1, <1>6, <1>9, SentReaches
  <2> QED
    BY <1>14, <2>1 DEF RepeatInv
<1> QED
  BY <1>13, <1>15, <1>16, <1>17, <1>18, <1>21, <1>22 DEF IInv

(***************************************************************************)
(* What is in flight when the oldest message has left.                     *)
(***************************************************************************)
LEMMA OldestLeaves ==
  ASSUME NEW S, NEW s \in Seq(S), s # << >>
  PROVE  /\ Tail(s) \in Seq(S) /\ Len(Tail(s)) = Len(s) - 1
         /\ \A j \in 1 .. Len(s) - 1 : j + 1 \in 1 .. Len(s) /\ Tail(s)[j] = s[j + 1]
         /\ Head(s) = s[1] /\ 1 \in 1 .. Len(s) /\ s[1] \in S
<1>1. Len(s) \in Nat /\ Len(s) # 0
  OBVIOUS
<1>2. /\ Tail(s) \in Seq(S) /\ Len(Tail(s)) = Len(s) - 1
      /\ \A j \in 1 .. Len(Tail(s)) : Tail(s)[j] = s[j + 1]
  BY HeadTailProperties
<1>3. Head(s) = s[1] /\ 1 \in 1 .. Len(s) /\ s[1] \in S
  BY <1>1
<1>4. \A j \in 1 .. Len(s) - 1 : j + 1 \in 1 .. Len(s)
  BY <1>1
<1> QED
  BY <1>2, <1>3, <1>4

(***************************************************************************)
(* The oldest client message leaves; the others are what they were.        *)
(***************************************************************************)
LEMMA OldestToServerLeaves ==
  ASSUME Typed, toServer # << >>, toServer' = Tail(toServer)
  PROVE  /\ toServer' \in Seq(MessageType) /\ Len(toServer') = Len(toServer) - 1
         /\ \A i \in 1 .. Len(toServer) - 1 :
                i + 1 \in 1 .. Len(toServer) /\ toServer'[i] = toServer[i + 1]
         /\ Head(toServer) = toServer[1] /\ 1 \in 1 .. Len(toServer)
         /\ toServer[1] \in MessageType
<1>1. toServer \in Seq(MessageType)
  BY DEF Typed
<1> QED
  BY <1>1, OldestLeaves

(***************************************************************************)
(* What it leaves behind carries what it carried.                          *)
(***************************************************************************)
LEMMA LeavesCarried ==
  ASSUME Typed, Typed', ToServerInv, toServer # << >>, toServer' = Tail(toServer),
         cl.lastClientCommand <= cl'.lastClientCommand, UNCHANGED <<clc, issued, moves>>
  PROVE  ToServerInv'
<1>1. /\ Len(toServer') = Len(toServer) - 1
      /\ \A i \in 1 .. Len(toServer) - 1 :
             i + 1 \in 1 .. Len(toServer) /\ toServer'[i] = toServer[i + 1]
  BY OldestToServerLeaves
<1>2. Grows(issued, issued') /\ Grows(moves, moves') /\ Connected' = Connected
  BY Numbers DEF Grows, Connected
<1>3. ASSUME NEW i \in 1 .. Len(toServer')
      PROVE  CarriesCommands(toServer[i])' /\ CarriesMoves(toServer[i])'
  <2>1. i + 1 \in 1 .. Len(toServer) /\ toServer'[i] = toServer[i + 1]
    BY <1>1
  <2>2. PICK m \in MessageType : m = toServer[i + 1]
    BY <2>1 DEF Typed
  <2>3. CarriesCommands(m) /\ CarriesMoves(m)
    BY <2>1, <2>2 DEF ToServerInv
  <2>4. CarriesCommands(m)' /\ CarriesMoves(m)'
    BY <1>2, <2>3, StillCarried
  <2> QED
    BY <2>1, <2>2, <2>4 DEF CarriesCommands, CarriesMoves, AsGiven, LastIn
<1> QED
  BY <1>3 DEF ToServerInv

(***************************************************************************)
(* The messages it leaves behind go on where the ones before them ended.   *)
(***************************************************************************)
LEMMA LeavesReached ==
  ASSUME Typed, MessageReached, toServer # << >>, toServer' = Tail(toServer)
  PROVE  MessageReached'
<1>1. PICK sent \in Nat : sent = Len(toServer)
  BY Numbers
<1>2. /\ Len(toServer') = sent - 1
      /\ \A i \in 1 .. sent - 1 : i + 1 \in 1 .. sent /\ toServer'[i] = toServer[i + 1]
  BY <1>1, OldestToServerLeaves
<1> SUFFICES ASSUME NEW i \in 1 .. sent - 1, NEW j \in 1 .. sent - 1,
                    i < j, j - i <= cl_packetdup + 1
             PROVE  Continues(toServer'[j], toServer'[i].lastMove)
  BY <1>2 DEF MessageReached
<1>3. PICK k \in 1 .. sent, l \in 1 .. sent : k = i + 1 /\ l = j + 1
  BY <1>2
<1>4. k < l /\ l - k <= cl_packetdup + 1
  BY <1>3, Constant
<1>5. Continues(toServer[l], toServer[k].lastMove)
  BY <1>1, <1>4 DEF MessageReached
<1> QED
  BY <1>2, <1>3, <1>5

(***************************************************************************)
(* The lesser of two numbers.                                              *)
(***************************************************************************)
LEMMA MinOfTwo ==
  ASSUME NEW a \in Int, NEW b \in Int
  PROVE  Min({a, b}) = IF a <= b THEN a ELSE b
<1>1. CASE a <= b
  BY <1>1 DEF Min
<1>2. CASE b < a
  BY <1>2 DEF Min
<1> QED
  BY <1>1, <1>2

(***************************************************************************)
(* One more message whose moves are not taken.                             *)
(***************************************************************************)
LEMMA MissedMore ==
  ASSUME Typed, missed' = OneMoreMissed
  PROVE  /\ missed' \in 0 .. cl_packetdup + 1
         /\ missed' = missed + 1 \/ missed' = cl_packetdup + 1
<1>1. PICK n \in Nat : n = missed /\ n <= cl_packetdup + 1
  BY Constant DEF Typed
<1>2. missed' = Min({n + 1, cl_packetdup + 1})
  BY <1>1 DEF OneMoreMissed
<1>3. missed' = IF n + 1 <= cl_packetdup + 1 THEN n + 1 ELSE cl_packetdup + 1
  BY <1>2, Constant, MinOfTwo
<1> QED
  BY <1>1, <1>3, Constant

(***************************************************************************)
(* A message whose moves are not taken, lost or not: the others reach one  *)
(* message less far.                                                       *)
(***************************************************************************)
LEMMA MissedReaches ==
  ASSUME Typed, toServer # << >>, toServer' = Tail(toServer), missed' = OneMoreMissed,
         cl'.lastUsercmd = cl.lastUsercmd, UNCHANGED clc
  PROVE  /\ ServerReached => ServerReached'
         /\ OutPacketsReach => OutPacketsReach'
<1>1. PICK sent \in Nat : sent = Len(toServer)
  BY Numbers
<1>2. /\ Len(toServer') = sent - 1
      /\ \A i \in 1 .. sent - 1 : i + 1 \in 1 .. sent /\ toServer'[i] = toServer[i + 1]
      /\ sent >= 1
  BY <1>1, OldestToServerLeaves
<1>3. missed' = missed + 1 \/ missed' = cl_packetdup + 1
  BY MissedMore
<1>4. PICK n \in Nat, dup \in Nat : n = missed /\ dup = cl_packetdup
  BY Numbers, Constant
<1>5. ASSUME ServerReached
      PROVE  ServerReached'
  <2> SUFFICES ASSUME NEW i \in 1 .. sent - 1, missed' + i <= dup + 1
               PROVE  Continues(toServer'[i], cl.lastUsercmd)
    BY <1>2, <1>4 DEF ServerReached
  <2>1. PICK k \in 1 .. sent : k = i + 1 /\ toServer'[i] = toServer[k]
    BY <1>2
  <2>2. n + k <= dup + 1
    BY <1>3, <1>4, <2>1
  <2> QED
    BY <1>1, <1>4, <1>5, <2>1, <2>2 DEF ServerReached
<1>6. ASSUME OutPacketsReach
      PROVE  OutPacketsReach'
  <2> SUFFICES ASSUME NEW k \in Messages
               PROVE  /\ clc.outPackets[k] <= clc.cmdNumber
                      /\ missed' + (sent - 1) + k <= dup + 1 =>
                             clc.outPackets[k] <= cl.lastUsercmd
                      /\ \A i \in 1 .. sent - 1 :
                             (sent - 1) - i + k <= dup + 1 =>
                                 clc.outPackets[k] <= toServer'[i].lastMove
    BY <1>2, <1>4 DEF OutPacketsReach
  <2>1. /\ clc.outPackets[k] <= clc.cmdNumber
        /\ n + sent + k <= dup + 1 => clc.outPackets[k] <= cl.lastUsercmd
        /\ \A i \in 1 .. sent :
               sent - i + k <= dup + 1 => clc.outPackets[k] <= toServer[i].lastMove
    BY <1>1, <1>4, <1>6 DEF OutPacketsReach
  <2>2. k \in Nat /\ k >= 1
    BY Constant DEF Messages
  <2>3. ASSUME missed' + (sent - 1) + k <= dup + 1
        PROVE  clc.outPackets[k] <= cl.lastUsercmd
    <3>1. n + sent + k <= dup + 1
      BY <1>2, <1>3, <1>4, <2>2, <2>3
    <3> QED
      BY <2>1, <3>1
  <2>4. ASSUME NEW i \in 1 .. sent - 1, (sent - 1) - i + k <= dup + 1
        PROVE  clc.outPackets[k] <= toServer'[i].lastMove
    <3>1. PICK j \in 1 .. sent : j = i + 1 /\ toServer'[i] = toServer[j]
      BY <1>2
    <3>2. sent - j + k <= dup + 1
      BY <2>2, <2>4, <3>1
    <3> QED
      BY <2>1, <3>1, <3>2
  <2> QED
    BY <2>1, <2>3, <2>4
<1> QED
  BY <1>5, <1>6

(***************************************************************************)
(* The client reads an acknowledgement: never of a command it has not      *)
(* given, never so old that commands have to be given up.                  *)
(***************************************************************************)
LEMMA Acknowledged ==
  ASSUME IInv, Connected, NEW i \in 1 .. Len(toClient)
  PROVE  /\ toClient[i] \in Nat
         /\ clc.reliableAcknowledge <= toClient[i]
         /\ toClient[i] <= cl.lastClientCommand
         /\ toClient[i] <= clc.reliableSequence
         /\ clc.reliableSequence - toClient[i] \in 0 .. MAX_RELIABLE_COMMANDS
<1>1. Typed
  BY DEF IInv
<1>2. PICK seq \in Nat, ack \in Nat, last \in Nat :
         seq = clc.reliableSequence /\ ack = clc.reliableAcknowledge
         /\ last = cl.lastClientCommand
  BY <1>1, Numbers
<1>3. PICK a \in Nat : a = toClient[i]
  BY <1>1 DEF Typed
<1>4. a \in ack .. last
  BY <1>2, <1>3 DEF IInv, AckInv
<1>5. last <= seq
  BY <1>2 DEF IInv, ReceivedInv, ClientInv
<1>6. seq - ack \in 0 .. MAX_RELIABLE_COMMANDS
  BY <1>2 DEF IInv, ClientInv, Pending
<1>7. ack <= a /\ a <= last /\ a <= seq
  BY <1>4, <1>5
<1>8. seq - a \in 0 .. MAX_RELIABLE_COMMANDS
  BY <1>6, <1>7, Constant
<1> QED
  BY <1>2, <1>3, <1>7, <1>8

(***************************************************************************)
(* So it takes the acknowledgement as it is.                               *)
(***************************************************************************)
LEMMA ParseKeeps == ASSUME IInv, CL_ParseServerMessage PROVE IInv'
<1>1. Typed /\ clc \in ClientType /\ Connected /\ toClient # << >> /\ toClient \in Seq(Nat)
  BY DEF IInv, Typed, CL_ParseServerMessage
<1>2. /\ Tail(toClient) \in Seq(Nat) /\ Len(Tail(toClient)) = Len(toClient) - 1
      /\ \A j \in 1 .. Len(toClient) - 1 :
             j + 1 \in 1 .. Len(toClient) /\ Tail(toClient)[j] = toClient[j + 1]
      /\ Head(toClient) = toClient[1] /\ 1 \in 1 .. Len(toClient)
  BY <1>1, OldestLeaves
<1>3. PICK a \in Nat, seq \in Nat, ack \in Nat :
         /\ a = toClient[1] /\ seq = clc.reliableSequence /\ ack = clc.reliableAcknowledge
         /\ ack <= a /\ a <= seq /\ a <= cl.lastClientCommand
         /\ seq - a \in 0 .. MAX_RELIABLE_COMMANDS
  BY <1>1, <1>2, Acknowledged, Numbers
<1>4. /\ toClient' = Tail(toClient)
      /\ clc' = [clc EXCEPT !.reliableAcknowledge = a]
      /\ UNCHANGED <<cl, received, moved, missed, toServer, issued, moves>>
  <2>1. ~(seq - a < 0) /\ ~(seq - a > MAX_RELIABLE_COMMANDS)
    BY <1>3, Constant
  <2> QED
    BY <1>2, <1>3, <2>1 DEF CL_ParseServerMessage, server
<1>5. /\ clc' \in ClientType /\ clc'.state = clc.state
      /\ clc'.reliableSequence = seq /\ clc'.reliableAcknowledge = a
      /\ clc'.cmdNumber = clc.cmdNumber /\ clc'.outPackets = clc.outPackets
      /\ clc'.reliableCommands = clc.reliableCommands
  BY <1>1, <1>3, <1>4 DEF ClientType
<1>6. Typed' /\ Connected'
  BY <1>1, <1>2, <1>4, <1>5 DEF Typed, Connected
<1>7. ClientInv'
  <2>1. Pending(clc)' \in 0 .. MAX_RELIABLE_COMMANDS
    BY <1>3, <1>5 DEF Pending
  <2>2. \A n \in a + 1 .. seq : n \in ack + 1 .. seq
    BY <1>3
  <2>3. \A n \in a + 1 .. seq : clc'.reliableCommands[SlotOf(n)] = issued'[n]
    BY <1>1, <1>3, <1>4, <1>5, <2>2 DEF IInv, ClientInv
  <2> QED
    BY <1>1, <1>3, <1>4, <1>5, <2>1, <2>3 DEF IInv, ClientInv
<1>8. AckInv'
  <2>1. PICK len \in Nat, last \in Nat : len = Len(toClient) /\ last = cl.lastClientCommand
    BY <1>1, Numbers
  <2>2. \A j \in 1 .. len - 1 : toClient'[j] \in a .. last
    <3> TAKE j \in 1 .. len - 1
    <3>1. PICK k \in 1 .. len : k = j + 1 /\ toClient'[j] = toClient[k] /\ 1 <= k /\ 1 \in 1 .. len
      BY <1>2, <1>4, <2>1
    <3>2. toClient[1] <= toClient[k] /\ toClient[k] \in Nat /\ toClient[k] <= last
      BY <1>1, <2>1, <3>1, Acknowledged DEF IInv, AckInv
    <3> QED
      BY <1>3, <2>1, <3>1, <3>2
  <2>3. \A j, l \in 1 .. len - 1 : j <= l => toClient'[j] <= toClient'[l]
    <3> TAKE j, l \in 1 .. len - 1
    <3>1. PICK p \in 1 .. len : p = j + 1 /\ toClient'[j] = toClient[p]
      BY <1>2, <1>4, <2>1
    <3>2. PICK q \in 1 .. len : q = l + 1 /\ toClient'[l] = toClient[q]
      BY <1>2, <1>4, <2>1
    <3>3. j <= l => p <= q
      BY <3>1, <3>2
    <3> QED
      BY <1>1, <2>1, <3>1, <3>2, <3>3 DEF IInv, AckInv
  <2> QED
    BY <1>2, <1>3, <1>4, <1>5, <2>1, <2>2, <2>3 DEF AckInv
<1>9. IssuedInv' /\ ReceivedInv' /\ MovesInv'
  BY <1>1, <1>4, <1>6 DEF IInv, IssuedInv, ReceivedInv, MovesInv, InGame
<1>10. ToServerInv'
  BY <1>1, <1>4, <1>6
     DEF IInv, ToServerInv, CarriesCommands, CarriesMoves, AsGiven, LastIn
<1>11. RepeatInv'
  BY <1>1, <1>4, <1>5
     DEF IInv, RepeatInv, ServerReached, MessageReached, OutPacketsReach, InGame
<1> QED
  BY <1>6, <1>7, <1>8, <1>9, <1>10, <1>11 DEF IInv

(***************************************************************************)
(* The server sends a message.                                             *)
(***************************************************************************)
LEMMA AnswerKeeps == ASSUME IInv, SV_SendMessage PROVE IInv'
<1>1. Typed /\ Connected /\ toClient \in Seq(Nat)
  BY DEF IInv, Typed, SV_SendMessage
<1>2. PICK last \in Nat : last = cl.lastClientCommand
  BY <1>1, Numbers
<1>3. /\ toClient' = Append(toClient, last)
      /\ UNCHANGED <<clc, cl, received, moved, missed, toServer, issued, moves>>
  BY <1>2 DEF SV_SendMessage, server
<1>4. PICK len \in Nat :
         /\ len = Len(toClient) /\ toClient' \in Seq(Nat) /\ Len(toClient') = len + 1
         /\ toClient'[len + 1] = last
         /\ \A j \in 1 .. len : toClient'[j] = toClient[j]
  <2>1. /\ Append(toClient, last) \in Seq(Nat)
        /\ Len(Append(toClient, last)) = Len(toClient) + 1
        /\ Append(toClient, last)[Len(toClient) + 1] = last
        /\ \A j \in 1 .. Len(toClient) : Append(toClient, last)[j] = toClient[j]
    BY <1>1, Appended
  <2>2. Len(toClient) \in Nat
    BY <1>1, Numbers
  <2> QED
    BY <1>3, <2>1, <2>2, Zenon
<1>5. Typed' /\ Connected'
  BY <1>1, <1>3, <1>4 DEF Typed, Connected
<1>6. AckInv'
  <2>1. PICK ack \in Nat : ack = clc.reliableAcknowledge /\ ack <= last
    BY <1>1, <1>2, Numbers DEF IInv, AckInv
  <2>2. \A j \in 1 .. len : toClient[j] \in Nat /\ toClient[j] \in ack .. last
    BY <1>1, <1>2, <1>4, <2>1 DEF IInv, AckInv
  <2>3. \A j \in 1 .. len + 1 : toClient'[j] \in ack .. last
    <3> TAKE j \in 1 .. len + 1
    <3>1. CASE j = len + 1
      BY <1>4, <2>1, <3>1
    <3>2. CASE j # len + 1
      <4>1. j \in 1 .. len
        BY <3>2
      <4> QED
        BY <1>4, <2>2, <4>1
    <3> QED
      BY <3>1, <3>2
  <2>4. \A j, l \in 1 .. len + 1 : j <= l => toClient'[j] <= toClient'[l]
    <3> SUFFICES ASSUME NEW j \in 1 .. len + 1, NEW l \in 1 .. len + 1, j <= l
                 PROVE  toClient'[j] <= toClient'[l]
      OBVIOUS
    <3>1. CASE l = len + 1
      BY <1>4, <2>1, <2>3, <3>1
    <3>2. CASE l # len + 1
      <4>1. j \in 1 .. len /\ l \in 1 .. len
        BY <3>2
      <4>2. toClient[j] <= toClient[l]
        BY <1>1, <1>4, <4>1 DEF IInv, AckInv
      <4> QED
        BY <1>4, <4>1, <4>2
    <3> QED
      BY <3>1, <3>2
  <2> QED
    BY <1>2, <1>3, <1>4, <2>1, <2>3, <2>4 DEF AckInv
<1>7. ClientInv' /\ IssuedInv' /\ ReceivedInv' /\ MovesInv'
  BY <1>1, <1>3, <1>5
     DEF IInv, ClientInv, IssuedInv, ReceivedInv, MovesInv, InGame, Pending
<1>8. ToServerInv' /\ RepeatInv'
  BY <1>1, <1>3, <1>5
     DEF IInv, ToServerInv, CarriesCommands, CarriesMoves, AsGiven, LastIn,
         RepeatInv, ServerReached, MessageReached, OutPacketsReach, InGame
<1> QED
  BY <1>5, <1>6, <1>7, <1>8 DEF IInv

(***************************************************************************)
(* The network loses a client message.                                     *)
(***************************************************************************)
LEMMA LoseToServerKeeps == ASSUME IInv, LoseToServer PROVE IInv'
<1>1. /\ Typed /\ toServer # << >> /\ toServer' = Tail(toServer) /\ missed' = OneMoreMissed
      /\ UNCHANGED <<clc, cl, toClient, issued, moves, received, moved>>
  BY DEF IInv, LoseToServer
<1>2. toServer' \in Seq(MessageType) /\ missed' \in 0 .. cl_packetdup + 1
  BY <1>1, OldestToServerLeaves, MissedMore
<1>3. Typed'
  BY <1>1, <1>2 DEF Typed
<1>4. ClientInv' /\ IssuedInv' /\ AckInv' /\ ReceivedInv' /\ MovesInv'
  BY <1>1
     DEF IInv, ClientInv, IssuedInv, AckInv, ReceivedInv, MovesInv, InGame, Connected, Pending
<1>5. ToServerInv'
  <2>1. cl.lastClientCommand <= cl'.lastClientCommand
    BY <1>1, Numbers
  <2> QED
    BY <1>1, <1>3, <2>1, LeavesCarried DEF IInv
<1>6. RepeatInv'
  <2>1. MessageReached' /\ (ServerReached => ServerReached') /\ (OutPacketsReach => OutPacketsReach')
    BY <1>1, LeavesReached, MissedReaches DEF IInv, RepeatInv
  <2> QED
    BY <1>1, <2>1 DEF IInv, RepeatInv, InGame, Connected
<1> QED
  BY <1>3, <1>4, <1>5, <1>6 DEF IInv

(***************************************************************************)
(* The same towards the client.                                            *)
(***************************************************************************)
LEMMA LoseToClientKeeps == ASSUME IInv, LoseToClient PROVE IInv'
<1>1. /\ Typed /\ toClient # << >> /\ toClient' = Tail(toClient) /\ toClient \in Seq(Nat)
      /\ UNCHANGED <<clc, cl, toServer, issued, moves, received, moved, missed>>
  BY DEF IInv, Typed, LoseToClient, server
<1>2. PICK len \in Nat :
         /\ len = Len(toClient) /\ toClient' \in Seq(Nat) /\ Len(toClient') = len - 1
         /\ \A j \in 1 .. len - 1 : j + 1 \in 1 .. len /\ toClient'[j] = toClient[j + 1]
  BY <1>1, OldestLeaves, Numbers
<1>3. Typed'
  BY <1>1, <1>2 DEF Typed
<1>4. IssuedInv'
  <2>1. Connected
    BY <1>1 DEF IInv, IssuedInv
  <2> QED
    BY <1>1, <2>1 DEF IInv, IssuedInv, Connected
<1>5. AckInv'
  <2> SUFFICES ASSUME Connected
               PROVE  /\ clc.reliableAcknowledge <= cl.lastClientCommand
                      /\ \A i \in 1 .. len - 1 :
                            toClient'[i] \in clc.reliableAcknowledge .. cl.lastClientCommand
                      /\ \A i, j \in 1 .. len - 1 : i <= j => toClient'[i] <= toClient'[j]
    BY <1>1, <1>2 DEF AckInv, Connected
  <2>1. ASSUME NEW i \in 1 .. len - 1, NEW j \in 1 .. len - 1, i <= j
        PROVE  toClient'[i] <= toClient'[j]
    <3>1. i + 1 <= j + 1
      BY <2>1
    <3> QED
      BY <1>2, <3>1 DEF IInv, AckInv
  <2> QED
    BY <1>2, <2>1 DEF IInv, AckInv
<1>6. ClientInv' /\ ReceivedInv' /\ MovesInv'
  BY <1>1 DEF IInv, ClientInv, ReceivedInv, MovesInv, InGame, Connected, Pending
<1>7. ToServerInv' /\ RepeatInv'
  BY <1>1
     DEF IInv, ToServerInv, CarriesCommands, CarriesMoves, AsGiven, LastIn, Connected,
         RepeatInv, ServerReached, MessageReached, OutPacketsReach, InGame
<1> QED
  BY <1>3, <1>4, <1>5, <1>6, <1>7 DEF IInv

(***************************************************************************)
(* What is left of a sequence from a place on.                             *)
(***************************************************************************)
LEMMA Rest ==
  ASSUME NEW S, NEW s \in Seq(S), NEW start \in Nat, start >= 1, NEW len \in Nat, len = Len(s),
         NEW left, left = SubSeq(s, start, len)
  PROVE  /\ left \in Seq(S)
         /\ Len(left) = IF start <= len THEN len - start + 1 ELSE 0
         /\ \A k \in 1 .. len - start + 1 : left[k] = s[start + k - 1]
<1>1. \A j \in start .. len : s[j] \in S
  OBVIOUS
<1> QED
  BY <1>1, SubSeqProperties

(***************************************************************************)
(* The commands of a message behind the last one received.                 *)
(***************************************************************************)
Behind(s, last, first) == SubSeq(s, Max({1, last - first + 2}), Len(s))

LeftOf(left, s, last, first) ==
    /\ Len(left) \in Nat
    /\ first + Len(s) - 1 <= last + Len(left)
    /\ \A k \in 1 .. Len(left) : \E j \in 1 .. Len(s) :
           /\ left[k] = s[j] /\ first + j - 1 = last + k
           /\ j = 1 => k = 1 /\ first = last + 1

LEMMA CommandsLeft ==
  ASSUME NEW S, NEW s \in Seq(S), NEW last \in Nat, NEW first \in Nat,
         first >= 1, first <= last + 1,
         NEW left, left = Behind(s, last, first)
  PROVE  left \in Seq(S) /\ LeftOf(left, s, last, first)
<1>1. PICK start \in Nat : start = last - first + 2
  OBVIOUS
<1>2. start >= 1
  BY <1>1
<1>3. Max({1, start}) = start
  BY <1>2, MaxOfTwo
<1>4. PICK len \in Nat : len = Len(s)
  OBVIOUS
<1>5. left = SubSeq(s, start, len)
  BY <1>1, <1>3, <1>4 DEF Behind
<1>6. /\ left \in Seq(S)
      /\ Len(left) = IF start <= len THEN len - start + 1 ELSE 0
      /\ \A k \in 1 .. len - start + 1 : left[k] = s[start + k - 1]
  BY <1>2, <1>4, <1>5, Rest
<1>7. PICK n \in Nat : n = Len(left)
  BY <1>6
<1>8. CASE start <= len
  <2>1. n = len - start + 1
    BY <1>6, <1>7, <1>8
  <2>2. first + len - 1 <= last + n
    BY <1>1, <2>1
  <2>3. ASSUME NEW k \in 1 .. n
        PROVE  \E j \in 1 .. len : /\ left[k] = s[j] /\ first + j - 1 = last + k
                                   /\ j = 1 => k = 1 /\ first = last + 1
    <3>1. PICK j \in Nat : j = start + k - 1
      BY <1>2
    <3>2. j \in 1 .. len /\ first + j - 1 = last + k
      BY <1>1, <1>2, <2>1, <3>1
    <3>3. j = 1 => k = 1 /\ first = last + 1
      BY <1>1, <1>2, <3>1
    <3>4. left[k] = s[j]
      BY <1>6, <2>1, <3>1
    <3> QED
      BY <3>2, <3>3, <3>4
  <2> QED
    BY <1>4, <1>6, <1>7, <2>2, <2>3, Zenon DEF LeftOf
<1>9. CASE ~(start <= len)
  <2>1. n = 0
    BY <1>6, <1>7, <1>9
  <2>2. first + len - 1 <= last + n
    BY <1>1, <1>9, <2>1
  <2>3. 1 .. n = {}
    BY <2>1
  <2> QED
    BY <1>4, <1>6, <1>7, <2>2, <2>3, Zenon DEF LeftOf
<1> QED
  BY <1>8, <1>9

(***************************************************************************)
(* The fresh commands of a message begin right behind those received,      *)
(* and are the ones given next; only the first may be the disconnect that  *)
(* found the ring full.                                                    *)
(***************************************************************************)
GivenNext(fresh, k) ==
    \/ fresh[k] = issued[cl.lastClientCommand + k]
    \/ /\ k = 1 /\ ~Connected /\ cl.lastClientCommand + 1 < Len(issued)
       /\ fresh[k] = issued[Len(issued)]

LEMMA FreshSound ==
  ASSUME Typed, NEW m \in MessageType, CarriesCommands(m), NEW fresh, fresh = Fresh(m)
  PROVE  /\ fresh \in Seq(Command)
         /\ Len(fresh) \in Nat
         /\ LastIn(m) <= cl.lastClientCommand + Len(fresh)
         /\ \A k \in 1 .. Len(fresh) :
                cl.lastClientCommand + k <= Len(issued) /\ GivenNext(fresh, k)
<1>1. cl.lastClientCommand \in Nat /\ m.first \in Nat /\ m.commands \in Seq(Command)
  BY Numbers, MessageNumbers
<1>2. m.first >= 1 /\ m.first <= cl.lastClientCommand + 1
  BY <1>1 DEF CarriesCommands
<1>3. fresh = Behind(m.commands, cl.lastClientCommand, m.first)
  BY DEF Fresh, Behind
<1>4. fresh \in Seq(Command) /\ LeftOf(fresh, m.commands, cl.lastClientCommand, m.first)
  BY <1>1, <1>2, <1>3, CommandsLeft
<1>5. ASSUME NEW k \in 1 .. Len(fresh)
      PROVE  cl.lastClientCommand + k <= Len(issued) /\ GivenNext(fresh, k)
  <2>1. PICK j \in 1 .. Len(m.commands) :
            /\ fresh[k] = m.commands[j] /\ m.first + j - 1 = cl.lastClientCommand + k
            /\ j = 1 => k = 1 /\ m.first = cl.lastClientCommand + 1
    BY <1>4 DEF LeftOf
  <2>2. m.first + j - 1 <= Len(issued) /\ AsGiven(m, j)
    BY DEF CarriesCommands
  <2>3. cl.lastClientCommand + k <= Len(issued)
    BY <2>1, <2>2
  <2>4. GivenNext(fresh, k)
    <3>1. CASE m.commands[j] = issued[m.first + j - 1]
      <4>1. fresh[k] = issued[cl.lastClientCommand + k]
        BY <2>1, <3>1
      <4> QED
        BY <4>1 DEF GivenNext
    <3>2. CASE j = 1 /\ ~Connected /\ m.first < Len(issued) /\ m.commands[j] = issued[Len(issued)]
      <4>1. k = 1 /\ cl.lastClientCommand + 1 < Len(issued) /\ fresh[k] = issued[Len(issued)]
        BY <2>1, <3>2
      <4> QED
        BY <3>2, <4>1 DEF GivenNext
    <3> QED
      BY <2>2, <3>1, <3>2 DEF AsGiven
  <2> QED
    BY <2>3, <2>4
<1>6. LastIn(m) <= cl.lastClientCommand + Len(fresh)
  BY <1>4 DEF LastIn, LeftOf
<1> QED
  BY <1>4, <1>5, <1>6, Zenon DEF LeftOf

(***************************************************************************)
(* The disconnect among the fresh commands: the client has left.           *)
(***************************************************************************)
LEMMA DisconnectFresh ==
  ASSUME Typed, IssuedInv, NEW fresh, NEW k \in Nat, k >= 1,
         cl.lastClientCommand + k <= Len(issued), GivenNext(fresh, k)
  PROVE  /\ fresh[k].kind = "disconnect" => ~Connected /\ fresh[k] = issued[Len(issued)]
         /\ fresh[k].kind # "disconnect" => fresh[k] = issued[cl.lastClientCommand + k]
<1>1. cl.lastClientCommand \in Nat /\ Len(issued) \in Nat
  BY Numbers
<1>2. PICK n \in 1 .. Len(issued) : n = cl.lastClientCommand + k
  BY <1>1
<1>3. issued[n].kind = "disconnect" => n = Len(issued) /\ ~Connected
  BY DEF IssuedInv
<1>4. ~Connected => issued[Len(issued)].kind = "disconnect"
  BY DEF IssuedInv
<1> QED
  BY <1>2, <1>3, <1>4 DEF GivenNext

(***************************************************************************)
(* The numbers from one to another.                                        *)
(***************************************************************************)
Run(first, to) == [k \in 1 .. to - first + 1 |-> first + k - 1]

LEMMA RunOfNumbers ==
  ASSUME NEW first \in Nat, NEW to \in Nat
  PROVE  /\ Run(first, to) \in Seq(Nat)
         /\ ~(to >= first) => Run(first, to) = << >>
         /\ to >= first =>
               /\ Len(Run(first, to)) = to - first + 1
               /\ \A k \in 1 .. to - first + 1 : Run(first, to)[k] = first + k - 1
<1>1. CASE to >= first
  <2>1. PICK n \in Nat : n = to - first + 1
    BY <1>1
  <2>2. Run(first, to) = [k \in 1 .. n |-> first + k - 1]
    BY <2>1 DEF Run
  <2>3. \A k \in 1 .. n : first + k - 1 \in Nat
    OBVIOUS
  <2> QED
    BY <1>1, <2>1, <2>2, <2>3
<1>2. CASE ~(to >= first)
  <2>1. 1 .. to - first + 1 = {}
    BY <1>2
  <2>2. Run(first, to) = << >>
    BY <2>1 DEF Run
  <2> QED
    BY <1>2, <2>2
<1> QED
  BY <1>1, <1>2

(***************************************************************************)
(* The moves taken from a message: those after the last one taken, in      *)
(* order, up to the last of the message.                                   *)
(***************************************************************************)
Later(from, to, last) == Run(Max({from, last + 1}), to)

TakenAfter(new, from, to, last) ==
    /\ new \in Seq(Nat)
    /\ \A k \in 1 .. Len(new) : new[k] > last /\ new[k] <= to
    /\ \A k, l \in 1 .. Len(new) : k < l => new[k] < new[l]
    /\ Max({last, to}) = IF new = << >> THEN last ELSE new[Len(new)]
    /\ new # << >> /\ from <= last + 1 => new[1] = last + 1

LEMMA MovesLeft ==
  ASSUME NEW from \in Nat, NEW to \in Nat, NEW last \in Nat, from >= 1, from <= to,
         NEW new, new = Later(from, to, last)
  PROVE  TakenAfter(new, from, to, last)
<1>1. PICK first \in Nat :
         /\ first = Max({from, last + 1})
         /\ first = IF from >= last + 1 THEN from ELSE last + 1
  BY MaxOfTwo
<1>2. /\ from >= last + 1 => first = from
      /\ ~(from >= last + 1) => first = last + 1
  BY <1>1
<1>3. new = Run(first, to)
  BY <1>1 DEF Later
<1>4. Max({last, to}) = IF last >= to THEN last ELSE to
  BY MaxOfTwo
<1>5. CASE to >= first
  <2>1. PICK n \in Nat : n = to - first + 1 /\ n >= 1
    BY <1>5
  <2>2. new \in Seq(Nat) /\ Len(new) = n
    BY <1>3, <1>5, <2>1, RunOfNumbers
  <2>3. \A k \in 1 .. n : new[k] = first + k - 1
    <3>1. \A k \in 1 .. to - first + 1 : Run(first, to)[k] = first + k - 1
      BY <1>5, RunOfNumbers
    <3> QED
      BY <1>3, <2>1, <3>1
  <2>4. new[n] = to /\ new[1] = first /\ new # << >>
    <3>1. n \in 1 .. n /\ 1 \in 1 .. n /\ first + n - 1 = to /\ first + 1 - 1 = first
      BY <2>1
    <3>2. new # << >>
      BY <2>1, <2>2
    <3> QED
      BY <2>3, <3>1, <3>2
  <2>5. Max({last, to}) = new[n]
    <3>1. ~(last >= to)
      BY <1>5, <1>2
    <3> QED
      BY <1>4, <2>4, <3>1
  <2>6. ASSUME NEW k \in 1 .. n
        PROVE  new[k] > last /\ new[k] <= to
    <3>1. first > last /\ first + k - 1 <= to
      BY <1>2, <2>1
    <3>2. first + k - 1 > last
      BY <3>1
    <3> QED
      BY <2>3, <3>1, <3>2
  <2>7. \A k, l \in 1 .. n : k < l => new[k] < new[l]
    BY <2>3
  <2>8. from <= last + 1 => new[1] = last + 1
    BY <1>2, <2>4
  <2> QED
    BY <2>2, <2>4, <2>5, <2>6, <2>7, <2>8, Zenon DEF TakenAfter
<1>6. CASE ~(to >= first)
  <2>1. new = << >>
    BY <1>3, <1>6, RunOfNumbers
  <2>2. Max({last, to}) = last
    <3>1. last >= to
      BY <1>6, <1>2
    <3> QED
      BY <1>4, <3>1
  <2>3. 1 .. Len(new) = {}
    BY <2>1
  <2>4. new \in Seq(Nat)
    BY <2>1
  <2> QED
    BY <2>1, <2>2, <2>3, <2>4, Zenon DEF TakenAfter
<1> QED
  BY <1>5, <1>6

(***************************************************************************)
(* The same of NewMoves.                                                   *)
(***************************************************************************)
LEMMA NewMovesSound ==
  ASSUME Typed, NEW m \in MessageType, m.firstMove >= 1, m.firstMove <= m.lastMove,
         NEW new, new = NewMoves(m)
  PROVE  TakenAfter(new, m.firstMove, m.lastMove, cl.lastUsercmd)
<1>1. m.firstMove \in Nat /\ m.lastMove \in Nat /\ cl.lastUsercmd \in Nat
  BY Numbers, MessageNumbers
<1>2. new = Later(m.firstMove, m.lastMove, cl.lastUsercmd)
  BY DEF NewMoves, Later, Run
<1> QED
  BY <1>1, <1>2, MovesLeft

(***************************************************************************)
(* Two sequences, one behind the other.                                    *)
(***************************************************************************)
JoinOf(st, s, t) ==
    /\ Len(st) = Len(s) + Len(t)
    /\ Grows(s, st)
    /\ \A k \in 1 .. Len(t) : st[Len(s) + k] = t[k]

LEMMA Joined ==
  ASSUME NEW S, NEW s \in Seq(S), NEW t \in Seq(S), NEW st, st = s \o t
  PROVE  st \in Seq(S) /\ JoinOf(st, s, t)
<1>1. Len(s) \in Nat /\ Len(t) \in Nat
  OBVIOUS
<1>2. st \in Seq(S) /\ Len(st) = Len(s) + Len(t)
  OBVIOUS
<1>3. Grows(s, st)
  BY <1>1, <1>2 DEF Grows
<1>4. ASSUME NEW k \in 1 .. Len(t) PROVE st[Len(s) + k] = t[k]
  BY <1>1
<1> QED
  BY <1>2, <1>3, <1>4, Zenon DEF JoinOf

(***************************************************************************)
(* The first elements of a sequence.                                       *)
(***************************************************************************)
LEMMA FirstOf ==
  ASSUME NEW S, NEW s \in Seq(S), NEW n \in 0 .. Len(s), NEW t, t = SubSeq(s, 1, n)
  PROVE  /\ t \in Seq(S)
         /\ Len(t) = n
         /\ \A k \in 1 .. n : t[k] = s[k]
<1>1. \A j \in 1 .. n : s[j] \in S
  OBVIOUS
<1>2. /\ SubSeq(s, 1, n) \in Seq(S)
      /\ Len(SubSeq(s, 1, n)) = IF 1 <= n THEN n - 1 + 1 ELSE 0
      /\ \A k \in 1 .. n - 1 + 1 : SubSeq(s, 1, n)[k] = s[1 + k - 1]
  BY <1>1, SubSeqProperties
<1> QED
  BY <1>2

(***************************************************************************)
(* The commands the server carries out from a message: those given next,   *)
(* or the disconnect of a client that has left.                            *)
(***************************************************************************)
CarriedTo(done, m, n) ==
    /\ Len(done) = cl.lastClientCommand + n
    /\ Len(done) <= Len(issued)
    /\ Grows(received, done)
    /\ Leaves(m, n) => ~Connected /\ n > 0 /\ done[Len(done)] = issued[Len(issued)]
    /\ Leaves(m, n) /\ Len(done) # Len(issued) => n = 1
    /\ \A k \in 1 .. Len(done) :
          \/ done[k] = issued[k] /\ done[k].kind # "disconnect"
          \/ Leaves(m, n) /\ k = Len(done)

LEMMA CommandsCarriedOut ==
  ASSUME IInv, InGame, NEW m \in MessageType, CarriesCommands(m),
         NEW n \in 0 .. Len(Fresh(m)), Executable(m, n),
         NEW done, done = received \o SubSeq(Fresh(m), 1, n)
  PROVE  done \in Seq(Command) /\ CarriedTo(done, m, n)
<1>1. PICK fresh \in Seq(Command) :
         /\ fresh = Fresh(m)
         /\ \A k \in 1 .. Len(fresh) :
                cl.lastClientCommand + k <= Len(issued) /\ GivenNext(fresh, k)
  BY FreshSound DEF IInv
<1>2. PICK first \in Seq(Command) : first = SubSeq(fresh, 1, n)
  BY <1>1, FirstOf
<1>3. Len(first) = n /\ \A k \in 1 .. n : first[k] = fresh[k]
  BY <1>1, <1>2, FirstOf
<1>4. received \in Seq(Command) /\ done = received \o first
  BY <1>1, <1>2 DEF IInv, Typed
<1>5. /\ done \in Seq(Command)
      /\ Len(done) = Len(received) + n
      /\ Grows(received, done)
      /\ \A k \in 1 .. n : done[Len(received) + k] = first[k]
  <2>1. done \in Seq(Command) /\ JoinOf(done, received, first)
    BY <1>4, Joined
  <2> QED
    BY <1>3, <2>1, Zenon DEF JoinOf
<1>6. PICK last \in Nat : last = cl.lastClientCommand /\ last = Len(received)
  BY Numbers DEF IInv, ReceivedInv
<1>7. n \in Nat /\ Len(issued) \in Nat
  BY Numbers DEF IInv
<1>8. ASSUME NEW k \in 1 .. n
      PROVE  /\ k <= Len(fresh) /\ last + k <= Len(issued)
             /\ done[last + k] = fresh[k]
             /\ fresh[k].kind = "disconnect" => ~Connected /\ fresh[k] = issued[Len(issued)]
             /\ fresh[k].kind # "disconnect" => fresh[k] = issued[last + k]
  <2>1. k \in 1 .. Len(fresh) /\ k \in Nat /\ k >= 1
    BY <1>1
  <2>2. cl.lastClientCommand + k <= Len(issued) /\ GivenNext(fresh, k)
    BY <1>1, <2>1
  <2>3. /\ fresh[k].kind = "disconnect" => ~Connected /\ fresh[k] = issued[Len(issued)]
        /\ fresh[k].kind # "disconnect" => fresh[k] = issued[cl.lastClientCommand + k]
    BY <2>1, <2>2, DisconnectFresh DEF IInv
  <2>4. done[last + k] = fresh[k]
    BY <1>3, <1>5, <1>6
  <2> QED
    BY <1>6, <2>1, <2>2, <2>3, <2>4
<1>9. Len(done) <= Len(issued)
  <2>1. CASE n = 0
    <3>1. Len(received) <= Len(issued)
      BY DEF IInv, ReceivedInv
    <3> QED
      BY <1>5, <1>6, <1>7, <2>1, <3>1
  <2>2. CASE n >= 1
    <3>1. last + n <= Len(issued)
      BY <1>7, <1>8, <2>2
    <3> QED
      BY <1>5, <1>6, <3>1
  <2> QED
    BY <1>7, <2>1, <2>2
<1>10. Leaves(m, n) => ~Connected /\ n > 0 /\ done[Len(done)] = issued[Len(issued)]
  <2> SUFFICES ASSUME Leaves(m, n)
               PROVE  ~Connected /\ n > 0 /\ done[Len(done)] = issued[Len(issued)]
    OBVIOUS
  <2>1. n > 0 /\ fresh[n].kind = "disconnect"
    BY <1>1 DEF Leaves
  <2>2. n \in 1 .. n
    BY <1>7, <2>1
  <2>3. ~Connected /\ fresh[n] = issued[Len(issued)] /\ done[last + n] = fresh[n]
    BY <1>8, <2>1, <2>2
  <2> QED
    BY <1>5, <1>6, <2>1, <2>3
<1>11. Leaves(m, n) /\ Len(done) # Len(issued) => n = 1
  <2> SUFFICES ASSUME Leaves(m, n), n # 1
               PROVE  Len(done) = Len(issued)
    OBVIOUS
  <2>1. n > 0 /\ fresh[n].kind = "disconnect"
    BY <1>1 DEF Leaves
  <2>2. n \in 1 .. n /\ n \in 1 .. Len(fresh)
    BY <1>1, <1>7, <2>1
  <2>3. last + n <= Len(issued) /\ GivenNext(fresh, n)
    BY <1>1, <1>6, <2>2
  <2>4. fresh[n] = issued[last + n]
    BY <1>6, <2>3 DEF GivenNext
  <2>5. last + n \in 1 .. Len(issued)
    BY <1>6, <1>7, <2>1, <2>3
  <2>6. last + n = Len(issued)
    BY <2>1, <2>4, <2>5 DEF IInv, IssuedInv
  <2> QED
    BY <1>5, <1>6, <2>6
<1>12. ASSUME NEW k \in 1 .. Len(done)
       PROVE  \/ done[k] = issued[k] /\ done[k].kind # "disconnect"
              \/ Leaves(m, n) /\ k = Len(done)
  <2>1. CASE k <= last
    <3>1. k \in 1 .. Len(received)
      BY <1>6, <2>1
    <3>2. received[k] = issued[k] /\ received[k].kind # "disconnect"
      BY <3>1 DEF IInv, ReceivedInv
    <3>3. done[k] = received[k]
      BY <1>5, <3>1 DEF Grows
    <3> QED
      BY <3>2, <3>3
  <2>2. CASE k > last
    <3>1. PICK j \in 1 .. n : k = last + j
      <4>1. k \in Nat /\ k <= last + n
        BY <1>5, <1>6, <1>7
      <4>2. k - last \in 1 .. n
        BY <1>7, <2>2, <4>1
      <4>3. k = last + (k - last)
        BY <4>1
      <4> QED
        BY <4>2, <4>3
    <3>2. done[k] = fresh[j]
      BY <1>8, <3>1
    <3>3. CASE fresh[j].kind # "disconnect"
      BY <1>8, <3>1, <3>2, <3>3
    <3>4. CASE fresh[j].kind = "disconnect"
      <4>1. ~(j \in 1 .. n - 1)
        BY <1>1, <3>4 DEF Executable
      <4>2. j = n /\ n > 0
        BY <1>7, <4>1
      <4>3. k = Len(done)
        BY <1>5, <1>6, <3>1, <4>2
      <4>4. Leaves(m, n)
        BY <1>1, <3>4, <4>2 DEF Leaves
      <4> QED
        BY <4>3, <4>4
    <3> QED
      BY <3>3, <3>4
  <2> QED
    BY <1>6, <2>1, <2>2
<1> QED
  BY <1>5, <1>6, <1>9, <1>10, <1>11, <1>12, Zenon DEF CarriedTo

(***************************************************************************)
(* Increasing numbers, and behind them greater ones.                       *)
(***************************************************************************)
LastOf(s) == IF s = << >> THEN 0 ELSE s[Len(s)]
IsIncreasing(s) == \A i, j \in 1 .. Len(s) : i < j => s[i] < s[j]
UpTo(s, last) == \A k \in 1 .. Len(s) : s[k] \in 1 .. last
From(s, first) == \A k \in 1 .. Len(s) : s[k] > first

LEMMA StillIncreasing ==
  ASSUME NEW s \in Seq(Nat), NEW t \in Seq(Nat), NEW st \in Seq(Nat), JoinOf(st, s, t),
         NEW to \in Nat, NEW all \in Nat, to <= all,
         UpTo(s, all), IsIncreasing(s), NEW last \in Nat, last = LastOf(s),
         UpTo(t, to), From(t, last), IsIncreasing(t)
  PROVE  /\ UpTo(st, all)
         /\ \A j \in Len(s) + 1 .. Len(st) : st[j] \in 1 .. to
         /\ IsIncreasing(st)
         /\ LastOf(st) = IF t = << >> THEN last ELSE t[Len(t)]
<1>1. PICK before \in Nat, more \in Nat : before = Len(s) /\ more = Len(t)
  OBVIOUS
<1>2. /\ Len(st) = before + more
      /\ \A k \in 1 .. before : st[k] = s[k]
      /\ \A k \in 1 .. more : st[before + k] = t[k]
  BY <1>1, Zenon DEF JoinOf, Grows
<1>3. /\ \A k \in 1 .. more : t[k] \in Nat /\ t[k] > last /\ t[k] <= to
      /\ \A k, l \in 1 .. more : k < l => t[k] < t[l]
  BY <1>1 DEF IsIncreasing, UpTo, From
<1>4. /\ \A k \in 1 .. before : s[k] \in Nat /\ s[k] >= 1 /\ s[k] <= all
      /\ \A k, l \in 1 .. before : k < l => s[k] < s[l]
  BY <1>1 DEF IsIncreasing, UpTo
<1>5. last = IF s = << >> THEN 0 ELSE s[before]
  BY <1>1 DEF LastOf
<1>6. \A k \in 1 .. before : s[k] <= last
  <2> TAKE k \in 1 .. before
  <2>1. s # << >>
    BY <1>1
  <2>2. last = s[before]
    BY <1>5, <2>1
  <2>3. k = before \/ k < before
    OBVIOUS
  <2>4. before \in 1 .. before
    OBVIOUS
  <2>5. k < before => s[k] < s[before]
    BY <1>4, <2>4
  <2>6. s[k] \in Nat /\ s[before] \in Nat
    BY <1>4, <2>4
  <2> QED
    BY <2>2, <2>3, <2>5, <2>6
<1>7. ASSUME NEW j \in 1 .. before + more
      PROVE  \/ j \in 1 .. before
             \/ j > before /\ \E k \in 1 .. more : j = before + k
  <2>1. CASE j <= before
    BY <2>1
  <2>2. CASE j > before
    <3>1. j - before \in 1 .. more /\ j = before + (j - before)
      BY <2>2
    <3> QED
      BY <2>2, <3>1
  <2> QED
    BY <2>1, <2>2
<1>8. ASSUME NEW k \in 1 .. more PROVE st[before + k] > last /\ st[before + k] \in 1 .. to
  <2>1. st[before + k] = t[k]
    BY <1>2
  <2>2. t[k] \in Nat /\ t[k] > last /\ t[k] <= to
    BY <1>3
  <2> QED
    BY <2>1, <2>2
<1>9. ASSUME NEW j \in 1 .. before + more
      PROVE  st[j] \in 1 .. all /\ (j > before => st[j] > last /\ st[j] \in 1 .. to)
  <2>1. CASE j \in 1 .. before
    <3>1. st[j] = s[j] /\ ~(j > before)
      BY <1>2, <2>1
    <3>2. s[j] \in 1 .. all
      BY <1>4, <2>1
    <3> QED
      BY <3>1, <3>2
  <2>2. CASE j > before /\ \E k \in 1 .. more : j = before + k
    <3>1. st[j] > last /\ st[j] \in 1 .. to
      BY <1>8, <2>2
    <3> QED
      BY <3>1
  <2> QED
    BY <1>7, <2>1, <2>2
<1>10. ASSUME NEW i \in 1 .. before + more, NEW j \in 1 .. before + more, i < j
       PROVE  st[i] < st[j]
  <2>1. CASE i \in 1 .. before /\ j \in 1 .. before
    <3>1. st[i] = s[i] /\ st[j] = s[j]
      BY <1>2, <2>1
    <3>2. s[i] < s[j]
      BY <1>4, <1>10, <2>1
    <3> QED
      BY <3>1, <3>2
  <2>2. CASE i \in 1 .. before /\ j > before
    <3>1. st[i] = s[i] /\ s[i] \in Nat /\ s[i] <= last
      BY <1>2, <1>4, <1>6, <2>2
    <3>2. st[j] \in Nat /\ st[j] > last
      BY <1>9, <2>2
    <3>3. \A x, y \in Nat : x <= last /\ y > last => x < y
      OBVIOUS
    <3> QED
      BY <3>1, <3>2, <3>3, Zenon
  <2>3. ASSUME NEW k \in 1 .. more, NEW l \in 1 .. more, i = before + k, j = before + l
        PROVE  st[i] < st[j]
    <3>1. k < l
      BY <1>10, <2>3
    <3>2. t[k] < t[l]
      BY <1>3, <3>1
    <3>3. st[i] = t[k] /\ st[j] = t[l]
      BY <1>2, <2>3
    <3> QED
      BY <3>2, <3>3
  <2>4. ~(i > before /\ j \in 1 .. before)
    BY <1>10
  <2> QED
    BY <1>7, <2>1, <2>2, <2>3, <2>4
<1>11. LastOf(st) = IF t = << >> THEN last ELSE t[more]
  <2>1. CASE more = 0
    <3>1. t = << >>
      <4>1. Len(t) = 0
        BY <1>1, <2>1
      <4> QED
        BY <4>1, EmptySeq
    <3>2. Len(st) = before
      BY <1>2, <2>1
    <3>3. st = << >> <=> s = << >>
      <4>1. st = << >> <=> Len(st) = 0
        OBVIOUS
      <4>2. s = << >> <=> Len(s) = 0
        OBVIOUS
      <4> QED
        BY <1>1, <3>2, <4>1, <4>2
    <3>4. s # << >> => st[before] = s[before]
      <4>1. s # << >> => before \in 1 .. before
        BY <1>1
      <4> QED
        BY <1>2, <4>1
    <3> QED
      BY <1>5, <3>1, <3>2, <3>3, <3>4, Zenon DEF LastOf
  <2>2. CASE more >= 1
    <3>1. more \in 1 .. more /\ t # << >>
      BY <1>1, <2>2
    <3>2. st # << >>
      BY <1>2, <2>2
    <3> QED
      BY <1>2, <3>1, <3>2 DEF LastOf
  <2> QED
    BY <2>1, <2>2
<1>12. ASSUME NEW j \in before + 1 .. before + more PROVE st[j] \in 1 .. to
  <2>1. j \in 1 .. before + more /\ j > before
    OBVIOUS
  <2> QED
    BY <1>9, <2>1
<1> QED
  BY <1>1, <1>2, <1>9, <1>10, <1>11, <1>12, Zenon DEF IsIncreasing, UpTo

(***************************************************************************)
(* The moves the server carries out from a message: made after those       *)
(* carried out so far, each once, and none made after a command that the   *)
(* message does not hold.                                                  *)
(***************************************************************************)
LEMMA MovesCarriedOut ==
  ASSUME Typed, MovesInv, NEW m \in MessageType, CarriesMoves(m), m.firstMove <= m.lastMove,
         NEW taken, taken = moved \o NewMoves(m)
  PROVE  /\ taken \in Seq(Nat)
         /\ JoinOf(taken, moved, NewMoves(m))
         /\ UpTo(taken, Len(moves))
         /\ IsIncreasing(taken)
         /\ Max({cl.lastUsercmd, m.lastMove}) = LastOf(taken)
         /\ \A j \in Len(moved) + 1 .. Len(taken) : moves[taken[j]] <= LastIn(m)
<1>1. cl.lastUsercmd \in Nat /\ m.lastMove \in Nat /\ Len(moves) \in Nat
  BY Numbers, MessageNumbers
<1>2. PICK new \in Seq(Nat) :
         new = NewMoves(m) /\ TakenAfter(new, m.firstMove, m.lastMove, cl.lastUsercmd)
  BY NewMovesSound DEF CarriesMoves, TakenAfter
<1>3. moved \in Seq(Nat) /\ taken = moved \o new
  BY <1>2 DEF Typed
<1>4. taken \in Seq(Nat) /\ JoinOf(taken, moved, new)
  BY <1>3, Joined
<1>5. m.lastMove <= Len(moves)
  BY DEF CarriesMoves
<1>6. UpTo(moved, Len(moves)) /\ IsIncreasing(moved) /\ cl.lastUsercmd = LastOf(moved)
  BY DEF MovesInv, UpTo, IsIncreasing, LastOf
<1>7. /\ UpTo(new, m.lastMove) /\ From(new, cl.lastUsercmd) /\ IsIncreasing(new)
      /\ Max({cl.lastUsercmd, m.lastMove}) =
             IF new = << >> THEN cl.lastUsercmd ELSE new[Len(new)]
  <2>1. UpTo(new, m.lastMove)
    BY <1>1, <1>2 DEF TakenAfter, UpTo
  <2> QED
    BY <1>2, <2>1, Zenon DEF TakenAfter, From, IsIncreasing
<1>8. /\ UpTo(taken, Len(moves))
      /\ \A j \in Len(moved) + 1 .. Len(taken) : taken[j] \in 1 .. m.lastMove
      /\ IsIncreasing(taken)
      /\ LastOf(taken) = IF new = << >> THEN cl.lastUsercmd ELSE new[Len(new)]
  BY <1>1, <1>3, <1>4, <1>5, <1>6, <1>7, StillIncreasing
<1>9. \A j \in Len(moved) + 1 .. Len(taken) : moves[taken[j]] <= LastIn(m)
  BY <1>8 DEF CarriesMoves
<1> QED
  BY <1>2, <1>4, <1>7, <1>8, <1>9, Zenon

(***************************************************************************)
(* The server reads the oldest message: nothing, if the client is dropped; *)
(* else it carries out the first n of the fresh commands.  It never finds  *)
(* that commands were lost.                                                *)
(***************************************************************************)
Carries(m, n, acked) ==
    LET read == MovesRead(m, n, acked)
    IN  /\ Executable(m, n)
        /\ cl.state = "active" => acked
        /\ received' = received \o SubSeq(Fresh(m), 1, n)
        /\ \E some \in SUBSET Ignorable(m, n) : ignored' = ignored \cup some
        /\ moved' = IF read THEN moved \o NewMoves(m) ELSE moved
        /\ missed' = IF read THEN 0 ELSE OneMoreMissed
        /\ cl' = [cl EXCEPT !.lastClientCommand = @ + n,
                            !.lastUsercmd = IF read THEN Max({@, m.lastMove}) ELSE @,
                            !.state = IF Leaves(m, n) THEN "zombie"
                                      ELSE IF read THEN "active" ELSE @]

LEMMA NeverLost ==
  ASSUME Typed, NEW m \in MessageType, CarriesCommands(m)
  PROVE  ~Lost(m)
<1>1. cl.lastClientCommand \in Nat /\ m.first \in Nat
  BY Numbers, MessageNumbers
<1>2. m.first <= cl.lastClientCommand + 1
  BY <1>1 DEF CarriesCommands
<1> QED
  BY <1>1, <1>2 DEF Lost

(***************************************************************************)
(* So a message is carried out, or the client is dropped already.          *)
(***************************************************************************)
LEMMA ReceiveStep ==
  ASSUME IInv, ServerReceives
  PROVE  /\ toServer # << >> /\ toServer' = Tail(toServer)
         /\ UNCHANGED <<clc, toClient, issued, moves>>
         /\ \E m \in MessageType :
               /\ m = toServer[1] /\ CarriesCommands(m) /\ CarriesMoves(m)
               /\ \/ ~InGame /\ UNCHANGED server
                  \/ InGame /\ \E n \in 0 .. Len(Fresh(m)), acked \in BOOLEAN : Carries(m, n, acked)
<1>1. toServer # << >>
  BY DEF ServerReceives
<1>2. /\ toServer' = Tail(toServer)
      /\ UNCHANGED <<clc, toClient, issued, moves>>
  BY DEF ServerReceives, SV_ExecuteClientMessage
<1>3. PICK m \in MessageType : m = toServer[1] /\ m = Head(toServer)
  BY <1>1, <1>2, OldestToServerLeaves DEF IInv
<1>4. CarriesCommands(m) /\ CarriesMoves(m)
  <2>1. 1 \in 1 .. Len(toServer)
    BY <1>1, <1>2, OldestToServerLeaves DEF IInv
  <2> QED
    BY <1>3, <2>1 DEF IInv, ToServerInv
<1>5. ~Lost(m)
  BY <1>4, NeverLost DEF IInv
<1>6. PICK n \in 0 .. Len(Fresh(m)), acked \in BOOLEAN : SV_ExecuteClientMessage(n, acked)
  BY <1>3 DEF ServerReceives
<1>7. CASE ~InGame
  <2>1. UNCHANGED server
    BY <1>6, <1>7 DEF SV_ExecuteClientMessage
  <2> QED
    BY <1>1, <1>2, <1>3, <1>4, <1>7, <2>1
<1>8. CASE InGame
  <2>1. Carries(m, n, acked)
    BY <1>3, <1>5, <1>6, <1>8 DEF SV_ExecuteClientMessage, Carries
  <2> QED
    BY <1>1, <1>2, <1>3, <1>4, <1>6, <1>8, <2>1
<1> QED
  BY <1>7, <1>8

(***************************************************************************)
(* The client_t behind it.                                                 *)
(***************************************************************************)
LEMMA CarriesServer ==
  ASSUME Typed, InGame, NEW m \in MessageType, NEW n \in 0 .. Len(Fresh(m)), NEW acked \in BOOLEAN,
         Len(Fresh(m)) \in Nat, Carries(m, n, acked)
  PROVE  /\ cl' \in ServerType
         /\ cl'.lastClientCommand = cl.lastClientCommand + n
         /\ MovesRead(m, n, acked) => cl'.lastUsercmd = Max({cl.lastUsercmd, m.lastMove})
         /\ ~MovesRead(m, n, acked) => cl'.lastUsercmd = cl.lastUsercmd
         /\ cl'.state = "zombie" <=> Leaves(m, n)
         /\ cl'.lastUsercmd >= cl.lastUsercmd
<1>1. cl \in ServerType /\ cl.lastClientCommand \in Nat /\ cl.lastUsercmd \in Nat
  BY Numbers DEF Typed
<1>2. m.lastMove \in Nat
  BY MessageNumbers
<1>3. PICK top \in Nat : top = Max({cl.lastUsercmd, m.lastMove}) /\ top >= cl.lastUsercmd
  BY <1>1, <1>2, MaxOfTwo
<1>4. PICK command \in Nat : command = cl.lastClientCommand + n
  BY <1>1
<1>5. PICK usercmd \in Nat : /\ usercmd = IF MovesRead(m, n, acked) THEN top ELSE cl.lastUsercmd
                             /\ usercmd >= cl.lastUsercmd
  BY <1>1, <1>3
<1>6. PICK state \in {"primed", "active", "zombie"} :
         state = IF Leaves(m, n) THEN "zombie"
                 ELSE IF MovesRead(m, n, acked) THEN "active" ELSE cl.state
  BY <1>1 DEF ServerType
<1>7. cl' = [cl EXCEPT !.lastClientCommand = command, !.lastUsercmd = usercmd, !.state = state]
  BY <1>3, <1>4, <1>5, <1>6 DEF Carries
<1>8. cl' \in ServerType /\ cl'.lastClientCommand = command /\ cl'.lastUsercmd = usercmd
      /\ cl'.state = state
  BY <1>1, <1>7 DEF ServerType
<1>9. state = "zombie" <=> Leaves(m, n)
  BY <1>6 DEF InGame
<1> QED
  BY <1>3, <1>4, <1>5, <1>8, <1>9

(***************************************************************************)
(* The server has taken the moves of the oldest message: the ones behind   *)
(* it go on from there.                                                    *)
(***************************************************************************)
LEMMA ReadReaches ==
  ASSUME Typed, toServer # << >>, toServer' = Tail(toServer), missed' = 0, UNCHANGED clc,
         cl'.lastUsercmd \in Nat, cl'.lastUsercmd >= toServer[1].lastMove
  PROVE  /\ MessageReached => ServerReached'
         /\ OutPacketsReach => OutPacketsReach'
<1>1. PICK sent \in Nat : sent = Len(toServer)
  BY Numbers
<1>2. /\ Len(toServer') = sent - 1
      /\ \A i \in 1 .. sent - 1 : i + 1 \in 1 .. sent /\ toServer'[i] = toServer[i + 1]
      /\ 1 \in 1 .. sent /\ toServer[1] \in MessageType
  BY <1>1, OldestToServerLeaves
<1>3. PICK last \in Nat, read \in Nat :
         last = toServer[1].lastMove /\ read = cl'.lastUsercmd /\ read >= last
  BY <1>2, MessageNumbers
<1>4. PICK dup \in Nat : dup = cl_packetdup
  BY Constant
<1>5. ASSUME MessageReached
      PROVE  ServerReached'
  <2> SUFFICES ASSUME NEW i \in 1 .. sent - 1, 0 + i <= dup + 1
               PROVE  Continues(toServer'[i], read)
    BY <1>2, <1>3, <1>4 DEF ServerReached
  <2>1. PICK k \in 1 .. sent : k = i + 1 /\ toServer'[i] = toServer[k]
    BY <1>2
  <2>2. 1 < k /\ k - 1 <= dup + 1
    BY <2>1
  <2>3. Continues(toServer[k], last)
    BY <1>1, <1>2, <1>3, <1>4, <1>5, <2>2 DEF MessageReached
  <2>4. PICK from \in Nat : from = toServer[k].firstMove
    <3>1. toServer[k] \in MessageType
      BY <1>1 DEF Typed
    <3> QED
      BY <3>1, MessageNumbers
  <2>5. from <= last + 1 => from <= read + 1
    BY <1>3
  <2> QED
    BY <2>1, <2>3, <2>4, <2>5 DEF Continues
<1>6. ASSUME OutPacketsReach
      PROVE  OutPacketsReach'
  <2> SUFFICES ASSUME NEW k \in Messages
               PROVE  /\ clc.outPackets[k] <= clc.cmdNumber
                      /\ 0 + (sent - 1) + k <= dup + 1 => clc.outPackets[k] <= read
                      /\ \A i \in 1 .. sent - 1 :
                             (sent - 1) - i + k <= dup + 1 =>
                                 clc.outPackets[k] <= toServer'[i].lastMove
    BY <1>2, <1>3, <1>4 DEF OutPacketsReach
  <2>1. PICK out \in Nat : out = clc.outPackets[k]
    BY Numbers
  <2>2. /\ clc.outPackets[k] <= clc.cmdNumber
        /\ \A i \in 1 .. sent : sent - i + k <= dup + 1 => out <= toServer[i].lastMove
    BY <1>1, <1>4, <1>6, <2>1 DEF OutPacketsReach
  <2>3. k \in Nat /\ k >= 1
    BY Constant DEF Messages
  <2>4. ASSUME 0 + (sent - 1) + k <= dup + 1
        PROVE  out <= read
    <3>1. sent - 1 + k <= dup + 1
      BY <2>3, <2>4
    <3>2. out <= last
      BY <1>2, <1>3, <2>2, <3>1
    <3> QED
      BY <1>3, <3>2
  <2>5. ASSUME NEW i \in 1 .. sent - 1, (sent - 1) - i + k <= dup + 1
        PROVE  out <= toServer'[i].lastMove
    <3>1. PICK j \in 1 .. sent : j = i + 1 /\ toServer'[i] = toServer[j]
      BY <1>2
    <3>2. sent - j + k <= dup + 1
      BY <2>3, <2>5, <3>1
    <3> QED
      BY <2>2, <3>1, <3>2
  <2> QED
    BY <2>1, <2>2, <2>4, <2>5
<1> QED
  BY <1>5, <1>6

(***************************************************************************)
(* A client the server has dropped: the message is not read.               *)
(***************************************************************************)
LEMMA IgnoreKeeps ==
  ASSUME IInv, ~InGame, UNCHANGED server, toServer # << >>, toServer' = Tail(toServer),
         UNCHANGED <<clc, toClient, issued, moves>>
  PROVE  IInv'
<1>1. /\ Typed
      /\ UNCHANGED <<clc, cl, toClient, issued, moves, received, moved, missed>>
  BY DEF IInv, server
<1>2. toServer' \in Seq(MessageType)
  BY <1>1, OldestToServerLeaves
<1>3. Typed'
  BY <1>1, <1>2 DEF Typed
<1>4. ClientInv' /\ IssuedInv' /\ AckInv' /\ ReceivedInv' /\ MovesInv'
  BY <1>1
     DEF IInv, ClientInv, IssuedInv, AckInv, ReceivedInv, MovesInv, InGame, Connected, Pending
<1>5. ToServerInv'
  <2>1. cl.lastClientCommand <= cl'.lastClientCommand
    BY <1>1, Numbers
  <2> QED
    BY <1>1, <1>3, <2>1, LeavesCarried DEF IInv
<1>6. RepeatInv'
  <2>1. MessageReached'
    BY <1>1, LeavesReached DEF IInv, RepeatInv
  <2>2. ~InGame' /\ ~Connected'
    BY <1>1 DEF IInv, ReceivedInv, InGame, Connected
  <2> QED
    BY <2>1, <2>2 DEF RepeatInv
<1> QED
  BY <1>3, <1>4, <1>5, <1>6 DEF IInv

(***************************************************************************)
(* The server carries out a message.                                       *)
(***************************************************************************)
LEMMA CarryKeeps ==
  ASSUME IInv, InGame, toServer # << >>, toServer' = Tail(toServer),
         UNCHANGED <<clc, toClient, issued, moves>>,
         NEW m \in MessageType, m = toServer[1], CarriesCommands(m), CarriesMoves(m),
         NEW n \in 0 .. Len(Fresh(m)), NEW acked \in BOOLEAN, Carries(m, n, acked)
  PROVE  IInv'
<1>1. Typed /\ UNCHANGED <<clc, toClient, issued, moves>>
  BY DEF IInv
<1>2. Len(Fresh(m)) \in Nat /\ n \in Nat
  BY <1>1, FreshSound
<1>3. Executable(m, n) /\ received' = received \o SubSeq(Fresh(m), 1, n)
  BY DEF Carries
<1>4. received' \in Seq(Command) /\ CarriedTo(received', m, n)
  BY <1>3, CommandsCarriedOut
<1>5. /\ cl' \in ServerType
      /\ cl'.lastClientCommand = cl.lastClientCommand + n
      /\ MovesRead(m, n, acked) => cl'.lastUsercmd = Max({cl.lastUsercmd, m.lastMove})
      /\ ~MovesRead(m, n, acked) => cl'.lastUsercmd = cl.lastUsercmd
      /\ cl'.state = "zombie" <=> Leaves(m, n)
  BY <1>1, <1>2, CarriesServer
<1>6. /\ MovesRead(m, n, acked) => moved' = moved \o NewMoves(m) /\ missed' = 0
      /\ ~MovesRead(m, n, acked) => moved' = moved /\ missed' = OneMoreMissed
  BY DEF Carries
<1>7. /\ moved' \in Seq(Nat)
      /\ UpTo(moved', Len(moves)) /\ IsIncreasing(moved')
      /\ cl'.lastUsercmd = LastOf(moved')
  <2>1. CASE MovesRead(m, n, acked)
    <3>1. m.firstMove <= m.lastMove /\ moved' = moved \o NewMoves(m)
      BY <1>6, <2>1 DEF MovesRead
    <3> QED
      BY <1>1, <1>5, <2>1, <3>1, MovesCarriedOut DEF IInv
  <2>2. CASE ~MovesRead(m, n, acked)
    <3>1. moved' = moved /\ cl'.lastUsercmd = cl.lastUsercmd /\ moved \in Seq(Nat)
      BY <1>1, <1>5, <1>6, <2>2 DEF Typed
    <3>2. UpTo(moved, Len(moves)) /\ IsIncreasing(moved) /\ cl.lastUsercmd = LastOf(moved)
      BY DEF IInv, MovesInv, UpTo, IsIncreasing, LastOf
    <3> QED
      BY <3>1, <3>2
  <2> QED
    BY <2>1, <2>2
<1>8. Typed'
  <2>1. toServer' \in Seq(MessageType)
    BY <1>1, OldestToServerLeaves
  <2>2. missed' \in 0 .. cl_packetdup + 1
    <3>1. 0 \in 0 .. cl_packetdup + 1
      BY Constant
    <3> QED
      BY <1>1, <1>6, <3>1, MissedMore
  <2> QED
    BY <1>1, <1>4, <1>5, <1>7, <2>1, <2>2 DEF Typed
<1>9. ClientInv' /\ IssuedInv'
  BY <1>1 DEF IInv, ClientInv, IssuedInv, Connected, Pending
<1>10. cl.lastClientCommand <= cl'.lastClientCommand
  BY <1>1, <1>2, <1>5, Numbers
<1>11. AckInv'
  <2> SUFFICES ASSUME Connected
               PROVE  /\ clc.reliableAcknowledge <= cl'.lastClientCommand
                      /\ \A i \in 1 .. Len(toClient) :
                            toClient[i] \in clc.reliableAcknowledge .. cl'.lastClientCommand
                      /\ \A i, j \in 1 .. Len(toClient) : i <= j => toClient[i] <= toClient[j]
    BY <1>1 DEF AckInv, Connected
  <2>1. PICK ack \in Nat, old \in Nat, new \in Nat :
           /\ ack = clc.reliableAcknowledge /\ old = cl.lastClientCommand
           /\ new = cl'.lastClientCommand /\ old <= new
    <3>1. clc.reliableAcknowledge \in Nat /\ cl.lastClientCommand \in Nat
      BY <1>1, Numbers
    <3>2. cl'.lastClientCommand \in Nat
      BY <1>5 DEF ServerType
    <3> QED
      BY <1>10, <3>1, <3>2
  <2>2. ack <= old /\ \A i \in 1 .. Len(toClient) : toClient[i] \in ack .. old
    BY <2>1 DEF IInv, AckInv
  <2>3. ack <= new /\ \A i \in 1 .. Len(toClient) : toClient[i] \in ack .. new
    <3>1. old <= new
      BY <2>1
    <3>2. \A x \in ack .. old : x \in ack .. new
      BY <3>1
    <3> QED
      BY <2>2, <3>1, <3>2
  <2> QED
    BY <2>1, <2>3 DEF IInv, AckInv
<1>12. ReceivedInv'
  <2>1. Len(received') = cl'.lastClientCommand
    BY <1>4, <1>5 DEF CarriedTo
  <2>2. InGame' => ~Leaves(m, n)
    BY <1>5 DEF InGame
  <2>3. Connected' => InGame'
    BY <1>1, <1>4, <1>5 DEF CarriedTo, InGame, Connected
  <2> QED
    BY <1>1, <1>4, <2>1, <2>2, <2>3 DEF CarriedTo, ReceivedInv
<1>13. ToServerInv'
  BY <1>1, <1>8, <1>10, LeavesCarried DEF IInv
<1>14. MovesInv'
  BY <1>1, <1>7 DEF IInv, MovesInv, UpTo, IsIncreasing, LastOf
<1>15. RepeatInv'
  <2>1. MessageReached'
    BY <1>1, LeavesReached DEF IInv, RepeatInv
  <2>2. ServerReached /\ MessageReached /\ (Connected => OutPacketsReach)
    BY DEF IInv, RepeatInv
  <2>3. ServerReached' /\ (OutPacketsReach => OutPacketsReach')
    <3>1. CASE MovesRead(m, n, acked)
      <4>1. cl'.lastUsercmd \in Nat /\ cl'.lastUsercmd >= m.lastMove /\ missed' = 0
        <5>1. cl.lastUsercmd \in Nat /\ m.lastMove \in Nat
          BY <1>1, Numbers, MessageNumbers
        <5>2. cl'.lastUsercmd = Max({cl.lastUsercmd, m.lastMove})
          BY <1>5, <3>1
        <5>3. PICK top \in Int : /\ top = Max({cl.lastUsercmd, m.lastMove})
                                /\ top >= cl.lastUsercmd /\ top >= m.lastMove
          BY <5>1, MaxOfTwo
        <5> QED
          BY <1>6, <3>1, <5>1, <5>2, <5>3
      <4> QED
        BY <1>1, <2>2, <4>1, ReadReaches
    <3>2. CASE ~MovesRead(m, n, acked)
      BY <1>1, <1>5, <1>6, <2>2, <3>2, MissedReaches
    <3> QED
      BY <3>1, <3>2
  <2> QED
    BY <1>1, <2>1, <2>2, <2>3 DEF RepeatInv, Connected
<1> QED
  BY <1>8, <1>9, <1>11, <1>12, <1>13, <1>14, <1>15 DEF IInv

(***************************************************************************)
(* The server receives a message.                                          *)
(***************************************************************************)
LEMMA ReceiveKeeps == ASSUME IInv, ServerReceives PROVE IInv'
  BY ReceiveStep, IgnoreKeeps, CarryKeeps

(***************************************************************************)
(* The start: nothing was given, nothing is in flight.                     *)
(***************************************************************************)
LEMMA InitSound == ASSUME Init PROVE IInv
<1>1. clc \in ClientType /\ cl \in ServerType
  BY WipedType DEF Init, ServerType
<1>2. /\ toServer = << >> /\ toClient = << >> /\ issued = << >> /\ moves = << >>
      /\ received = << >> /\ moved = << >> /\ missed = 0
      /\ clc = Wiped("primed") /\ cl.lastClientCommand = 0 /\ cl.lastUsercmd = 0
      /\ cl.state = "primed"
  BY DEF Init
<1>3. /\ clc.state = "primed" /\ clc.reliableSequence = 0 /\ clc.reliableAcknowledge = 0
      /\ clc.cmdNumber = 0 /\ \A k \in Messages : clc.outPackets[k] = 0
  BY <1>2 DEF Wiped, Messages
<1>4. Typed
  BY <1>1, <1>2, Constant DEF Typed
<1>5. Len(issued) = 0 /\ Len(moves) = 0 /\ Len(received) = 0 /\ Len(moved) = 0
      /\ Len(toServer) = 0 /\ Len(toClient) = 0
  BY <1>2
<1>6. 1 .. 0 = {}
  OBVIOUS
<1>7. ClientInv
  BY <1>3, <1>5, <1>6, Constant DEF ClientInv, Pending
<1>8. IssuedInv /\ AckInv /\ ReceivedInv /\ ToServerInv /\ MovesInv
  BY <1>2, <1>3, <1>5, <1>6
     DEF IssuedInv, AckInv, ReceivedInv, ToServerInv, MovesInv, Connected, InGame
<1>9. RepeatInv
  BY <1>2, <1>3, <1>5, <1>6, Constant
     DEF RepeatInv, ServerReached, MessageReached, OutPacketsReach
<1> QED
  BY <1>4, <1>7, <1>8, <1>9 DEF IInv

(***************************************************************************)
(* A step in which nothing happens.                                        *)
(***************************************************************************)
LEMMA StutterKeeps == ASSUME IInv, UNCHANGED vars PROVE IInv'
<1>1. UNCHANGED <<clc, cl, toServer, toClient, issued, moves, received, moved, missed>>
  BY DEF vars
<1>2. Typed' /\ ClientInv'
  BY <1>1 DEF IInv, Typed, ClientInv, Connected, Pending
<1>3. IssuedInv' /\ AckInv' /\ ReceivedInv' /\ MovesInv'
  BY <1>1 DEF IInv, IssuedInv, AckInv, ReceivedInv, MovesInv, Connected, InGame
<1>4. ToServerInv'
  BY <1>1 DEF IInv, ToServerInv, CarriesCommands, CarriesMoves, AsGiven, LastIn, Connected
<1>5. RepeatInv'
  BY <1>1 DEF IInv, RepeatInv, ServerReached, MessageReached, OutPacketsReach,
              Connected, InGame
<1> QED
  BY <1>2, <1>3, <1>4, <1>5 DEF IInv

(***************************************************************************)
(* The invariant holds in every state a client and a server reach.         *)
(***************************************************************************)
THEOREM Inductive == Spec => []IInv
<1>1. Init => IInv
  BY InitSound
<1>2. IInv /\ [Next]_vars => IInv'
  BY AddKeeps, MoveKeeps, WriteKeeps, DisconnectKeeps, ParseKeeps, AnswerKeeps,
     ReceiveKeeps, LoseToServerKeeps, LoseToClientKeeps, StutterKeeps DEF Next
<1> QED
  BY <1>1, <1>2, PTL DEF Spec

(***************************************************************************)
(* What is ignored: game commands that were given next, of a client in the *)
(* game.                                                                   *)
(***************************************************************************)
LEMMA IgnorableGiven ==
  ASSUME IInv, NEW m \in MessageType, CarriesCommands(m), NEW n \in 0 .. Len(Fresh(m)),
         NEW k \in Ignorable(m, n)
  PROVE  /\ cl.state = "active"
         /\ k \in Len(received) + 1 .. Len(received) + n
         /\ issued[k].kind = "game"
<1>1. PICK fresh \in Seq(Command) :
         /\ fresh = Fresh(m)
         /\ \A i \in 1 .. Len(fresh) :
                cl.lastClientCommand + i <= Len(issued) /\ GivenNext(fresh, i)
  BY FreshSound DEF IInv
<1>2. PICK last \in Nat : last = cl.lastClientCommand /\ last = Len(received)
  BY Numbers DEF IInv, ReceivedInv
<1>3. /\ k \in last + 1 .. last + n /\ cl.state = "active"
      /\ fresh[k - last].kind = "game" /\ n \in Nat
  BY <1>1, <1>2 DEF Ignorable
<1>4. PICK i \in 1 .. n : k = last + i
  <2>1. k - last \in 1 .. n /\ k = last + (k - last)
    BY <1>2, <1>3
  <2> QED
    BY <2>1
<1>5. /\ i \in Nat /\ i >= 1 /\ fresh[i].kind = "game"
      /\ cl.lastClientCommand + i <= Len(issued) /\ GivenNext(fresh, i)
  <2>1. i \in 1 .. Len(fresh) /\ k - last = i
    BY <1>1, <1>2, <1>3, <1>4
  <2> QED
    BY <1>1, <1>3, <2>1
<1>6. fresh[i] = issued[cl.lastClientCommand + i]
  BY <1>5, DisconnectFresh DEF IInv
<1> QED
  BY <1>2, <1>3, <1>4, <1>5, <1>6

(***************************************************************************)
(* Every step keeps what IgnoredInv says.                                  *)
(***************************************************************************)
LEMMA IgnoredKept == ASSUME IInv, IInv', IgnoredInv, [Next]_vars PROVE IgnoredInv'
<1>1. CASE ServerReceives
  <2>1. PICK m \in MessageType :
           /\ CarriesCommands(m) /\ CarriesMoves(m)
           /\ \/ ~InGame /\ UNCHANGED server
              \/ InGame /\ \E n \in 0 .. Len(Fresh(m)), acked \in BOOLEAN : Carries(m, n, acked)
    BY <1>1, ReceiveStep
  <2>2. CASE ~InGame /\ UNCHANGED server
    BY <2>2 DEF server, IgnoredInv
  <2>3. ASSUME InGame, NEW n \in 0 .. Len(Fresh(m)), NEW acked \in BOOLEAN, Carries(m, n, acked)
        PROVE  IgnoredInv'
    <3>1. Typed /\ Typed' /\ Len(Fresh(m)) \in Nat
      BY <2>1, FreshSound DEF IInv
    <3>2. ignored' \subseteq 1 .. Len(received')
      <4>1. /\ Len(received) \in Nat /\ Len(received') \in Nat /\ n \in Nat
            /\ Len(received') = Len(received) + n
        <5>1. cl'.lastClientCommand = cl.lastClientCommand + n
          BY <2>1, <2>3, <3>1, CarriesServer
        <5> QED
          BY <3>1, <5>1 DEF IInv, ReceivedInv, Typed
      <4>2. ignored' \subseteq ignored \cup Ignorable(m, n)
        BY <2>3 DEF Carries
      <4>3. Ignorable(m, n) \subseteq Len(received) + 1 .. Len(received) + n
        BY <2>1, IgnorableGiven
      <4>4. ignored \subseteq 1 .. Len(received)
        BY DEF IgnoredInv
      <4> QED
        BY <4>1, <4>2, <4>3, <4>4
    <3>3. cl'.state = "active" => moved' # << >>
      <4>1. CASE MovesRead(m, n, acked)
        <5>1. /\ m.firstMove <= m.lastMove /\ m.firstMove >= 1
              /\ moved' = moved \o NewMoves(m)
          BY <2>1, <2>3, <4>1 DEF Carries, MovesRead, CarriesMoves
        <5>2. /\ JoinOf(moved', moved, NewMoves(m))
              /\ cl'.lastUsercmd = Max({cl.lastUsercmd, m.lastMove})
          BY <2>1, <2>3, <3>1, <4>1, <5>1, MovesCarriedOut, CarriesServer DEF IInv
        <5>3. m.lastMove \in Nat /\ cl.lastUsercmd \in Nat /\ m.firstMove \in Nat
          BY <3>1, Numbers, MessageNumbers
        <5>4. cl'.lastUsercmd >= 1
          BY <5>1, <5>2, <5>3, MaxOfTwo
        <5> QED
          BY <5>4 DEF IInv, MovesInv
      <4>2. CASE ~MovesRead(m, n, acked)
        <5>1. moved' = moved /\ (cl'.state = "active" => cl.state = "active")
          BY <2>3, <3>1, <4>2 DEF Carries, Typed, ServerType
        <5> QED
          BY <5>1 DEF IgnoredInv
      <4> QED
        BY <4>1, <4>2
    <3> QED
      BY <3>2, <3>3 DEF IgnoredInv
  <2> QED
    BY <2>1, <2>2, <2>3
<1>2. CASE ~ServerReceives
  <2>1. UNCHANGED <<cl, received, ignored, moved>>
    BY <1>2 DEF Next, vars, server, CL_AddReliableCommand, CL_CreateNewCommands, CL_WritePacket,
         CL_Disconnect, CL_ParseServerMessage, SV_SendMessage, LoseToServer, LoseToClient
  <2> QED
    BY <2>1 DEF IgnoredInv
<1> QED
  BY <1>1, <1>2

(***************************************************************************)
(* What is ignored was received, and a client is active only when it has   *)
(* moved.                                                                  *)
(***************************************************************************)
THEOREM IgnoredInductive == Spec => []IgnoredInv
<1>1. Init => IgnoredInv
  BY DEF Init, IgnoredInv
<1>2. IInv /\ IInv' /\ IgnoredInv /\ [Next]_vars => IgnoredInv'
  BY IgnoredKept
<1> QED
  BY <1>1, <1>2, Inductive, PTL DEF Spec

-----------------------------------------------------------------------------
(***************************************************************************)
(* The values of the variables: in particular no message holds more        *)
(* commands than the ring and a disconnect.                                *)
(***************************************************************************)
THEOREM TypeCorrect == Spec => []TypeOK
<1>1. ASSUME IInv, IgnoredInv PROVE TypeOK
  <2>1. Typed
    BY <1>1 DEF IInv
  <2>2. clc \in [state : {"primed", "disconnected"}, reliableSequence : Nat,
                 reliableAcknowledge : Nat,
                 reliableCommands : [0 .. MAX_RELIABLE_COMMANDS - 1 -> Command],
                 cmdNumber : Nat, outPackets : [1 .. cl_packetdup + 1 -> Nat]]
    BY <2>1 DEF Typed, ClientType, Ring, Messages
  <2>3. cl \in [state : {"primed", "active", "zombie"}, lastClientCommand : Nat,
                lastUsercmd : Nat]
    BY <2>1 DEF Typed, ServerType
  <2>4. ASSUME NEW i \in 1 .. Len(toServer)
        PROVE  /\ {toServer[i].first, toServer[i].firstMove, toServer[i].lastMove} \subseteq Nat
               /\ Len(toServer[i].commands) <= MAX_RELIABLE_COMMANDS + 1
               /\ Range(toServer[i].commands) \subseteq Command
    <3>1. PICK m \in MessageType : m = toServer[i]
      BY <2>1 DEF Typed
    <3>2. CarriesCommands(m)
      BY <1>1, <3>1 DEF IInv, ToServerInv
    <3>3. Range(m.commands) \subseteq Command
      BY MessageNumbers DEF Range
    <3> QED
      BY <3>1, <3>2, <3>3, MessageNumbers DEF CarriesCommands
  <2> QED
    BY <1>1, <2>1, <2>2, <2>3, <2>4 DEF Typed, TypeOK, IgnoredInv
<1> QED
  BY <1>1, Inductive, IgnoredInductive, PTL

(***************************************************************************)
(* The server never finds that commands were lost; the client never gives  *)
(* commands up and never finds the server ahead of it.                     *)
(***************************************************************************)
THEOREM NeverGivesUp == Spec => []NothingGivenUp
<1>1. ASSUME IInv PROVE NothingGivenUp
  <2>1. ASSUME NEW i \in 1 .. Len(toServer) PROVE ~Lost(toServer[i])
    <3>1. toServer[i] \in MessageType
      BY <1>1 DEF IInv, Typed
    <3> QED
      BY <1>1, <3>1, NeverLost DEF IInv, ToServerInv
  <2>2. ASSUME Connected, NEW i \in 1 .. Len(toClient)
        PROVE  clc.reliableSequence - toClient[i] \in 0 .. MAX_RELIABLE_COMMANDS
    BY <1>1, <2>2, Acknowledged
  <2> QED
    BY <2>1, <2>2 DEF NothingGivenUp
<1> QED
  BY <1>1, Inductive, PTL

(***************************************************************************)
(* The moves a step takes: none, or those of the oldest message.           *)
(***************************************************************************)
LEMMA MovedStep ==
  ASSUME IInv, [Next]_vars, moved' # moved
  PROVE  /\ ServerReceives /\ InGame /\ 1 \in 1 .. Len(toServer)
         /\ \E m \in MessageType :
               /\ m = toServer[1] /\ m = Head(toServer) /\ CarriesMoves(m)
               /\ m.firstMove <= m.lastMove /\ moved' = moved \o NewMoves(m)
<1>1. ServerReceives
  BY DEF vars, server, Next, CL_AddReliableCommand, CL_CreateNewCommands, CL_WritePacket,
         CL_Disconnect, CL_ParseServerMessage, SV_SendMessage, LoseToServer, LoseToClient
<1>2. toServer # << >> /\ toServer' = Tail(toServer)
  BY <1>1, ReceiveStep
<1>3. PICK m \in MessageType :
         /\ m = toServer[1] /\ CarriesMoves(m)
         /\ \/ ~InGame /\ UNCHANGED server
            \/ InGame /\ \E n \in 0 .. Len(Fresh(m)), acked \in BOOLEAN : Carries(m, n, acked)
  BY <1>1, ReceiveStep
<1>4. PICK n \in 0 .. Len(Fresh(m)), acked \in BOOLEAN : InGame /\ Carries(m, n, acked)
  BY <1>3 DEF server
<1>5. MovesRead(m, n, acked) /\ moved' = moved \o NewMoves(m)
  BY <1>4 DEF Carries
<1>6. Head(toServer) = toServer[1] /\ 1 \in 1 .. Len(toServer)
  BY <1>2, OldestToServerLeaves DEF IInv
<1> QED
  BY <1>1, <1>3, <1>4, <1>5, <1>6 DEF MovesRead

(***************************************************************************)
(* A move is left out only if more messages in a row were missed than      *)
(* moves are repeated in, or if the message is full.                       *)
(***************************************************************************)
THEOREM NoMoveLeftOut == Spec => MovesCarriedOver
<1>1. ASSUME IInv, [Next]_vars, moved' # moved
      PROVE  LET m == Head(toServer)
             IN  \/ missed > cl_packetdup
                 \/ m.lastMove - m.firstMove + 1 = MAX_PACKET_USERCMDS
                 \/ moved'[Len(moved) + 1] = cl.lastUsercmd + 1
  <2>1. PICK m \in MessageType :
           /\ InGame /\ 1 \in 1 .. Len(toServer)
           /\ m = toServer[1] /\ m = Head(toServer) /\ CarriesMoves(m)
           /\ m.firstMove <= m.lastMove /\ moved' = moved \o NewMoves(m)
    BY <1>1, MovedStep
  <2>2. Typed /\ ServerReached
    BY <1>1, <2>1 DEF IInv, RepeatInv
  <2>3. PICK n \in Nat, dup \in Nat : n = missed /\ dup = cl_packetdup
    BY <2>2, Numbers, Constant
  <2>4. CASE n > dup
    BY <2>1, <2>3, <2>4
  <2>5. CASE ~(n > dup) /\ FullMessage(m)
    BY <2>1, <2>5 DEF FullMessage
  <2>6. CASE ~(n > dup) /\ ~FullMessage(m)
    <3>1. n + 1 <= dup + 1
      BY <2>6
    <3>2. Continues(m, cl.lastUsercmd)
      BY <2>1, <2>2, <2>3, <3>1 DEF ServerReached
    <3>3. m.firstMove <= cl.lastUsercmd + 1
      BY <2>6, <3>2 DEF Continues
    <3>4. PICK new \in Seq(Nat) :
             new = NewMoves(m) /\ TakenAfter(new, m.firstMove, m.lastMove, cl.lastUsercmd)
      BY <2>1, <2>2, NewMovesSound DEF CarriesMoves, TakenAfter
    <3>5. moved \in Seq(Nat) /\ moved' = moved \o new
      BY <2>1, <2>2, <3>4 DEF Typed
    <3>6. JoinOf(moved', moved, new)
      BY <3>5, Joined
    <3>7. new # << >>
      <4>1. new = << >> => moved' = moved
        BY <3>5, ConcatEmptySeq
      <4> QED
        BY <1>1, <4>1
    <3>8. 1 \in 1 .. Len(new)
      BY <3>7
    <3>9. moved'[Len(moved) + 1] = new[1]
      BY <3>6, <3>8, Zenon DEF JoinOf
    <3>10. new[1] = cl.lastUsercmd + 1
      BY <3>3, <3>4, <3>7, Zenon DEF TakenAfter
    <3> QED
      BY <3>9, <3>10
  <2> QED
    BY <2>4, <2>5, <2>6
<1>2. IInv /\ [Next]_vars =>
          [moved' # moved =>
              LET m == Head(toServer)
              IN  \/ missed > cl_packetdup
                  \/ m.lastMove - m.firstMove + 1 = MAX_PACKET_USERCMDS
                  \/ moved'[Len(moved) + 1] = cl.lastUsercmd + 1]_vars
  BY <1>1
<1> QED
  BY <1>2, Inductive, PTL DEF Spec, MovesCarriedOver

-----------------------------------------------------------------------------
(***************************************************************************)
(* What comes behind a sequence is a suffix of another that begins with it.*)
(***************************************************************************)
LEMMA JoinIsPrefix ==
  ASSUME NEW S, NEW s \in Seq(S), NEW t \in Seq(S), Grows(s, t)
  PROVE  IsPrefix(s, t)
<1>1. PICK n \in Nat : n = Len(s) /\ n <= Len(t)
  BY DEF Grows
<1>2. PICK u : u = SubSeq(s, 1, n)
  OBVIOUS
<1>3. PICK v : v = SubSeq(t, 1, n)
  OBVIOUS
<1>4. u \in Seq(S) /\ Len(u) = n /\ \A k \in 1 .. n : u[k] = s[k]
  <2>1. n \in 0 .. Len(s)
    BY <1>1
  <2> QED
    BY <1>2, <2>1, FirstOf
<1>5. v \in Seq(S) /\ Len(v) = n /\ \A k \in 1 .. n : v[k] = t[k]
  <2>1. n \in 0 .. Len(t)
    BY <1>1
  <2> QED
    BY <1>3, <2>1, FirstOf
<1>6. \A k \in 1 .. n : u[k] = v[k]
  BY <1>1, <1>4, <1>5 DEF Grows
<1>7. u = v
  BY <1>4, <1>5, <1>6, SeqEqual
<1> QED
  BY <1>1, <1>2, <1>3, <1>7 DEF IsPrefix

(***************************************************************************)
(* A beginning of the commands given, longer than the one received: the    *)
(* commands between them were received.                                    *)
(***************************************************************************)
LEMMA JoinOfIssued ==
  ASSUME NEW S, NEW all \in Seq(S), NEW s \in Seq(S), NEW t \in Seq(S),
         Grows(s, t), Grows(t, all)
  PROVE  t = s \o SubSeq(all, Len(s) + 1, Len(t))
<1>1. PICK n \in Nat, l \in Nat, a \in Nat :
         n = Len(s) /\ l = Len(t) /\ a = Len(all) /\ n <= l /\ l <= a
  BY DEF Grows
<1>2. PICK u : u = SubSeq(all, n + 1, l)
  OBVIOUS
<1>3. /\ u \in Seq(S) /\ Len(u) = l - n
      /\ \A k \in 1 .. l - n : u[k] = all[n + k]
  <2>1. \A j \in n + 1 .. l : all[j] \in S
    <3>1. \A j \in n + 1 .. l : j \in 1 .. a
      BY <1>1
    <3> QED
      BY <1>1, <3>1
  <2>2. /\ u \in Seq(S)
        /\ Len(u) = IF n + 1 <= l THEN l - (n + 1) + 1 ELSE 0
        /\ \A k \in 1 .. l - (n + 1) + 1 : u[k] = all[(n + 1) + k - 1]
    BY <1>2, <2>1, SubSeqProperties
  <2>3. Len(u) = l - n
    BY <1>1, <2>2
  <2>4. ASSUME NEW k \in 1 .. l - n PROVE u[k] = all[n + k]
    <3>1. k \in 1 .. l - (n + 1) + 1 /\ (n + 1) + k - 1 = n + k
      BY <1>1
    <3> QED
      BY <2>2, <3>1
  <2> QED
    BY <2>2, <2>3, <2>4
<1>4. PICK v : v = s \o u
  OBVIOUS
<1>5. v \in Seq(S) /\ JoinOf(v, s, u)
  BY <1>3, <1>4, Joined
<1>6. Len(v) = l
  BY <1>1, <1>3, <1>5 DEF JoinOf
<1>7. ASSUME NEW k \in 1 .. l PROVE v[k] = t[k]
  <2>1. CASE k <= n
    <3>1. k \in 1 .. n
      BY <2>1
    <3>2. v[k] = s[k] /\ t[k] = s[k]
      BY <1>1, <1>5, <3>1, Zenon DEF JoinOf, Grows
    <3> QED
      BY <3>2
  <2>2. CASE k > n
    <3>1. PICK j \in 1 .. l - n : k = n + j
      <4>1. k - n \in 1 .. l - n /\ k = n + (k - n)
        BY <1>1, <2>2
      <4> QED
        BY <4>1
    <3>2. v[n + j] = u[j]
      BY <1>1, <1>3, <1>5, <3>1, Zenon DEF JoinOf
    <3>3. t[k] = all[k]
      BY <1>1, Zenon DEF Grows
    <3> QED
      BY <1>3, <3>1, <3>2, <3>3
  <2> QED
    BY <1>1, <2>1, <2>2
<1>8. v = t
  BY <1>1, <1>5, <1>6, <1>7, SeqEqual
<1> QED
  BY <1>1, <1>2, <1>4, <1>8

(***************************************************************************)
(* Carrying out a message is carrying out the commands given next and      *)
(* moves made no later, or leaving early.                                  *)
(***************************************************************************)
LEMMA CarryRefines ==
  ASSUME IInv, IgnoredInv, InGame, UNCHANGED <<issued, moves>>, IInv',
         NEW m \in MessageType, CarriesCommands(m), CarriesMoves(m),
         NEW n \in 0 .. Len(Fresh(m)), NEW acked \in BOOLEAN, Carries(m, n, acked)
  PROVE  Requests!Next
<1>1. Typed /\ received \in Seq(Command) /\ issued \in Seq(Command) /\ moved \in Seq(Nat)
  BY DEF IInv, Typed
<1>2. received' = received \o SubSeq(Fresh(m), 1, n) /\ Executable(m, n)
  BY DEF Carries
<1>3. received' \in Seq(Command) /\ CarriedTo(received', m, n)
  BY <1>2, CommandsCarriedOut
<1>4. PICK last \in Nat, new \in Nat, given \in Nat :
         /\ last = Len(received) /\ last = cl.lastClientCommand
         /\ new = Len(received') /\ new = last + n
         /\ given = Len(issued) /\ new <= given
  <2>1. Len(received) = cl.lastClientCommand /\ Len(received') = cl.lastClientCommand + n
    BY <1>3 DEF CarriedTo, IInv, ReceivedInv
  <2>2. n \in Nat
    BY <1>1, FreshSound
  <2>3. Len(received') <= Len(issued)
    BY <1>3 DEF CarriedTo
  <2>4. Len(received) \in Nat /\ Len(received') \in Nat /\ Len(issued) \in Nat
    BY <1>1, <1>3
  <2> QED
    BY <2>1, <2>2, <2>3, <2>4
<1>5. ~Requests!Gone
  <2>1. received # << >> => Len(received) \in 1 .. Len(received)
    BY <1>1
  <2> QED
    BY <2>1 DEF IInv, ReceivedInv, Requests!Gone
<1>6. CASE ~Leaves(m, n) \/ new = given
  <2>1. Grows(received', issued)
    <3>1. ASSUME NEW k \in 1 .. new PROVE received'[k] = issued[k]
      BY <1>3, <1>4, <1>6 DEF CarriedTo
    <3> QED
      BY <1>4, <3>1 DEF Grows
  <2>2. received' = received \o SubSeq(issued, Len(received) + 1, new)
    BY <1>1, <1>3, <1>4, <2>1, JoinOfIssued DEF CarriedTo
  <2>3. new \in Len(received) .. Len(issued)
    BY <1>4
  <2>4. /\ moved' \in Seq(1 .. Len(moves)) /\ Requests!Increasing(moved')
    <3>1. /\ moved' \in Seq(Nat)
          /\ \A j \in 1 .. Len(moved') : moved'[j] \in 1 .. Len(moves)
          /\ \A i, j \in 1 .. Len(moved') : i < j => moved'[i] < moved'[j]
      BY DEF IInv, Typed, MovesInv
    <3>2. moved' \in Seq(1 .. Len(moves))
      BY <3>1
    <3> QED
      BY <3>1, <3>2 DEF Requests!Increasing
  <2>5. /\ Grows(moved, moved')
        /\ \A i \in Len(moved) + 1 .. Len(moved') : moves[moved'[i]] <= new
    <3>1. CASE MovesRead(m, n, acked)
      <4>1. moved' = moved \o NewMoves(m) /\ m.firstMove <= m.lastMove /\ n = Len(Fresh(m))
        BY <3>1 DEF Carries, MovesRead
      <4>2. /\ JoinOf(moved', moved, NewMoves(m))
            /\ moved' \in Seq(Nat) /\ UpTo(moved', Len(moves))
            /\ \A j \in Len(moved) + 1 .. Len(moved') : moves[moved'[j]] <= LastIn(m)
        BY <1>1, <4>1, MovesCarriedOut DEF IInv
      <4>3. PICK end \in Int : end = LastIn(m) /\ end <= new
        <5>1. LastIn(m) \in Int
          BY MessageNumbers DEF LastIn
        <5>2. LastIn(m) <= cl.lastClientCommand + Len(Fresh(m))
          BY <1>1, FreshSound
        <5> QED
          BY <1>4, <4>1, <5>1, <5>2
      <4>4. ASSUME NEW j \in Len(moved) + 1 .. Len(moved') PROVE moves[moved'[j]] <= new
        <5>1. j \in 1 .. Len(moved')
          BY <1>1, <4>2
        <5>2. moved'[j] \in 1 .. Len(moves)
          BY <4>2, <5>1 DEF UpTo
        <5>3. moves[moved'[j]] \in Nat
          <6>1. moves \in Seq(Nat)
            BY DEF IInv, Typed
          <6> QED
            BY <5>2, <6>1
        <5>4. moves[moved'[j]] <= end
          BY <4>2, <4>3
        <5> QED
          BY <4>3, <5>3, <5>4
      <4> QED
        BY <4>2, <4>4 DEF JoinOf
    <3>2. CASE ~MovesRead(m, n, acked)
      <4>1. moved' = moved
        BY <3>2 DEF Carries
      <4>2. Len(moved) + 1 .. Len(moved) = {}
        BY <1>1
      <4>3. Grows(moved, moved)
        BY <1>1 DEF Grows
      <4> QED
        BY <4>1, <4>2, <4>3
    <3> QED
      BY <3>1, <3>2
  <2>6. IsPrefix(moved, moved')
    <3>1. moved' \in Seq(Nat)
      BY DEF IInv, Typed
    <3> QED
      BY <1>1, <2>5, <3>1, JoinIsPrefix
  <2>7. /\ ignored \subseteq ignored'
        /\ \A k \in ignored' \ ignored :
              k \in Len(received) + 1 .. new /\ issued[k].kind = "game" /\ moved # << >>
    <3>1. ignored \subseteq ignored' /\ ignored' \ ignored \subseteq Ignorable(m, n)
      BY DEF Carries
    <3> QED
      BY <1>4, <3>1, IgnorableGiven DEF IgnoredInv
  <2>8. Requests!CarryOut
    BY <1>5, <2>2, <2>3, <2>4, <2>5, <2>6, <2>7
       DEF Requests!CarryOut, Requests!IsPrefix, IsPrefix
  <2> QED
    BY <2>8 DEF Requests!Next
<1>7. CASE Leaves(m, n) /\ new # given
  <2>1. n = 1 /\ new = last + 1 /\ last < given
    BY <1>3, <1>4, <1>7 DEF CarriedTo
  <2>2. ~Connected /\ received'[new] = issued[given]
    BY <1>3, <1>4, <1>7 DEF CarriedTo
  <2>3. issued # << >> /\ issued[given].kind = "disconnect"
    BY <1>4, <2>2 DEF IInv, IssuedInv
  <2>4. received' = Append(received, issued[given])
    <3>1. PICK c \in Command : c = issued[given]
      <4>1. given \in 1 .. Len(issued)
        BY <1>4, <2>1
      <4> QED
        BY <1>1, <4>1
    <3>2. PICK s : s = Append(received, c)
      OBVIOUS
    <3>3. /\ s \in Seq(Command) /\ Len(s) = new /\ s[new] = c
          /\ \A k \in 1 .. last : s[k] = received[k]
      <4>1. /\ Append(received, c) \in Seq(Command)
            /\ Len(Append(received, c)) = Len(received) + 1
            /\ Append(received, c)[Len(received) + 1] = c
            /\ \A k \in 1 .. Len(received) : Append(received, c)[k] = received[k]
        BY <1>1, Appended
      <4> QED
        BY <1>4, <2>1, <3>2, <4>1, Zenon
    <3>4. \A k \in 1 .. last : received'[k] = received[k]
      BY <1>3, <1>4, Zenon DEF CarriedTo, Grows
    <3>5. \A k \in 1 .. new : k = new \/ k \in 1 .. last
      BY <2>1
    <3>6. \A k \in 1 .. new : s[k] = received'[k]
      BY <2>2, <3>1, <3>3, <3>4, <3>5, Zenon
    <3>7. s = received'
      BY <1>3, <1>4, <3>3, <3>6, SeqEqual
    <3> QED
      BY <3>1, <3>2, <3>7
  <2>5. moved' = moved /\ ignored' = ignored
    <3>1. Ignorable(m, n) = {}
      BY <1>4, <1>7, <2>1 DEF Ignorable, Leaves
    <3> QED
      BY <1>7, <3>1 DEF Carries, MovesRead
  <2>6. Requests!LeaveEarly
    BY <1>4, <1>5, <2>1, <2>3, <2>4, <2>5 DEF Requests!LeaveEarly, Requests!Last
  <2> QED
    BY <2>6 DEF Requests!Next
<1> QED
  BY <1>6, <1>7

(***************************************************************************)
(* The client gives a command.                                             *)
(***************************************************************************)
LEMMA GiveRefines ==
  ASSUME IInv, IInv', NEW c, issued' = Append(issued, c),
         UNCHANGED <<moves, received, ignored, moved>>
  PROVE  Requests!Next
<1>1. issued \in Seq(Command) /\ issued' \in Seq(Command)
  BY DEF IInv, Typed
<1>2. c \in Command
  <2>1. c = issued'[Len(issued')] /\ Len(issued') \in 1 .. Len(issued')
    BY <1>1
  <2> QED
    BY <1>1, <2>1
<1>3. Requests!Give
  BY <1>2 DEF Requests!Give
<1> QED
  BY <1>3 DEF Requests!Next

(***************************************************************************)
(* Every step of client and server is one of ClientRequests, or changes    *)
(* nothing of it.                                                          *)
(***************************************************************************)
LEMMA NextRefines ==
  ASSUME IInv, IgnoredInv, Next, IInv'
  PROVE  Requests!Next \/ UNCHANGED Requests!vars
<1>1. CASE CL_AddReliableCommand
  BY <1>1, GiveRefines DEF CL_AddReliableCommand, server
<1>2. CASE CL_CreateNewCommands
  <2>1. Requests!Make
    BY <1>2 DEF CL_CreateNewCommands, Requests!Make, server
  <2> QED
    BY <2>1 DEF Requests!Next
<1>3. CASE CL_WritePacket
  BY <1>3 DEF CL_WritePacket, server, Requests!vars
<1>4. CASE CL_Disconnect
  BY <1>4, GiveRefines DEF CL_Disconnect, Disconnect, server
<1>5. CASE CL_ParseServerMessage
  <2>1. UNCHANGED <<moves, received, ignored, moved>>
    BY <1>5 DEF CL_ParseServerMessage, server
  <2>2. UNCHANGED issued \/ \E c : issued' = Append(issued, c)
    BY <1>5 DEF CL_ParseServerMessage, Disconnect
  <2> QED
    BY <2>1, <2>2, GiveRefines DEF Requests!vars
<1>6. CASE SV_SendMessage
  BY <1>6 DEF SV_SendMessage, server, Requests!vars
<1>7. CASE ServerReceives
  <2>1. PICK m \in MessageType :
           /\ CarriesCommands(m) /\ CarriesMoves(m)
           /\ UNCHANGED <<issued, moves>>
           /\ \/ ~InGame /\ UNCHANGED server
              \/ InGame /\ \E n \in 0 .. Len(Fresh(m)), acked \in BOOLEAN : Carries(m, n, acked)
    BY <1>7, ReceiveStep
  <2>2. CASE ~InGame /\ UNCHANGED server
    BY <2>1, <2>2 DEF server, Requests!vars
  <2>3. CASE InGame /\ \E n \in 0 .. Len(Fresh(m)), acked \in BOOLEAN : Carries(m, n, acked)
    BY <2>1, <2>3, CarryRefines
  <2> QED
    BY <2>1, <2>2, <2>3
<1>8. CASE LoseToServer
  BY <1>8 DEF LoseToServer, Requests!vars
<1>9. CASE LoseToClient
  BY <1>9 DEF LoseToClient, server, Requests!vars
<1> QED
  BY <1>1, <1>2, <1>3, <1>4, <1>5, <1>6, <1>7, <1>8, <1>9 DEF Next

(***************************************************************************)
(* Commands are received as given, none left out and none twice; only game *)
(* commands are ignored, and none before the first move; moves are carried *)
(* out at most once, in order, and after every command given before them   *)
(* was received.                                                           *)
(***************************************************************************)
THEOREM CommandsAsGiven == Spec => ImplementsClientRequests
<1>1. Init => Requests!Init
  BY DEF Init, Requests!Init
<1>2. IInv /\ IgnoredInv /\ IInv' /\ [Next]_vars =>
          [Requests!Next]_(Requests!vars)
  BY NextRefines DEF vars, Requests!vars
<1> QED
  BY <1>1, <1>2, Inductive, IgnoredInductive, PTL
     DEF Spec, ImplementsClientRequests, Requests!Spec
=============================================================================
