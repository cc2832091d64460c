--------------------------- MODULE ClientCommands ---------------------------
(***************************************************************************)
(* What a client asks of the server: reliable commands, and moves (the     *)
(* usercmd_t of each frame).  CL_AddReliableCommand and                    *)
(* CL_CreateNewCommands make them, CL_WritePacket sends them,              *)
(* SV_ExecuteClientMessage carries them out, and every server message      *)
(* acknowledges the commands.                                              *)
(*                                                                         *)
(* A client message repeats the commands not yet acknowledged, and the     *)
(* moves of the cl_packetdup messages before it.  Messages arrive in order *)
(* or not at all.  The client has the gamestate of the map; its            *)
(* acknowledgement is in GamestateAck and a choice here; drops for other   *)
(* reasons are in ClientSlots.  A move is its number, which stands for its *)
(* serverTime too.                                                         *)
(***************************************************************************)
EXTENDS Integers, SequencesExt, FiniteSetsExt

CONSTANTS
    MAX_RELIABLE_COMMANDS,
    MAX_PACKET_USERCMDS,    \* moves in one message
    cl_packetdup,           \* how many earlier messages' moves are repeated
    MaxCommands,            \* bound: commands, the disconnect not counted
    Userinfos,              \* bound: which of them are userinfo
    MaxMoves,               \* bound: moves
    MaxInFlight             \* bound: messages in flight in each direction

ASSUME ClientCommandsAssumption ==
    /\ {MAX_RELIABLE_COMMANDS, MAX_PACKET_USERCMDS} \subseteq Nat \ {0}
    /\ {cl_packetdup, MaxCommands, MaxMoves, MaxInFlight} \subseteq Nat
    /\ Userinfos \subseteq 1 .. MaxCommands

\* Only userinfo and disconnect are told apart from what the game gets.
Kind == {"userinfo", "game", "disconnect"}
Command == [kind : Kind, id : 0 .. MaxCommands + 1]
NoCommand == [kind |-> "game", id |-> 0]

VARIABLES
    clc,        \* the client: state, reliableSequence, reliableAcknowledge,
                \* reliableCommands, and of cl the cmdNumber and outPackets:
                \* the cmdNumber at each of the last messages, oldest first
    cl,         \* client_t: state, lastClientCommand, lastUsercmd
    toServer,   \* client messages in flight
    toClient,   \* server messages in flight, each a lastClientCommand
    issued, moves, received, ignored, moved,    \* history, as in ClientRequests
    missed      \* history: messages in a row whose moves the server has not
                \* taken, counted up to cl_packetdup + 1

vars == <<clc, cl, toServer, toClient, issued, moves, received, ignored, moved, missed>>
server == <<cl, received, ignored, moved, missed>>

SlotOf(n) == n % MAX_RELIABLE_COMMANDS
Pending(c) == c.reliableSequence - c.reliableAcknowledge

Wiped(state) ==
    [state |-> state, reliableSequence |-> 0, reliableAcknowledge |-> 0,
     reliableCommands |-> [s \in 0 .. MAX_RELIABLE_COMMANDS - 1 |-> NoCommand],
     cmdNumber |-> 0, outPackets |-> [i \in 1 .. cl_packetdup + 1 |-> 0]]

Init ==
    /\ clc = Wiped("primed")
    /\ cl = [state |-> "primed", lastClientCommand |-> 0, lastUsercmd |-> 0]
    /\ toServer = << >>
    /\ toClient = << >>
    /\ issued = << >>
    /\ moves = << >>
    /\ received = << >>
    /\ ignored = {}
    /\ moved = << >>
    /\ missed = 0

-----------------------------------------------------------------------------
(***************************************************************************)
(* The client.                                                             *)
(***************************************************************************)
Connected == clc.state # "disconnected"

\* Mutant: a command more than there are slots.
FullLate(c) == Pending(c) > MAX_RELIABLE_COMMANDS

Full(c) == Pending(c) >= MAX_RELIABLE_COMMANDS

Added(c, command) ==
    [c EXCEPT !.reliableSequence = @ + 1,
              !.reliableCommands[SlotOf(c.reliableSequence + 1)] = command]

CL_AddReliableCommand ==
    LET n == Len(issued) + 1
        command == [kind |-> IF n \in Userinfos THEN "userinfo" ELSE "game", id |-> n]
    IN  /\ Connected
        /\ Len(issued) < MaxCommands
        /\ ~Full(clc)
        /\ clc' = Added(clc, command)
        /\ issued' = Append(issued, command)
        /\ UNCHANGED <<server, toServer, toClient, moves>>

CL_CreateNewCommands ==
    /\ Connected
    /\ clc.cmdNumber < MaxMoves
    /\ clc' = [clc EXCEPT !.cmdNumber = @ + 1]
    /\ moves' = Append(moves, Len(issued))
    /\ UNCHANGED <<server, toServer, toClient, issued>>

\* The commands not acknowledged, read from the ring.
Unacknowledged(c) ==
    [i \in 1 .. Pending(c) |-> c.reliableCommands[SlotOf(c.reliableAcknowledge + i)]]

\* The first move of the message: one after those of cl_packetdup + 1 ago.
\* Mutant: the moves of one message fewer are repeated.
FirstMoveShort(c) ==
    Max({c.outPackets[IF cl_packetdup = 0 THEN 1 ELSE 2] + 1,
         c.cmdNumber - MAX_PACKET_USERCMDS + 1})

FirstMove(c) == Max({c.outPackets[1] + 1, c.cmdNumber - MAX_PACKET_USERCMDS + 1})

Message(c) ==
    [first |-> c.reliableAcknowledge + 1, commands |-> Unacknowledged(c),
     firstMove |-> FirstMove(c), lastMove |-> c.cmdNumber]

\* Mutant: a client whose ring is full waits before it sends again.
CL_WritePacketWhenRoom ==
    /\ Connected
    /\ ~Full(clc)
    /\ Len(toServer) < MaxInFlight
    /\ toServer' = Append(toServer, Message(clc))
    /\ clc' = [clc EXCEPT !.outPackets = Append(Tail(@), clc.cmdNumber)]
    /\ UNCHANGED <<server, toClient, issued, moves>>

CL_WritePacket ==
    /\ Connected
    /\ Len(toServer) < MaxInFlight
    /\ toServer' = Append(toServer, Message(clc))
    /\ clc' = [clc EXCEPT !.outPackets = Append(Tail(@), clc.cmdNumber)]
    /\ UNCHANGED <<server, toClient, issued, moves>>

(***************************************************************************)
(* CL_Disconnect, for any reason, one being a command that finds the ring  *)
(* full (Com_Error): the disconnect command is added even to a full ring,  *)
(* the last message is sent, and the connection is wiped; nothing is       *)
(* received any more.                                                      *)
(***************************************************************************)
Disconnect(c) ==
    LET command == [kind |-> "disconnect", id |-> Len(issued) + 1]
    IN  /\ toServer' = Append(toServer, Message(Added(c, command)))
        /\ clc' = Wiped("disconnected")
        /\ toClient' = << >>
        /\ issued' = Append(issued, command)

CL_Disconnect ==
    /\ Connected
    /\ Disconnect(clc)
    /\ UNCHANGED <<server, moves>>

\* An acknowledgement of a command not given yet is an error.
CL_ParseServerMessage ==
    LET ack == Head(toClient)
        behind == clc.reliableSequence - ack
        given == IF behind > MAX_RELIABLE_COMMANDS THEN clc.reliableSequence ELSE ack
        c == [clc EXCEPT !.reliableAcknowledge = given]
    IN  /\ Connected
        /\ toClient # << >>
        /\ IF behind < 0 THEN Disconnect(c)
           ELSE /\ toClient' = Tail(toClient)
                /\ clc' = c
                /\ UNCHANGED <<toServer, issued>>
        /\ UNCHANGED <<server, moves>>

-----------------------------------------------------------------------------
(***************************************************************************)
(* The server.                                                             *)
(***************************************************************************)
InGame == cl.state # "zombie"

SV_SendMessage ==
    /\ Connected
    /\ Len(toClient) < MaxInFlight
    /\ toClient' = Append(toClient, cl.lastClientCommand)
    /\ UNCHANGED <<clc, server, toServer, issued, moves>>

\* SV_ClientCommand skips the commands received before.
Fresh(m) ==
    SubSeq(m.commands, Max({1, cl.lastClientCommand - m.first + 2}), Len(m.commands))

Lost(m) == m.commands # << >> /\ m.first - cl.lastClientCommand > 1

(***************************************************************************)
(* How many of the fresh commands are received.  All, unless one is the    *)
(* disconnect, or the flood protection stalls at a userinfo of an active   *)
(* client: what comes after that is read when it is repeated.              *)
(***************************************************************************)
Executable(m, n) ==
    LET fresh == Fresh(m)
    IN  /\ \A i \in 1 .. n - 1 : fresh[i].kind # "disconnect"
        /\ \/ n = Len(fresh)
           \/ n > 0 /\ fresh[n].kind = "disconnect"
           \/ n < Len(fresh) /\ cl.state = "active" /\ fresh[n + 1].kind = "userinfo"

(***************************************************************************)
(* The numbers of those that may be ignored: "ignore any other text        *)
(* messages from this client but let them keep playing".  The flood        *)
(* protection keeps them from the game, and nobody repeats them.           *)
(***************************************************************************)
Ignorable(m, n) ==
    {k \in cl.lastClientCommand + 1 .. cl.lastClientCommand + n :
        cl.state = "active" /\ Fresh(m)[k - cl.lastClientCommand].kind = "game"}

Leaves(m, n) == n > 0 /\ Fresh(m)[n].kind = "disconnect"

\* SV_UserMove: the moves newer than the last one.
NewMoves(m) ==
    LET first == Max({m.firstMove, cl.lastUsercmd + 1})
    IN  [k \in 1 .. m.lastMove - first + 1 |-> first + k - 1]

\* The moves are read unless something before them ended the message.
\* Mutant: a stalled command does not keep back the moves.
MovesReadAnyway(m, n, acked) == acked /\ ~Leaves(m, n) /\ m.firstMove <= m.lastMove

MovesRead(m, n, acked) == acked /\ n = Len(Fresh(m)) /\ ~Leaves(m, n) /\ m.firstMove <= m.lastMove

OneMoreMissed == Min({missed + 1, cl_packetdup + 1})

SV_ExecuteClientMessage(n, acked) ==
    LET m == Head(toServer)
        fresh == Fresh(m)
        read == MovesRead(m, n, acked)
    IN  /\ toServer' = Tail(toServer)
        /\ UNCHANGED <<clc, toClient, issued, moves>>
        /\ IF ~InGame THEN UNCHANGED server
           ELSE IF Lost(m)
           THEN /\ cl' = [cl EXCEPT !.state = "zombie"]
                /\ UNCHANGED <<received, ignored, moved, missed>>
           ELSE /\ Executable(m, n)
                /\ cl.state = "active" => acked
                /\ received' = received \o SubSeq(fresh, 1, n)
                /\ \E some \in SUBSET Ignorable(m, n) : ignored' = ignored \cup some
                /\ moved' = IF read THEN moved \o NewMoves(m) ELSE moved
                /\ missed' = IF read THEN 0 ELSE OneMoreMissed
                /\ cl' = [cl EXCEPT !.lastClientCommand = @ + n,
                                    !.lastUsercmd = IF read THEN Max({@, m.lastMove}) ELSE @,
                                    !.state = IF Leaves(m, n) THEN "zombie"
                                              ELSE IF read THEN "active" ELSE @]

ServerReceives ==
    /\ toServer # << >>
    /\ \E n \in 0 .. Len(Fresh(Head(toServer))), acked \in BOOLEAN :
          SV_ExecuteClientMessage(n, acked)

\* The flood protection does not stall.
ServerReceivesUnlimited ==
    /\ toServer # << >>
    /\ \E n \in 0 .. Len(Fresh(Head(toServer))), acked \in BOOLEAN :
          /\ n = Len(Fresh(Head(toServer))) \/ Leaves(Head(toServer), n)
          /\ SV_ExecuteClientMessage(n, acked)

LoseToServer ==
    /\ toServer # << >>
    /\ toServer' = Tail(toServer)
    /\ missed' = OneMoreMissed
    /\ UNCHANGED <<clc, cl, toClient, issued, moves, received, ignored, moved>>

LoseToClient ==
    /\ toClient # << >>
    /\ toClient' = Tail(toClient)
    /\ UNCHANGED <<clc, server, toServer, issued, moves>>

Next ==
    \/ CL_AddReliableCommand
    \/ CL_CreateNewCommands
    \/ CL_WritePacket
    \/ CL_Disconnect
    \/ CL_ParseServerMessage
    \/ SV_SendMessage
    \/ ServerReceives
    \/ LoseToServer
    \/ LoseToClient

Spec == Init /\ [][Next]_vars

(***************************************************************************)
(* CL_SendCmd and SV_Frame send for as long as the connection lives, the   *)
(* network does not lose everything, and the bucket of the flood           *)
(* protection leaks, so a client that repeats a stalled command is         *)
(* listened to sooner or later.                                            *)
(***************************************************************************)
Fairness ==
    /\ WF_vars(CL_WritePacket)
    /\ WF_vars(SV_SendMessage)
    /\ SF_vars(CL_ParseServerMessage)
    /\ SF_vars(ServerReceivesUnlimited)

FairSpec == Spec /\ Fairness
-----------------------------------------------------------------------------
(***************************************************************************)
(* Type invariant.  A disconnect may exceed the ring by one.               *)
(***************************************************************************)
TypeOK ==
    /\ clc \in [state : {"primed", "disconnected"}, reliableSequence : Nat, reliableAcknowledge : Nat,
                reliableCommands : [0 .. MAX_RELIABLE_COMMANDS - 1 -> Command],
                cmdNumber : Nat, outPackets : [1 .. cl_packetdup + 1 -> Nat]]
    /\ cl \in [state : {"primed", "active", "zombie"}, lastClientCommand : Nat, lastUsercmd : Nat]
    /\ \A i \in 1 .. Len(toServer) :
          /\ {toServer[i].first, toServer[i].firstMove, toServer[i].lastMove} \subseteq Nat
          /\ Len(toServer[i].commands) <= MAX_RELIABLE_COMMANDS + 1
          /\ Range(toServer[i].commands) \subseteq Command
    /\ toClient \in Seq(Nat)
    /\ issued \in Seq(Command) /\ received \in Seq(Command)
    /\ ignored \subseteq 1 .. Len(received)
    /\ moves \in Seq(Nat) /\ moved \in Seq(Nat)
    /\ missed \in 0 .. cl_packetdup + 1

(***************************************************************************)
(* Commands are received exactly as given, over lost messages,             *)
(* repetitions, stalls and overflows; only game commands are ever ignored, *)
(* and none of a client that has not moved yet; no command is received     *)
(* after a move made later was carried out.                                *)
(***************************************************************************)
Requests == INSTANCE ClientRequests
                WITH Command <- Command, issued <- issued, moves <- moves,
                     received <- received, ignored <- ignored, moved <- moved
ImplementsClientRequests == Requests!Spec

(***************************************************************************)
(* Neither side's way out is ever taken between a client and a server that *)
(* follow the protocol: the server does not miss commands ("Lost reliable  *)
(* commands"), the client neither gives commands up ("dropping commands    *)
(* from server") nor finds the server ahead of it.                         *)
(***************************************************************************)
NothingGivenUp ==
    /\ InGame => \A i \in 1 .. Len(toServer) : ~Lost(toServer[i])
    /\ Connected => \A i \in 1 .. Len(toClient) :
                        clc.reliableSequence - toClient[i] \in 0 .. MAX_RELIABLE_COMMANDS

(***************************************************************************)
(* "even if a couple packets are dropped in a row, all the cmds will make  *)
(* it to the server" (cl_input.c:303): a move is left out only if more     *)
(* than cl_packetdup messages in a row were lost or stalled, or if a       *)
(* message could not hold all its moves.                                   *)
(***************************************************************************)
MovesCarriedOver ==
    [][moved' # moved =>
          LET m == Head(toServer)
          IN  \/ missed > cl_packetdup
              \/ m.lastMove - m.firstMove + 1 = MAX_PACKET_USERCMDS
              \/ moved'[Len(moved) + 1] = cl.lastUsercmd + 1]_vars

(***************************************************************************)
(* A client whose ring is full can give commands again sooner or later,    *)
(* unless the connection ends.                                             *)
(***************************************************************************)
RingDrains == Full(clc) ~> ~Full(clc) \/ ~InGame
=============================================================================
