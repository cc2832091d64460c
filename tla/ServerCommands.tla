--------------------------- MODULE ServerCommands ---------------------------
(***************************************************************************)
(* Reliable server commands, from SV_AddServerCommand at the server to     *)
(* CL_GetServerCommand at the client, for one connection whose gamestate   *)
(* has been acknowledged.                                                  *)
(*                                                                         *)
(* Every snapshot message repeats the commands the client has not          *)
(* acknowledged; every client message acknowledges the last one received.  *)
(* Messages travel over netchans, so they arrive in order and at most      *)
(* once, but may be lost: a receiver takes any message in flight and the   *)
(* ones before it are gone.                                                *)
(*                                                                         *)
(* A command is abstracted to its kind and the sequence number it was      *)
(* issued with.  Both sides keep commands in rings of                      *)
(* MAX_RELIABLE_COMMANDS entries.                                          *)
(***************************************************************************)
EXTENDS Integers, Sequences

CONSTANTS
    MAX_RELIABLE_COMMANDS,
    MaxCommands,    \* bound: commands issued
    MaxInFlight     \* bound: messages in flight in each direction

ASSUME ServerCommandsAssumption ==
    /\ MAX_RELIABLE_COMMANDS \in Nat \ {0}
    /\ MaxCommands \in Nat
    /\ MaxInFlight \in Nat

Slot == 0 .. MAX_RELIABLE_COMMANDS - 1
SlotOf(n) == n % MAX_RELIABLE_COMMANDS

Kind == {"none", "game", "print", "disconnect"}
Command == [kind : Kind, id : Nat]
NoCommand == [kind |-> "none", id |-> 0]

VARIABLES
    cl,         \* client_t: state, reliableSequence, reliableAcknowledge, reliableCommands
    clc,        \* the client: serverCommandSequence, serverCommands,
                \* lastExecutedServerCommand, and of cl.snap the serverCommandNum
    toClient,   \* server messages in flight
    toServer,   \* client messages in flight, each a reliableAcknowledge
    issued,     \* history: issued[n] is the command with sequence number n
    executed,   \* history: the commands cgame got from CL_GetServerCommand
    overflowed, \* history: the client was dropped by a command overflow
    snapIssued  \* history: commands issued when the server built cl.snap

vars == <<cl, clc, toClient, toServer, issued, executed, overflowed, snapIssued>>

(***************************************************************************)
(* SV_AddServerCommand, as its effect on the client_t c.  A command for a  *)
(* client that is no longer (CS_ZOMBIE) in the game is ignored.  The       *)
(* command that makes the ring overflow takes a sequence number but no     *)
(* slot, and drops the client: SV_DropClient broadcasts a print and sends  *)
(* a disconnect, which find the ring beyond its limit and are stored.      *)
(***************************************************************************)
Pending(c) == c.reliableSequence - c.reliableAcknowledge

InGame(c) == c.state = "active"

\* Mutant: one command too many is let in.
OverflowsLate(c) == Pending(c) + 1 = MAX_RELIABLE_COMMANDS + 2

Overflows(c) == Pending(c) + 1 = MAX_RELIABLE_COMMANDS + 1

Store(c, kind) ==
    LET n == c.reliableSequence + 1
    IN  [c EXCEPT !.reliableSequence = n,
                  !.reliableCommands[SlotOf(n)] = [kind |-> kind, id |-> n]]

\* Mutant: the slot is free at once.
ZombieSkipped(c) == [c EXCEPT !.state = "free"]

Zombie(c) == [c EXCEPT !.state = "zombie"]

OverflowDrop(c) ==
    Zombie(Store(Store([c EXCEPT !.reliableSequence = @ + 1], "print"), "disconnect"))

AddServerCommand(c, kind) ==
    IF ~InGame(c) THEN c
    ELSE IF Overflows(c) THEN OverflowDrop(c)
    ELSE Store(c, kind)

(***************************************************************************)
(* SV_DropClient for another reason than an overflow: its own print or     *)
(* disconnect may overflow the ring and drop the client a second time      *)
(* before the first drop has set CS_ZOMBIE.                                *)
(***************************************************************************)
DropClient(c) == Zombie(AddServerCommand(AddServerCommand(c, "print"), "disconnect"))

(***************************************************************************)
(* The commands the calls above issue, the one without a slot included.    *)
(***************************************************************************)
Overflow(c, kind) ==
    LET n == c.reliableSequence
    IN  << [kind |-> kind, id |-> n + 1],
           [kind |-> "print", id |-> n + 2],
           [kind |-> "disconnect", id |-> n + 3] >>

IssuedBy(c, kind) ==
    IF Overflows(c) THEN Overflow(c, kind)
    ELSE << [kind |-> kind, id |-> c.reliableSequence + 1] >>

IssuedByDrop(c) ==
    LET printed == AddServerCommand(c, "print")
    IN  IssuedBy(c, "print") \o
        IF InGame(printed) THEN IssuedBy(printed, "disconnect") ELSE << >>

-----------------------------------------------------------------------------
Init ==
    /\ cl = [state |-> "active", reliableSequence |-> 0, reliableAcknowledge |-> 0,
             reliableCommands |-> [s \in Slot |-> NoCommand]]
    /\ clc = [state |-> "active", serverCommandSequence |-> 0,
              serverCommands |-> [s \in Slot |-> NoCommand],
              lastExecutedServerCommand |-> 0, serverCommandNum |-> 0]
    /\ toClient = << >>
    /\ toServer = << >>
    /\ issued = << >>
    /\ executed = << >>
    /\ overflowed = FALSE
    /\ snapIssued = 0

(***************************************************************************)
(* The game or another client's fate adds a command.                       *)
(***************************************************************************)
SV_AddServerCommand ==
    /\ InGame(cl)
    /\ Len(issued) < MaxCommands
    /\ cl' = AddServerCommand(cl, "game")
    /\ issued' = issued \o IssuedBy(cl, "game")
    /\ overflowed' = Overflows(cl)
    /\ UNCHANGED <<clc, toClient, toServer, executed, snapIssued>>

(***************************************************************************)
(* A kick, a timeout or the client's own disconnect.                       *)
(***************************************************************************)
SV_DropClient ==
    /\ InGame(cl)
    /\ cl' = DropClient(cl)
    /\ issued' = issued \o IssuedByDrop(cl)
    /\ overflowed' = (Overflows(cl) \/ Overflows(AddServerCommand(cl, "print")))
    /\ UNCHANGED <<clc, toClient, toServer, executed, snapIssued>>

(***************************************************************************)
(* SV_UpdateServerCommandsToClient: the pending commands, read from the    *)
(* ring.                                                                   *)
(***************************************************************************)
\* Mutant: the newest command is left for the next time.
AllButNewestToClient(c) ==
    [i \in 1 .. Pending(c) - 1 |-> c.reliableCommands[SlotOf(c.reliableAcknowledge + i)]]

SV_UpdateServerCommandsToClient(c) ==
    [i \in 1 .. Pending(c) |-> c.reliableCommands[SlotOf(c.reliableAcknowledge + i)]]

(***************************************************************************)
(* SV_SendClientSnapshot, to clients in the game and to zombies: the       *)
(* pending commands, then the snapshot.                                    *)
(***************************************************************************)
SV_SendClientSnapshot ==
    /\ Len(toClient) < MaxInFlight
    /\ toClient' = Append(toClient,
         [first |-> cl.reliableAcknowledge + 1,
          commands |-> SV_UpdateServerCommandsToClient(cl),
          issued |-> Len(issued)])
    /\ UNCHANGED <<cl, clc, toServer, issued, executed, overflowed, snapIssued>>

(***************************************************************************)
(* CL_ParseServerMessage: CL_ParseCommandString keeps each command newer   *)
(* than serverCommandSequence, then CL_ParseSnapshot notes the last one.   *)
(***************************************************************************)
LastIn(m) == m.first + Len(m.commands) - 1

Parsed(m) ==
    LET seen  == clc.serverCommandSequence
        last  == IF LastIn(m) > seen THEN LastIn(m) ELSE seen
        fresh(s) == { n \in m.first .. LastIn(m) : n > seen /\ SlotOf(n) = s }
        newest(s) == CHOOSE n \in fresh(s) : \A k \in fresh(s) : k <= n
    IN  [clc EXCEPT
            !.serverCommandSequence = last,
            !.serverCommands = [s \in Slot |-> IF fresh(s) = {} THEN @[s]
                                ELSE m.commands[newest(s) - m.first + 1]],
            !.serverCommandNum = last]

CL_ParseServerMessage(i) ==
    /\ clc.state = "active"
    /\ clc' = Parsed(toClient[i])
    /\ snapIssued' = toClient[i].issued
    /\ toClient' = SubSeq(toClient, i + 1, Len(toClient))
    /\ UNCHANGED <<cl, toServer, issued, executed, overflowed>>

(***************************************************************************)
(* CL_WritePacket acknowledges the last command received.                  *)
(***************************************************************************)
\* Mutant: it acknowledges the command it expects next.
CL_WritePacketAhead ==
    /\ clc.state = "active"
    /\ Len(toServer) < MaxInFlight
    /\ toServer' = Append(toServer, clc.serverCommandSequence + 1)
    /\ UNCHANGED <<cl, clc, toClient, issued, executed, overflowed, snapIssued>>

CL_WritePacket ==
    /\ clc.state = "active"
    /\ Len(toServer) < MaxInFlight
    /\ toServer' = Append(toServer, clc.serverCommandSequence)
    /\ UNCHANGED <<cl, clc, toClient, issued, executed, overflowed, snapIssued>>

(***************************************************************************)
(* SV_ExecuteClientMessage, as far as it is about server commands.  An     *)
(* acknowledgement ahead of reliableSequence is ignored; one more than a   *)
(* ring behind counts as everything acknowledged.  Zombies only have their *)
(* netchan processed.                                                      *)
(***************************************************************************)
Acknowledged(ack) ==
    LET behind == cl.reliableSequence - ack
    IN  IF ~InGame(cl) \/ behind < 0 THEN cl
        ELSE IF behind > MAX_RELIABLE_COMMANDS
        THEN [cl EXCEPT !.reliableAcknowledge = cl.reliableSequence]
        ELSE [cl EXCEPT !.reliableAcknowledge = ack]

\* Mutant: messages are taken out of order.
SV_ExecuteAnyMessage(i) ==
    /\ cl' = Acknowledged(toServer[i])
    /\ toServer' = SubSeq(toServer, 1, i - 1) \o SubSeq(toServer, i + 1, Len(toServer))
    /\ UNCHANGED <<clc, toClient, issued, executed, overflowed, snapIssued>>

SV_ExecuteClientMessage(i) ==
    /\ cl' = Acknowledged(toServer[i])
    /\ toServer' = SubSeq(toServer, i + 1, Len(toServer))
    /\ UNCHANGED <<clc, toClient, issued, executed, overflowed, snapIssued>>

(***************************************************************************)
(* CL_GetServerCommand: cgame asks for the commands up to the snapshot's   *)
(* serverCommandNum one after the other.  A command the ring no longer     *)
(* holds, and the disconnect command, end the connection.                  *)
(***************************************************************************)
\* Mutant: a command overwritten just now still counts as held.
CycledOutLate(n) == clc.serverCommandSequence - n > MAX_RELIABLE_COMMANDS

CycledOut(n) == clc.serverCommandSequence - n >= MAX_RELIABLE_COMMANDS

CL_GetServerCommand ==
    LET n == clc.lastExecutedServerCommand + 1
        command == clc.serverCommands[SlotOf(n)]
    IN  /\ clc.state = "active"
        /\ n <= clc.serverCommandNum
        /\ IF CycledOut(n)
           THEN /\ clc' = [clc EXCEPT !.state = "cycledOut"]
                /\ UNCHANGED executed
           ELSE /\ clc' = [clc EXCEPT !.lastExecutedServerCommand = n,
                                      !.state = IF command.kind = "disconnect"
                                                THEN "disconnected" ELSE @]
                /\ executed' = Append(executed, command)
        /\ UNCHANGED <<cl, toClient, toServer, issued, overflowed, snapIssued>>

ClientReceives == \E i \in 1 .. Len(toClient) : CL_ParseServerMessage(i)
ServerReceives == \E i \in 1 .. Len(toServer) : SV_ExecuteClientMessage(i)

Next ==
    \/ SV_AddServerCommand
    \/ SV_DropClient
    \/ SV_SendClientSnapshot
    \/ ClientReceives
    \/ CL_WritePacket
    \/ ServerReceives
    \/ CL_GetServerCommand

Spec == Init /\ [][Next]_vars

(***************************************************************************)
(* SV_Frame sends snapshots and CL_SendCmd packets for as long as the      *)
(* connection lives; the network loses messages but not all of them; cgame *)
(* works off its commands every frame.                                     *)
(***************************************************************************)
Fairness ==
    /\ WF_vars(SV_SendClientSnapshot)
    /\ WF_vars(CL_WritePacket)
    /\ WF_vars(ClientReceives)
    /\ WF_vars(ServerReceives)
    /\ WF_vars(CL_GetServerCommand)

FairSpec == Spec /\ Fairness
-----------------------------------------------------------------------------
(***************************************************************************)
(* Type invariant.                                                         *)
(***************************************************************************)
TypeOK ==
    /\ cl \in [state : {"active", "zombie"}, reliableSequence : Nat,
               reliableAcknowledge : Nat, reliableCommands : [Slot -> Command]]
    /\ clc \in [state : {"active", "cycledOut", "disconnected"},
                serverCommandSequence : Nat, serverCommands : [Slot -> Command],
                lastExecutedServerCommand : Nat, serverCommandNum : Nat]
    /\ toClient \in Seq([first : Nat, commands : Seq(Command), issued : Nat])
    /\ toServer \in Seq(Nat)
    /\ issued \in Seq(Command)
    /\ executed \in Seq(Command)
    /\ overflowed \in BOOLEAN
    /\ snapIssued \in Nat

(***************************************************************************)
(* While a client is in the game no unacknowledged command has been        *)
(* overwritten: "if we would be losing an old command that hasn't been     *)
(* acknowledged, we must drop the connection" (sv_main.c:83).              *)
(***************************************************************************)
PendingKept ==
    InGame(cl) =>
        /\ Pending(cl) \in 0 .. MAX_RELIABLE_COMMANDS
        /\ \A n \in cl.reliableAcknowledge + 1 .. cl.reliableSequence :
               cl.reliableCommands[SlotOf(n)] = issued[n]

(***************************************************************************)
(* cgame gets the commands in the order they were issued, none lost, none  *)
(* twice, none replaced by another, unless an overflow dropped the client. *)
(***************************************************************************)
ExecutedAsIssued ==
    ~overflowed =>
        /\ Len(executed) <= Len(issued)
        /\ \A n \in 1 .. Len(executed) : executed[n] = issued[n]

(***************************************************************************)
(* A command "is guaranteed to not have future snapshot_t executed before  *)
(* it is executed" (sv_main.c:65): the command count cgame must reach      *)
(* before it may use a snapshot covers every command issued before the     *)
(* snapshot was built.                                                     *)
(***************************************************************************)
SnapshotAfterCommands == clc.serverCommandNum >= snapIssued

(***************************************************************************)
(* The branch of SV_ExecuteClientMessage that gives pending commands up as *)
(* acknowledged is never taken for a client that follows the protocol,     *)
(* however late its messages arrive.                                       *)
(***************************************************************************)
NothingGivenUp ==
    InGame(cl) => \A i \in 1 .. Len(toServer) :
                      cl.reliableSequence - toServer[i] \in 0 .. MAX_RELIABLE_COMMANDS

(***************************************************************************)
(* The server never believes a command acknowledged that the client has    *)
(* not received, and never takes an acknowledgement back.                  *)
(***************************************************************************)
AcknowledgedReceived == cl.reliableAcknowledge <= clc.serverCommandSequence

AcknowledgeMonotone == [][cl'.reliableAcknowledge >= cl.reliableAcknowledge]_vars

(***************************************************************************)
(* Every command is executed sooner or later, unless the connection ends.  *)
(***************************************************************************)
EventuallyExecuted ==
    \A n \in 1 .. MaxCommands :
        Len(issued) >= n ~> Len(executed) >= n \/ ~InGame(cl) \/ clc.state # "active"
=============================================================================
