---------------------------- MODULE ClientSlots ----------------------------
(***************************************************************************)
(* The table of client slots, svs.clients: how a slot is taken, how its    *)
(* player or bot leaves it, and how the reliable commands that a departure *)
(* broadcasts can make other clients, or the departing one itself, overrun *)
(* their command ring and be dropped in turn.                              *)
(*                                                                         *)
(* SV_AddServerCommand, SV_SendServerCommand and SV_DropClient call each   *)
(* other: each is an operator from one state of the table to the next,     *)
(* with the function that drops a client as a parameter, and Overflow is   *)
(* that function, defined by recursion on the depth of nested drops.  Of a *)
(* ring of commands only the number outstanding and the kind of the last   *)
(* one stored are kept.  CS_PRIMED and CS_ACTIVE take commands alike and   *)
(* are one state here; the server is a dedicated one.                      *)
(***************************************************************************)
EXTENDS Integers

CONSTANTS
    maxclients,
    MAX_RELIABLE_COMMANDS,
    BotsAllowed,    \* whether the game allocates bots
    MaxOutstanding  \* bound: nothing more is sent to a slot beyond it

ASSUME ClientSlotsAssumption ==
    /\ maxclients \in Nat \ {0}
    /\ MAX_RELIABLE_COMMANDS \in Nat \ {0}
    /\ BotsAllowed \in BOOLEAN
    /\ MaxOutstanding \in Nat

Clients == 1 .. maxclients

VARIABLES
    clients,    \* svs.clients
    running     \* the server has not been shut down

vars == <<clients, running>>

Connected(cl) == cl.state \in {"connected", "primed"}
Primed(cl) == cl.state = "primed"

(***************************************************************************)
(* A slot: outstanding is reliableSequence - reliableAcknowledge.  Of what *)
(* the game is told, joined is 1 from a call of GAME_CLIENT_CONNECT to one *)
(* of GAME_CLIENT_DISCONNECT, and disconnects counts the latter's calls in *)
(* the last step.                                                          *)
(***************************************************************************)
FreeSlot == [state |-> "free", bot |-> FALSE, justConnected |-> FALSE,
             outstanding |-> 0, last |-> "none", joined |-> 0, disconnects |-> 0]

\* The table as a step finds it: nobody has been disconnected yet.
Found == [c \in Clients |-> [clients[c] EXCEPT !.disconnects = 0]]

\* VM_Call( gvm, 1, GAME_CLIENT_DISCONNECT, c )
GameClientDisconnect(cs, c) == [cs EXCEPT ![c].joined = 0, ![c].disconnects = @ + 1]

-----------------------------------------------------------------------------
(***************************************************************************)
(* All that a table of slots may hold.                                     *)
(***************************************************************************)
States == {"free", "zombie", "connected", "primed"}
Kinds == {"none", "game", "print", "disconnect"}

Tables == [Clients -> [state : States, bot : BOOLEAN, justConnected : BOOLEAN,
                       outstanding : Nat, last : Kinds, joined : 0 .. 1, disconnects : Nat]]

\* A loop over the slots: step[c] is what it does with the table at slot c.
InSlotOrder(step, cs) ==
    LET after[c \in 0 .. maxclients] ==
            IF c = 0 THEN cs ELSE step[c][after[c - 1]]
    IN  after[maxclients]

-----------------------------------------------------------------------------
(***************************************************************************)
(* A command for one slot of the table cs, for every slot in slot order,   *)
(* and a drop.  speaks says whether the game, told of the departure, sets  *)
(* a configstring or sends a command to everyone.  A command that finds    *)
(* exactly a full ring drops its client, by drop; beyond a full ring it    *)
(* overwrites.                                                             *)
(***************************************************************************)
\* Mutant: the command after the one that overflowed overflows again.
SV_AddServerCommandTwice(cs, c, kind, drop) ==
    LET counted == [cs EXCEPT ![c].outstanding = @ + 1]
    IN  IF ~Primed(cs[c]) THEN cs
        ELSE IF counted[c].outstanding - MAX_RELIABLE_COMMANDS \in 1 .. 2
        THEN drop[c][counted]
        ELSE [counted EXCEPT ![c].last = kind]

SV_AddServerCommand(cs, c, kind, drop) ==
    LET counted == [cs EXCEPT ![c].outstanding = @ + 1]
    IN  IF ~Primed(cs[c]) THEN cs
        ELSE IF counted[c].outstanding = MAX_RELIABLE_COMMANDS + 1
        THEN drop[c][counted]
        ELSE [counted EXCEPT ![c].last = kind]

SV_SendServerCommand(cs, kind, drop) ==
    InSlotOrder([c \in Clients |-> [t \in Tables |-> SV_AddServerCommand(t, c, kind, drop)]],
                cs)

\* Mutant: the client is a zombie before it is told.
SV_DropClientSilently(cs, c, reason, speaks, drop) ==
    LET gone == [GameClientDisconnect(cs, c) EXCEPT
                    ![c].justConnected = FALSE,
                    ![c].state = IF cs[c].bot THEN "free" ELSE "zombie"]
        told == IF reason THEN SV_SendServerCommand(gone, "print", drop) ELSE gone
        game == IF speaks THEN SV_SendServerCommand(told, "game", drop) ELSE told
    IN  IF cs[c].state = "zombie" THEN cs
        ELSE SV_AddServerCommand(game, c, "disconnect", drop)

SV_DropClient(cs, c, reason, speaks, drop) ==
    LET told   == IF reason THEN SV_SendServerCommand(cs, "print", drop) ELSE cs
        called == GameClientDisconnect(told, c)
        game   == IF speaks THEN SV_SendServerCommand(called, "game", drop) ELSE called
        said   == IF reason THEN SV_AddServerCommand(game, c, "disconnect", drop) ELSE game
    IN  IF cs[c].state = "zombie" THEN cs
        ELSE [said EXCEPT ![c].justConnected = FALSE,
                          ![c].state = IF cs[c].bot THEN "free" ELSE "zombie"]

(***************************************************************************)
(* What an overflow does: SV_DropClient, whose own commands may overflow   *)
(* other rings.  A ring that has overflowed does not do so again before    *)
(* its client acknowledges something, so no more drops than there are      *)
(* slots can be nested, and the function at depth 0 is never applied.      *)
(***************************************************************************)
Overflow(speaks) ==
    LET nested[depth \in 0 .. maxclients] ==
            [c \in Clients |-> [cs \in Tables |->
                IF depth = 0 THEN cs
                ELSE SV_DropClient(cs, c, TRUE, speaks, nested[depth - 1])]]
    IN  nested[maxclients]

WithinBound == \A c \in Clients : clients[c].outstanding <= MaxOutstanding

-----------------------------------------------------------------------------
Init ==
    /\ clients = [c \in Clients |-> FreeSlot]
    /\ running = TRUE

(***************************************************************************)
(* SV_DirectConnect takes a free slot, or takes over the one its own       *)
(* address and qport already hold, whatever became of it; if its holder is *)
(* connected, the game is told that it goes.  The slot is zeroed; the game *)
(* may refuse the client.                                                  *)
(***************************************************************************)
Reconnected(c, speaks) ==
    LET called == GameClientDisconnect(Found, c)
    IN  IF ~Connected(clients[c]) THEN Found
        ELSE IF speaks THEN SV_SendServerCommand(called, "game", Overflow(speaks)) ELSE called

\* Mutant: the slot is not zeroed.
SV_DirectConnectUnzeroed(c, denied, speaks) ==
    LET left == Reconnected(c, speaks)
    IN  /\ running
        /\ WithinBound
        /\ clients[c].state = "free" \/ ~clients[c].bot
        /\ clients' = [left EXCEPT ![c] =
               IF denied THEN FreeSlot
               ELSE [left[c] EXCEPT !.state = "connected", !.bot = FALSE, !.joined = 1]]
        /\ UNCHANGED running

SV_DirectConnect(c, denied, speaks) ==
    LET left == Reconnected(c, speaks)
        zeroed == [FreeSlot EXCEPT !.disconnects = left[c].disconnects]
    IN  /\ running
        /\ WithinBound
        /\ clients[c].state = "free" \/ ~clients[c].bot
        /\ clients' = [left EXCEPT ![c] =
               IF denied THEN zeroed
               ELSE [zeroed EXCEPT !.state = "connected", !.justConnected = TRUE, !.joined = 1]]
        /\ UNCHANGED running

(***************************************************************************)
(* SV_BotAllocateClient takes the first free slot as it is.                *)
(***************************************************************************)
SV_BotAllocateClient(c) ==
    /\ running
    /\ BotsAllowed
    /\ clients[c].state = "free"
    /\ \A b \in 1 .. c - 1 : clients[b].state # "free"
    /\ clients' = [Found EXCEPT ![c].state = "primed", ![c].bot = TRUE, ![c].joined = 1]
    /\ UNCHANGED running

(***************************************************************************)
(* SV_ExecuteClientMessage: a player acknowledges some of its commands; a  *)
(* connected one is sent the gamestate unless its rate is limited.         *)
(***************************************************************************)
SV_ExecuteClientMessage(c, left, limited) ==
    /\ running
    /\ Connected(clients[c])
    /\ ~clients[c].bot
    /\ left \in 0 .. clients[c].outstanding
    /\ clients' = [Found EXCEPT ![c].outstanding = left, ![c].justConnected = FALSE,
                                  ![c].state = IF limited THEN @ ELSE "primed"]
    /\ UNCHANGED running

(***************************************************************************)
(* SV_BotGetConsoleMessage takes one command off a bot's ring.             *)
(***************************************************************************)
\* Mutant: no check for an empty ring.
SV_BotGetAnyMessage(c) ==
    /\ running
    /\ clients[c].bot
    /\ clients[c].state = "primed"
    /\ clients' = [Found EXCEPT ![c].outstanding = @ - 1]
    /\ UNCHANGED running

SV_BotGetConsoleMessage(c) ==
    /\ running
    /\ clients[c].bot
    /\ clients[c].state = "primed"
    /\ clients[c].outstanding > 0
    /\ clients' = [Found EXCEPT ![c].outstanding = @ - 1]
    /\ UNCHANGED running

(***************************************************************************)
(* The game sends a command to one client or to all of them.               *)
(***************************************************************************)
GameCommand(c, speaks) ==
    /\ running
    /\ WithinBound
    /\ clients' = SV_AddServerCommand(Found, c, "game", Overflow(speaks))
    /\ UNCHANGED running

GameBroadcast(speaks) ==
    /\ running
    /\ WithinBound
    /\ clients' = SV_SendServerCommand(Found, "game", Overflow(speaks))
    /\ UNCHANGED running

(***************************************************************************)
(* A kick, the client's own disconnect, lost commands, a userinfo that is  *)
(* refused: SV_DropClient for a reason.                                    *)
(***************************************************************************)
Drop(c, speaks) ==
    /\ running
    /\ WithinBound
    /\ Connected(clients[c])
    /\ clients' = SV_DropClient(Found, c, TRUE, speaks, Overflow(speaks))
    /\ UNCHANGED running

(***************************************************************************)
(* SV_CheckTimeouts, for one slot: a zombie's time is over, a connection   *)
(* was never followed by a message, or a client fell silent.               *)
(***************************************************************************)
ZombieTimeout(c) ==
    /\ running
    /\ clients[c].state = "zombie"
    /\ clients' = [Found EXCEPT ![c].state = "free"]
    /\ UNCHANGED running

\* Mutant: the slot is freed without a word to the game.
TimeoutUntold(c, speaks) ==
    /\ running
    /\ Connected(clients[c])
    /\ clients' = [Found EXCEPT ![c].state = "free"]
    /\ UNCHANGED running

Timeout(c, speaks) ==
    /\ running
    /\ WithinBound
    /\ Connected(clients[c])
    /\ clients' = [SV_DropClient(Found, c, ~clients[c].justConnected, speaks, Overflow(speaks))
                      EXCEPT ![c].state = "free"]
    /\ UNCHANGED running

(***************************************************************************)
(* SV_SpawnServer, at a change of map: every client connects to the new    *)
(* game; those it refuses are dropped, players wait for the new gamestate. *)
(***************************************************************************)
SV_SpawnServer(refused, speaks) ==
    LET reconnect == [c \in Clients |-> [cs \in Tables |->
            IF ~Connected(cs[c]) THEN cs
            ELSE IF c \in refused THEN SV_DropClient(cs, c, TRUE, speaks, Overflow(speaks))
            ELSE [cs EXCEPT ![c].state = IF cs[c].bot THEN "primed" ELSE "connected"]]]
    IN  /\ running
        /\ WithinBound
        /\ clients' = InSlotOrder(reconnect, Found)
        /\ UNCHANGED running

(***************************************************************************)
(* SV_FinalMessage, at shutdown: two passes over the table, each telling   *)
(* whoever is still connected and forcing a snapshot out (bots get none).  *)
(***************************************************************************)
FinalTold(cs, c, drop) ==
    LET printed == SV_AddServerCommand(cs, c, "print", drop)
        said    == SV_AddServerCommand(printed, c, "disconnect", drop)
    IN  IF Connected(cs[c]) THEN [said EXCEPT ![c].state = "zombie"] ELSE cs

SV_FinalMessage(speaks) ==
    LET pass == [c \in Clients |-> [cs \in Tables |-> FinalTold(cs, c, Overflow(speaks))]]
    IN  /\ running
        /\ running' = FALSE
        /\ clients' = InSlotOrder(pass, InSlotOrder(pass, Found))

Next ==
    \/ \E speaks \in BOOLEAN :
        \/ GameBroadcast(speaks)
        \/ SV_FinalMessage(speaks)
        \/ \E refused \in SUBSET Clients : SV_SpawnServer(refused, speaks)
    \/ \E c \in Clients :
        \/ SV_BotAllocateClient(c)
        \/ SV_BotGetConsoleMessage(c)
        \/ ZombieTimeout(c)
        \/ \E left \in 0 .. MaxOutstanding, limited \in BOOLEAN :
               SV_ExecuteClientMessage(c, left, limited)
        \/ \E speaks \in BOOLEAN :
            \/ \E denied \in BOOLEAN : SV_DirectConnect(c, denied, speaks)
            \/ GameCommand(c, speaks)
            \/ Drop(c, speaks)
            \/ Timeout(c, speaks)

Spec == Init /\ [][Next]_vars
-----------------------------------------------------------------------------
(***************************************************************************)
(* Type invariant.                                                         *)
(***************************************************************************)
TypeOK ==
    /\ clients \in Tables
    /\ running \in BOOLEAN

(***************************************************************************)
(* "if we would be losing an old command that hasn't been acknowledged, we *)
(* must drop the connection" (sv_main.c:83): nobody in the game has more   *)
(* outstanding commands than the ring holds, however drops cascade.        *)
(***************************************************************************)
WithinRing(c) == Primed(clients[c]) => clients[c].outstanding <= MAX_RELIABLE_COMMANDS

LiveWithinRing == \A c \in Clients : WithinRing(c)

(***************************************************************************)
(* The same for the slots that players hold.                               *)
(***************************************************************************)
PlayersWithinRing == \A c \in Clients : ~clients[c].bot => WithinRing(c)

(***************************************************************************)
(* A client the server counts as connected is known to the game, and one   *)
(* that has left is not.                                                   *)
(***************************************************************************)
GameKnowsConnected ==
    \A c \in Clients : running => (Connected(clients[c]) <=> clients[c].joined = 1)

(***************************************************************************)
(* Whoever leaves the game by way of a zombie slot, through whatever       *)
(* cascade of drops, is told so last: the disconnect command is the last   *)
(* one the zombie slot goes on sending.                                    *)
(***************************************************************************)
ToldLast ==
    [][\A c \in Clients : Primed(clients[c]) /\ clients'[c].state = "zombie"
                              => clients'[c].last = "disconnect"]_vars

(***************************************************************************)
(* A broadcast print "doesn't cause a recursive drop client"               *)
(* (sv_main.c:85): no step disconnects a client from the game twice.       *)
(***************************************************************************)
DisconnectsOnce == \A c \in Clients : clients[c].disconnects <= 1

(***************************************************************************)
(* What holds of recursive drops: the game is never told three times, and  *)
(* twice only of a client that is dropped for another reason than an       *)
(* overflow or that reconnects; never of one that overflows, nor of a      *)
(* bystander of someone else's departure.                                  *)
(***************************************************************************)
DropsNested ==
    [][\A c \in Clients :
          /\ clients'[c].disconnects <= 2
          /\ \/ clients'[c].disconnects <= 1
             \/ \E speaks \in BOOLEAN :
                 \/ Drop(c, speaks)
                 \/ Timeout(c, speaks)
                 \/ \E denied \in BOOLEAN :
                       Connected(clients[c]) /\ SV_DirectConnect(c, denied, speaks)
                 \/ \E refused \in SUBSET Clients :
                       c \in refused /\ SV_SpawnServer(refused, speaks)]_vars
=============================================================================
