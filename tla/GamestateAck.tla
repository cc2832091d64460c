---------------------------- MODULE GamestateAck ----------------------------
(***************************************************************************)
(* How a client gets the gamestate of the current map and how the server   *)
(* finds out: from CS_CONNECTED through CS_PRIMED to CS_ACTIVE, across     *)
(* changes of map and of configstrings, for one connection.                *)
(*                                                                         *)
(* Of the configstrings one is kept, as the number of its latest change.   *)
(* Changes reach a client in the gamestate or, once it is active, as       *)
(* reliable "cs" commands.  cgame applies commands in the order they       *)
(* arrived, so they are applied here when they arrive.                     *)
(***************************************************************************)
EXTENDS MessageChannel

CONSTANTS
    MaxChanges,     \* bound: changes of the configstring
    MaxMaps         \* bound: maps

ASSUME GamestateAckAssumption == {MaxChanges, MaxMaps} \subseteq Nat

VARIABLES
    sv,         \* the server: serverId, and the configstring's latest change
    cl,         \* client_t: state, gamestateAck, gamestateMessageNum,
                \* csUpdated, reliableAcknowledge, and the commands issued
    toServer,   \* client messages in flight
    cg,         \* the client: cl.serverId, its configstring,
                \* serverMessageSequence, serverCommandSequence
    queued      \* history: a gamestate had to wait behind another message

vars == <<sv, cl, chan, toClient, toServer, cg, queued>>

Init ==
    /\ sv = [serverId |-> 1, cs |-> 0]
    /\ cl = [state |-> "connected", gamestateAck |-> "init", gamestateMessageNum |-> -1,
             csUpdated |-> FALSE, reliableAcknowledge |-> 0, reliableCommands |-> << >>]
    /\ ChannelInit
    /\ toServer = << >>
    /\ cg = [serverId |-> 0, cs |-> 0, serverMessageSequence |-> 0,
             serverCommandSequence |-> 0]
    /\ queued = FALSE

-----------------------------------------------------------------------------
(***************************************************************************)
(* Server messages.  Both kinds repeat the unacknowledged commands.        *)
(***************************************************************************)
Message(kind, size, s) ==
    [kind |-> kind, size |-> size, sequence |-> 0,
     serverId |-> sv.serverId, cs |-> sv.cs,
     first |-> s.reliableAcknowledge + 1,
     commands |-> SubSeq(s.reliableCommands, s.reliableAcknowledge + 1,
                         Len(s.reliableCommands))]

SV_TransmitNextFragment ==
    /\ SV_Netchan_TransmitNextFragment
    /\ UNCHANGED <<sv, cl, toServer, cg, queued>>

(***************************************************************************)
(* SV_SendClientMessages: no snapshot before the gamestate, and none while *)
(* the channel is busy.                                                    *)
(***************************************************************************)
SV_SendClientSnapshot(size) ==
    /\ cl.state \in {"primed", "active"}
    /\ ~Busy
    /\ SV_Netchan_Transmit(Message("snapshot", size, cl))
    /\ UNCHANGED <<sv, cl, toServer, cg, queued>>

(***************************************************************************)
(* SV_SetConfigstring: a command to an active client, a mark for others.   *)
(***************************************************************************)
SV_SetConfigstring ==
    /\ sv.cs < MaxChanges
    /\ sv' = [sv EXCEPT !.cs = @ + 1]
    /\ cl' = IF cl.state = "active"
             THEN [cl EXCEPT !.reliableCommands = Append(@, sv.cs + 1)]
             ELSE [cl EXCEPT !.csUpdated = TRUE]
    /\ UNCHANGED <<chan, toClient, toServer, cg, queued>>

(***************************************************************************)
(* SV_SpawnServer: another map, with configstrings of its own that nobody  *)
(* is told of; the client has to get the gamestate again.                  *)
(***************************************************************************)
SV_SpawnServer ==
    /\ sv.serverId < MaxMaps
    /\ sv.cs < MaxChanges
    /\ sv' = [serverId |-> sv.serverId + 1, cs |-> sv.cs + 1]
    /\ cl' = [cl EXCEPT !.state = "connected", !.gamestateAck = "init"]
    /\ UNCHANGED <<chan, toClient, toServer, cg, queued>>

(***************************************************************************)
(* SV_SendClientGameState.  A repeated gamestate that differs from the one *)
(* before has to be acknowledged exactly.                                  *)
(***************************************************************************)
Primed(s) ==
    [s EXCEPT !.state = "primed",
              !.gamestateMessageNum = chan.outgoingSequence,
              !.csUpdated = FALSE,
              !.gamestateAck = IF @ = "init" \/ (@ = "once" /\ ~s.csUpdated)
                               THEN "once" ELSE "many"]

SV_SendClientGameState(s, size) ==
    /\ cl' = Primed(s)
    /\ queued' = (queued \/ Busy)
    /\ SV_Netchan_Transmit(Message("gamestate", size, s))

(***************************************************************************)
(* The early check of SV_ExecuteClientMessage for an acknowledgement of    *)
(* the gamestate.                                                          *)
(***************************************************************************)
\* Mutant: the client's map is not looked at.
EarlyCheckAnyMap(s, m) ==
    IF m.messageAcknowledge = s.gamestateMessageNum
    THEN [s EXCEPT !.gamestateAck = "acked"] ELSE s

EarlyCheck(s, m) ==
    LET delta == m.messageAcknowledge - s.gamestateMessageNum
    IN  IF /\ s.gamestateAck # "acked"
           /\ m.serverId = sv.serverId
           /\ delta = 0 \/ (delta > 0 /\ s.gamestateAck = "once")
        THEN [s EXCEPT !.gamestateAck = "acked"] ELSE s

(***************************************************************************)
(* SV_ClientEnterWorld: what changed since the gamestate goes out as       *)
(* commands.                                                               *)
(***************************************************************************)
\* Mutant: the changes are forgotten.
SV_ClientEnterWorldSilently(s) ==
    [s EXCEPT !.state = "active", !.gamestateAck = "acked", !.csUpdated = FALSE]

SV_ClientEnterWorld(s) ==
    [s EXCEPT !.state = "active", !.gamestateAck = "acked", !.csUpdated = FALSE,
              !.reliableCommands = IF s.csUpdated THEN Append(@, sv.cs) ELSE @]

(***************************************************************************)
(* SV_ExecuteClientMessage, as far as it is about the gamestate.  limited  *)
(* says whether gamestate_rate forbids to send one.                        *)
(***************************************************************************)
SV_ExecuteClientMessage(i, limited, size) ==
    LET m == toServer[i]
        s == [cl EXCEPT !.reliableAcknowledge = m.reliableAcknowledge]
        e == EarlyCheck(s, m)
        illegible == \/ chan.outgoingSequence <= m.messageAcknowledge
                     \/ Len(cl.reliableCommands) < m.reliableAcknowledge
        resend == e.state = "primed" /\ m.messageAcknowledge > e.gamestateMessageNum
        Unsent == UNCHANGED <<chan, toClient, queued>>
    IN  /\ toServer' = SubSeq(toServer, i + 1, Len(toServer))
        /\ IF illegible THEN cl' = cl /\ Unsent
           ELSE IF cl.state = "connected" THEN
               IF limited THEN cl' = s /\ Unsent ELSE SV_SendClientGameState(s, size)
           ELSE IF e.gamestateAck # "acked" THEN
               IF limited \/ ~resend THEN cl' = e /\ Unsent
               ELSE SV_SendClientGameState(e, size)
           ELSE /\ cl' = IF m.move /\ e.state = "primed" THEN SV_ClientEnterWorld(e) ELSE e
                /\ Unsent
        /\ UNCHANGED <<sv, cg>>

(***************************************************************************)
(* CL_ParseServerMessage.  A gamestate replaces the configstrings and      *)
(* makes void the commands before it; of a snapshot's commands the new     *)
(* ones count.                                                             *)
(***************************************************************************)
\* Mutant: one short.
LastInShort(m) == m.first + Len(m.commands) - 2

LastIn(m) == m.first + Len(m.commands) - 1

CL_ParseServerMessage(i) ==
    LET m == toClient[i]
        last == LastIn(m)
    IN  /\ toClient' = SubSeq(toClient, i + 1, Len(toClient))
        /\ cg' = IF m.kind = "gamestate"
                 THEN [serverId |-> m.serverId, cs |-> m.cs,
                       serverMessageSequence |-> m.sequence,
                       serverCommandSequence |-> last]
                 ELSE [cg EXCEPT
                       !.serverMessageSequence = m.sequence,
                       !.serverCommandSequence = IF last > @ THEN last ELSE @,
                       !.cs = IF last > cg.serverCommandSequence
                              THEN m.commands[Len(m.commands)] ELSE @]
        /\ UNCHANGED <<sv, cl, chan, toServer, queued>>

(***************************************************************************)
(* CL_WritePacket: moves are sent once a gamestate has been loaded.        *)
(***************************************************************************)
CL_WritePacket(move) ==
    /\ Len(toServer) < MaxInFlight
    /\ move => cg.serverId # 0
    /\ toServer' = Append(toServer,
           [serverId |-> cg.serverId, messageAcknowledge |-> cg.serverMessageSequence,
            reliableAcknowledge |-> cg.serverCommandSequence, move |-> move])
    /\ UNCHANGED <<sv, cl, chan, toClient, cg, queued>>

Next ==
    \/ SV_TransmitNextFragment
    \/ \E size \in Sizes : SV_SendClientSnapshot(size)
    \/ SV_SetConfigstring
    \/ SV_SpawnServer
    \/ \E i \in 1 .. Len(toServer), limited \in BOOLEAN, size \in Sizes :
           SV_ExecuteClientMessage(i, limited, size)
    \/ \E i \in 1 .. Len(toClient) : CL_ParseServerMessage(i)
    \/ \E move \in BOOLEAN : CL_WritePacket(move)

Spec == Init /\ [][Next]_vars
-----------------------------------------------------------------------------
(***************************************************************************)
(* Type invariant.                                                         *)
(***************************************************************************)
MessageType ==
    [kind : {"gamestate", "snapshot"}, size : Sizes, sequence : Nat,
     serverId : Nat, cs : Nat, first : Nat, commands : Seq(Nat)]

TypeOK ==
    /\ sv \in [serverId : Nat, cs : Nat]
    /\ cl \in [state : {"connected", "primed", "active"},
               gamestateAck : {"init", "once", "many", "acked"},
               gamestateMessageNum : Nat \cup {-1}, csUpdated : BOOLEAN,
               reliableAcknowledge : Nat, reliableCommands : Seq(Nat)]
    /\ chan \in [outgoingSequence : Nat, sending : MessageType \cup {NoMessage},
                 queue : Seq(MessageType)]
    /\ toClient \in Seq(MessageType)
    /\ toServer \in Seq([serverId : Nat, messageAcknowledge : Nat,
                         reliableAcknowledge : Nat, move : BOOLEAN])
    /\ cg \in [serverId : Nat, cs : Nat, serverMessageSequence : Nat,
               serverCommandSequence : Nat]
    /\ queued \in BOOLEAN

(***************************************************************************)
(* The server takes a gamestate for acknowledged, and lets a client into   *)
(* the world, only when the client has loaded the current map.             *)
(***************************************************************************)
AckedSameMap ==
    cl.gamestateAck = "acked" \/ cl.state = "active" => cg.serverId = sv.serverId

(***************************************************************************)
(* A client in the world that has received every command, and has no       *)
(* gamestate coming, has the server's configstrings: none of their changes *)
(* falls between the gamestate and the commands, however often the         *)
(* gamestate was repeated or lost.                                         *)
(***************************************************************************)
GamestateComing == \E m \in Coming : m.kind = "gamestate"

ActiveUpToDate ==
    /\ cl.state = "active"
    /\ cg.serverCommandSequence = Len(cl.reliableCommands)
    /\ ~GamestateComing
    => cg.cs = sv.cs

(***************************************************************************)
(* The same as long as every gamestate leaves the moment it is built, so   *)
(* that the number noted for it is the one it carries.                     *)
(***************************************************************************)
UpToDateUnlessQueued == ~queued => ActiveUpToDate
=============================================================================
