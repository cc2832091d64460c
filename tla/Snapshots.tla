----------------------------- MODULE Snapshots -----------------------------
(***************************************************************************)
(* Delta-compressed snapshots of one client, across lost messages, queued  *)
(* messages and changes of map: server/sv_snapshot.c builds and encodes    *)
(* them, SV_UserMove (server/sv_client.c) learns what they may be encoded  *)
(* against, CL_ParseSnapshot (client/cl_parse.c) decodes them and          *)
(* CL_GetSnapshot (client/cl_cgame.c) hands them to cgame.                 *)
(*                                                                         *)
(* A snapshot's content is [ps, ents]: the player state, which is          *)
(* different for every message and stands as that message's number, and    *)
(* the entities.  A client sees all entities of a common snapshot.         *)
(* A delta decodes to the content encoded if the client applies it to the  *)
(* content the server took it from, and to Garbage if not.                 *)
(*                                                                         *)
(* Other clients appear as the common snapshots they cause.                *)
(***************************************************************************)
EXTENDS MessageChannel, SnapshotStorage

CONSTANTS
    PACKET_BACKUP,          \* frames kept per client, at both ends
    MAX_SNAPSHOT_ENTITIES,  \* entities in a snapshot, at most
    Entities    \* bound: for each map how many entities each of its frames has

ASSUME SnapshotsAssumption ==
    /\ PACKET_BACKUP \in Nat \ {0}
    /\ MAX_SNAPSHOT_ENTITIES \in Nat
    /\ MAX_SNAPSHOT_ENTITIES >= MAX_GENTITIES
    /\ Entities \in Seq(Seq(0 .. MAX_GENTITIES))
    /\ Entities # << >>

VARIABLES
    svs,        \* the storage of the common snapshots
    serverId,   \* sv.serverId: the map
    cl,         \* client_t: state, gamestateAck, gamestateMessageNum,
                \* deltaMessage, frames; messageAcknowledge is used only
                \* while the message that has it is read
    toServer,   \* client messages in flight
    cg,         \* the client: serverId, serverMessageSequence, snap,
                \* snapshots, parseEntities, parseEntitiesNum
    built,      \* history: the content built for each message
    queued      \* history: a gamestate had to wait behind another message

vars == <<svs, serverId, cl, chan, toClient, toServer, cg, built, queued>>

MAX_PARSE_ENTITIES == PACKET_BACKUP * MAX_SNAPSHOT_ENTITIES
Slot(n) == n % PACKET_BACKUP
ParseSlot(n) == n % MAX_PARSE_ENTITIES

NoContent == [ps |-> 0, ents |-> << >>]
Garbage == <<-1, -1, -1>>

NoFrame == [frameNum |-> 0, ps |-> 0, ents |-> << >>]
NoSnap == [valid |-> FALSE, messageNum |-> 0, ps |-> 0, parseEntitiesNum |-> 0, numEntities |-> 0]

\* CL_ClearState wipes all of clientActive_t.
Cleared ==
    [serverId |-> 0, serverMessageSequence |-> 0, snap |-> NoSnap,
     snapshots |-> [i \in 0 .. PACKET_BACKUP - 1 |-> NoSnap],
     parseEntities |-> [i \in 0 .. MAX_PARSE_ENTITIES - 1 |-> NoEntity],
     parseEntitiesNum |-> 0]

ForceReset(s) == [s EXCEPT !.deltaMessage = chan.outgoingSequence - (PACKET_BACKUP + 1)]

Init ==
    /\ svs = SV_InitSnapshotStorage
    /\ serverId = 1
    /\ cl = [state |-> "connected", gamestateAck |-> "init", gamestateMessageNum |-> -1, deltaMessage |-> 0,
             frames |-> [i \in 0 .. PACKET_BACKUP - 1 |-> NoFrame]]
    /\ ChannelInit
    /\ toServer = << >>
    /\ cg = Cleared
    /\ built = [n \in 1 .. MaxSequence |-> NoContent]
    /\ queued = FALSE

-----------------------------------------------------------------------------
(***************************************************************************)
(* The server builds a snapshot: SV_BuildClientSnapshot fills the frame of *)
(* the next message, SV_WriteSnapshotToClient encodes it.  A client has a  *)
(* gentity, and with it entities, as soon as a gamestate has been built    *)
(* for it; but a delta is sent only to an active one.                      *)
(***************************************************************************)
SV_BuildClientSnapshot(s) ==
    [cl EXCEPT !.frames[Slot(chan.outgoingSequence)] =
        [frameNum |-> s.snapshotFrame - 1, ps |-> chan.outgoingSequence, ents |-> NewestEntities(s)]]

\* What the pointers of a frame lead to now.
ContentOf(s, frame) ==
    [ps |-> frame.ps, ents |-> [i \in 1 .. Len(frame.ents) |-> s.snapshotEntities[frame.ents[i]]]]

\* The number of messages back to the frame encoded against, or 0.
\* Mutant: the storage of the frame is not looked at.
LastFrameUnchecked(s, c) ==
    LET back == chan.outgoingSequence - c.deltaMessage
    IN  IF c.state = "active" /\ back < PACKET_BACKUP - 3 THEN back ELSE 0

LastFrame(s, c) ==
    LET back == chan.outgoingSequence - c.deltaMessage
        oldframe == c.frames[Slot(c.deltaMessage)]
    IN  IF /\ c.state = "active"
           /\ back < PACKET_BACKUP - 3
           /\ oldframe.frameNum >= s.lastValidFrame
        THEN back ELSE 0

SnapshotMessage(s, c, size) ==
    LET lastframe == LastFrame(s, c)
        new == ContentOf(s, c.frames[Slot(chan.outgoingSequence)])
    IN  [kind |-> "snapshot", size |-> size, sequence |-> 0, lastframe |-> lastframe, new |-> new,
         base |-> IF lastframe = 0 THEN NoContent
                  ELSE ContentOf(s, c.frames[Slot(c.deltaMessage)])]

\* Mutant: snapshots are sent while the channel is busy.
SnapshotDueAnyTime == cl.state \in {"primed", "active"}

SnapshotDue == cl.state \in {"primed", "active"} /\ ~Busy

(***************************************************************************)
(* SV_SendClientMessages: nothing is built unless somebody is due for a    *)
(* snapshot; then all who are share one common snapshot.                   *)
(***************************************************************************)
CommonSnapshot ==
    SV_BuildCommonSnapshot(svs, Entities[serverId][svs.snapshotFrame + 1], serverId)

SV_SendOthersSnapshots ==
    /\ svs.snapshotFrame < Len(Entities[serverId])
    /\ svs' = CommonSnapshot
    /\ UNCHANGED <<serverId, cl, chan, toClient, toServer, cg, built, queued>>

SV_SendClientSnapshot(size) ==
    LET s == CommonSnapshot
        c == SV_BuildClientSnapshot(s)
    IN  /\ SnapshotDue
        /\ svs.snapshotFrame < Len(Entities[serverId])
        /\ svs' = s
        /\ cl' = c
        /\ SV_Netchan_Transmit(SnapshotMessage(s, c, size))
        /\ built' = [built EXCEPT ![chan.outgoingSequence] =
                         ContentOf(s, c.frames[Slot(chan.outgoingSequence)])]
        /\ UNCHANGED <<serverId, toServer, cg, queued>>

SV_TransmitNextFragment ==
    /\ SV_Netchan_TransmitNextFragment
    /\ UNCHANGED <<svs, serverId, cl, toServer, cg, built, queued>>

(***************************************************************************)
(* SV_SpawnServer: the storage is new, the client's frames are the old     *)
(* ones.                                                                   *)
(***************************************************************************)
SV_SpawnServer ==
    /\ serverId < Len(Entities)
    /\ serverId' = serverId + 1
    /\ svs' = SV_InitSnapshotStorage
    /\ cl' = [cl EXCEPT !.state = "connected", !.gamestateAck = "init"]
    /\ UNCHANGED <<chan, toClient, toServer, cg, built, queued>>

-----------------------------------------------------------------------------
(***************************************************************************)
(* The server reads a client message.  csUpdated says whether a            *)
(* configstring has changed since the gamestate was last sent (GamestateAck *)
(* has the configstrings).                                                 *)
(***************************************************************************)
SV_SendClientGameState(s, size, csUpdated) ==
    /\ cl' = [s EXCEPT !.state = "primed", !.gamestateMessageNum = chan.outgoingSequence,
                       !.gamestateAck = IF @ = "init" \/ (@ = "once" /\ ~csUpdated)
                                        THEN "once" ELSE "many"]
    /\ queued' = (queued \/ Busy)
    /\ SV_Netchan_Transmit([kind |-> "gamestate", size |-> size, sequence |-> 0,
                            serverId |-> serverId])

EarlyCheck(s, m) ==
    IF /\ s.gamestateAck # "acked"
       /\ m.serverId = serverId
       /\ \/ m.messageAcknowledge = s.gamestateMessageNum
          \/ m.messageAcknowledge > s.gamestateMessageNum /\ s.gamestateAck = "once"
    THEN [s EXCEPT !.gamestateAck = "acked"] ELSE s

\* SV_UserMove: the first move puts the client into the world.
SV_UserMove(s, m) ==
    IF s.state = "primed" THEN ForceReset([s EXCEPT !.state = "active"])
    ELSE IF m.move = "delta" THEN [s EXCEPT !.deltaMessage = m.messageAcknowledge]
    ELSE ForceReset(s)

SV_ExecuteClientMessage(limited, size, csUpdated) ==
    LET m == Head(toServer)
        e == EarlyCheck(cl, m)
        resend == e.state = "primed" /\ m.messageAcknowledge > e.gamestateMessageNum
        Unsent == UNCHANGED <<chan, toClient, queued>>
    IN  /\ toServer # << >>
        /\ toServer' = Tail(toServer)
        /\ IF chan.outgoingSequence <= m.messageAcknowledge THEN cl' = cl /\ Unsent
           ELSE IF cl.state = "connected" THEN
               IF limited THEN cl' = cl /\ Unsent ELSE SV_SendClientGameState(cl, size, csUpdated)
           ELSE IF e.gamestateAck # "acked" THEN
               IF limited \/ ~resend THEN cl' = e /\ Unsent ELSE SV_SendClientGameState(e, size, csUpdated)
           ELSE /\ cl' = IF m.move = "none" THEN e ELSE SV_UserMove(e, m)
                /\ Unsent
        /\ UNCHANGED <<svs, serverId, cg, built>>

-----------------------------------------------------------------------------
(***************************************************************************)
(* The client reads a server message.                                      *)
(***************************************************************************)
\* Entities c.parseEntitiesNum .. of a snapshot, as they are now.
EntitiesOf(c, snap) ==
    [i \in 1 .. snap.numEntities |-> c.parseEntities[ParseSlot(snap.parseEntitiesNum + i - 1)]]

ClientContent(c, snap) == [ps |-> snap.ps, ents |-> EntitiesOf(c, snap)]

(***************************************************************************)
(* CL_ParsePacketEntities.  Entities of old that the message does not      *)
(* mention are copied; those it removes still overwrite the place that the *)
(* next entity will have.                                                  *)
(***************************************************************************)
Decoded(c, old, m) ==
    LET right == m.lastframe = 0 \/ ClientContent(c, old) = m.base
        mentioned == IF Len(m.base.ents) > Len(m.new.ents)
                     THEN Len(m.base.ents) ELSE Len(m.new.ents)
        copied == IF m.lastframe # 0 /\ old.numEntities > mentioned
                  THEN old.numEntities - mentioned ELSE 0
    IN  [ents |-> IF right THEN m.new.ents
                  ELSE [i \in 1 .. Len(m.new.ents) + copied |-> Garbage],
         ps |-> IF right THEN m.new.ps ELSE -1,
         removal |-> copied = 0 /\ mentioned > Len(m.new.ents)]

Parsed(c, d) ==
    LET n == Len(d.ents)
        written == n + (IF d.removal THEN 1 ELSE 0)
        At(p) == CHOOSE k \in 1 .. written :
                    /\ ParseSlot(c.parseEntitiesNum + k - 1) = p
                    /\ \A j \in k + 1 .. written : ParseSlot(c.parseEntitiesNum + j - 1) # p
    IN  [c EXCEPT !.parseEntitiesNum = @ + n,
                  !.parseEntities = [p \in DOMAIN @ |->
                      IF \E k \in 1 .. written : ParseSlot(c.parseEntitiesNum + k - 1) = p
                      THEN IF At(p) > n THEN Garbage ELSE d.ents[At(p)]
                      ELSE @[p]]]

\* What CL_ParseSnapshot requires of the frame the delta is from.
DeltaUsable(c, deltaNum) ==
    LET old == c.snapshots[Slot(deltaNum)]
    IN  /\ old.valid
        /\ old.messageNum = deltaNum
        /\ c.parseEntitiesNum - old.parseEntitiesNum <= MAX_PARSE_ENTITIES - MAX_SNAPSHOT_ENTITIES

\* Snapshots between the last one and this one were not received.
Skipped(c, n) ==
    LET first == IF n - (c.snap.messageNum + 1) >= PACKET_BACKUP
                 THEN n - (PACKET_BACKUP - 1) ELSE c.snap.messageNum + 1
    IN  {Slot(k) : k \in first .. n - 1}

CL_ParseSnapshot(c, m) ==
    LET deltaNum == IF m.lastframe = 0 THEN -1 ELSE m.sequence - m.lastframe
        valid == deltaNum <= 0 \/ DeltaUsable(c, deltaNum)
        old == IF deltaNum <= 0 THEN NoSnap ELSE c.snapshots[Slot(deltaNum)]
        d == Decoded(c, old, m)
        p == Parsed(c, d)
        newSnap == [valid |-> TRUE, messageNum |-> m.sequence, ps |-> d.ps,
                    parseEntitiesNum |-> c.parseEntitiesNum, numEntities |-> Len(d.ents)]
    IN  IF valid
        THEN [p EXCEPT !.snap = newSnap,
                       !.snapshots = [i \in DOMAIN @ |->
                           IF i = Slot(m.sequence) THEN newSnap
                           ELSE IF i \in Skipped(c, m.sequence) THEN [@[i] EXCEPT !.valid = FALSE]
                           ELSE @[i]]]
        ELSE p

CL_ParseGamestate(m) == [Cleared EXCEPT !.serverId = m.serverId]

CL_ParseServerMessage ==
    LET m == Head(toClient)
        c == IF m.kind = "gamestate" THEN CL_ParseGamestate(m) ELSE CL_ParseSnapshot(cg, m)
    IN  /\ toClient # << >>
        /\ toClient' = Tail(toClient)
        /\ cg' = [c EXCEPT !.serverMessageSequence = m.sequence]
        /\ UNCHANGED <<svs, serverId, cl, chan, toServer, built, queued>>

(***************************************************************************)
(* CL_WritePacket: a delta is asked for only if the last message was a     *)
(* snapshot and could be decoded.  There are no moves before the first     *)
(* gamestate.                                                              *)
(***************************************************************************)
MoveKind ==
    IF ~cg.snap.valid \/ cg.serverMessageSequence # cg.snap.messageNum THEN "noDelta" ELSE "delta"

CL_WritePacket(move) ==
    /\ Len(toServer) < MaxInFlight
    /\ move => cg.serverId # 0
    /\ toServer' = Append(toServer,
           [serverId |-> cg.serverId, messageAcknowledge |-> cg.serverMessageSequence,
            move |-> IF move THEN MoveKind ELSE "none"])
    /\ UNCHANGED <<svs, serverId, cl, chan, toClient, cg, built, queued>>

(***************************************************************************)
(* The network loses the oldest message in flight.  Nothing is sent while  *)
(* MaxInFlight messages are in flight: a message that arrives late cannot  *)
(* be told from one that its receiver, or its sender, puts off.            *)
(***************************************************************************)
LoseToClient ==
    /\ toClient # << >>
    /\ toClient' = Tail(toClient)
    /\ UNCHANGED <<svs, serverId, cl, chan, toServer, cg, built, queued>>

LoseToServer ==
    /\ toServer # << >>
    /\ toServer' = Tail(toServer)
    /\ UNCHANGED <<svs, serverId, cl, chan, toClient, cg, built, queued>>

Next ==
    \/ SV_SendOthersSnapshots
    \/ \E size \in Sizes : SV_SendClientSnapshot(size)
    \/ SV_TransmitNextFragment
    \/ SV_SpawnServer
    \/ \E limited, csUpdated \in BOOLEAN, size \in Sizes :
           SV_ExecuteClientMessage(limited, size, csUpdated)
    \/ CL_ParseServerMessage
    \/ \E move \in BOOLEAN : CL_WritePacket(move)
    \/ LoseToClient
    \/ LoseToServer

Spec == Init /\ [][Next]_vars
-----------------------------------------------------------------------------
(***************************************************************************)
(* Type invariant.                                                         *)
(***************************************************************************)
EntityState == Nat \X Nat \X Nat
Content == [ps : Nat, ents : Seq(EntityState)]

ServerMessage ==
    [kind : {"snapshot"}, size : Sizes, sequence : Nat, lastframe : Nat, new : Content, base : Content]
    \cup [kind : {"gamestate"}, size : Sizes, sequence : Nat, serverId : Nat]

ClientSnap ==
    [valid : BOOLEAN, messageNum : Nat, ps : Int, parseEntitiesNum : Nat, numEntities : Nat]

TypeOK ==
    /\ svs \in [snapFrames : [0 .. NUM_SNAPSHOT_FRAMES - 1 -> [start : Nat, count : 0 .. MAX_GENTITIES]],
                snapshotEntities : [0 .. numSnapshotEntities - 1 -> EntityState],
                freeStorageEntities : 0 .. numSnapshotEntities,
                currentStoragePosition : 0 .. numSnapshotEntities - 1,
                snapshotFrame : Nat, lastValidFrame : Nat]
    /\ serverId \in 1 .. Len(Entities)
    /\ cl \in [state : {"connected", "primed", "active"}, gamestateAck : {"init", "once", "many", "acked"},
               gamestateMessageNum : Int, deltaMessage : Int,
               frames : [0 .. PACKET_BACKUP - 1 ->
                            [frameNum : Nat, ps : Nat, ents : Seq(0 .. numSnapshotEntities - 1)]]]
    /\ chan \in [outgoingSequence : Nat, sending : ServerMessage \cup {NoMessage},
                 queue : Seq(ServerMessage)]
    /\ toClient \in Seq(ServerMessage)
    /\ toServer \in Seq([serverId : Nat, messageAcknowledge : Nat, move : {"none", "delta", "noDelta"}])
    /\ cg \in [serverId : Nat, serverMessageSequence : Nat, snap : ClientSnap,
               snapshots : [0 .. PACKET_BACKUP - 1 -> ClientSnap],
               parseEntities : [0 .. MAX_PARSE_ENTITIES - 1 -> EntityState \cup {Garbage}],
               parseEntitiesNum : Nat]
    /\ built \in [1 .. MaxSequence -> Content]
    /\ queued \in BOOLEAN

(***************************************************************************)
(* The storage ring: a frame that a delta may still refer to has not been  *)
(* overwritten, and no place is lost or counted twice.                     *)
(***************************************************************************)
StorageSound ==
    /\ StorageAccounted(svs)
    /\ \A f \in ValidFrames(svs) : FrameIntact(svs, f, serverId)

(***************************************************************************)
(* CL_GetSnapshot hands cgame only snapshots the server built, whatever    *)
(* was lost, queued, overwritten or wiped at either end.                   *)
(***************************************************************************)
CL_GetSnapshot(n) ==
    LET clSnap == cg.snapshots[Slot(n)]
    IN  /\ cg.snap.messageNum - n < PACKET_BACKUP
        /\ clSnap.valid
        /\ cg.parseEntitiesNum - clSnap.parseEntitiesNum < MAX_PARSE_ENTITIES

SnapshotsAsBuilt ==
    \A n \in 1 .. cg.snap.messageNum :
        CL_GetSnapshot(n) => ClientContent(cg, cg.snapshots[Slot(n)]) = built[n]

(***************************************************************************)
(* "Delta from invalid frame (not supposed to happen!)" (cl_parse.c:240):  *)
(* a delta that arrives is from a snapshot the client still has, over lost *)
(* messages, repeated gamestates and changes of map.  A gamestate that was *)
(* queued is the exception: the message noted for it is an earlier one, so *)
(* the server can take a client that is about to wipe its snapshots for    *)
(* one that has done so.                                                   *)
(***************************************************************************)
DeltasUsable ==
    toClient # << >> /\ Head(toClient).kind = "snapshot" /\ Head(toClient).lastframe # 0 =>
        queued \/ DeltaUsable(cg, Head(toClient).sequence - Head(toClient).lastframe)
=============================================================================
