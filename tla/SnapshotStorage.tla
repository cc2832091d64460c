-------------------------- MODULE SnapshotStorage --------------------------
(***************************************************************************)
(* The common snapshots of server/sv_snapshot.c: each holds the entities   *)
(* of one server frame, in consecutive places of one ring that all clients *)
(* share.  A client's frame is a list of pointers into that ring, so it is *)
(* of use only as long as its common snapshot has not been released.       *)
(*                                                                         *)
(* An entity's state is <<map, frame, number>>: it differs from frame to   *)
(* frame.  The entities of a frame are numbered from 1.                    *)
(***************************************************************************)
EXTENDS Integers, Sequences, FiniteSetsExt

CONSTANTS
    NUM_SNAPSHOT_FRAMES,    \* common snapshots kept
    numSnapshotEntities,    \* places for entities
    MAX_GENTITIES           \* entities in one frame, at most

ASSUME StorageAssumption ==
    /\ NUM_SNAPSHOT_FRAMES \in Nat \ {0}
    /\ MAX_GENTITIES \in Nat \ {0}
    /\ numSnapshotEntities \in Nat
    /\ numSnapshotEntities >= MAX_GENTITIES

FrameSlot(f) == f % NUM_SNAPSHOT_FRAMES

\* Mutant: positions are not wrapped.
PlaceUnwrapped(p) == p

Place(p) == p % numSnapshotEntities

NoEntity == <<0, 0, 0>>

SV_InitSnapshotStorage ==
    [snapFrames |-> [i \in 0 .. NUM_SNAPSHOT_FRAMES - 1 |-> [start |-> 0, count |-> 0]],
     snapshotEntities |-> [p \in 0 .. numSnapshotEntities - 1 |-> NoEntity],
     freeStorageEntities |-> numSnapshotEntities,
     currentStoragePosition |-> 0,
     snapshotFrame |-> 0,
     lastValidFrame |-> 0]

\* The slot of the frame to be built may hold the oldest frame.
OldestReleased(s) ==
    LET i == FrameSlot(s.snapshotFrame)
    IN  IF s.snapshotFrame - s.lastValidFrame > NUM_SNAPSHOT_FRAMES - 1
        THEN [s EXCEPT !.lastValidFrame = s.snapshotFrame - (NUM_SNAPSHOT_FRAMES - 1),
                       !.freeStorageEntities = @ + s.snapFrames[i].count,
                       !.snapFrames[i].count = 0]
        ELSE s

(***************************************************************************)
(* For each valid frame, and the next one, how much room there is when the *)
(* frames before it have been released.                                    *)
(***************************************************************************)
CountOf(s, f) == s.snapFrames[FrameSlot(f)].count

Room(s) ==
    LET room[v \in s.lastValidFrame .. s.snapshotFrame] ==
            IF v = s.lastValidFrame THEN s.freeStorageEntities
            ELSE room[v - 1] + CountOf(s, v - 1)
    IN  room

\* The frames before v are released: their places are free, their counts 0.
Released(s, v) ==
    [s EXCEPT !.lastValidFrame = v,
              !.freeStorageEntities = Room(s)[v],
              !.snapFrames = [i \in DOMAIN @ |->
                  IF \E f \in s.lastValidFrame .. v - 1 : FrameSlot(f) = i
                  THEN [@[i] EXCEPT !.count = 0] ELSE @[i]]]

\* Mutant: the oldest frames are not given up, only overwritten.
NoRoomMade(s, count) == [s EXCEPT !.freeStorageEntities = IF @ < count THEN count ELSE @]

\* As few more of the oldest frames as it takes to have room for count.
RoomMade(s, count) ==
    LET enough == { v \in s.lastValidFrame .. s.snapshotFrame :
                        v = s.snapshotFrame \/ Room(s)[v] >= count }
    IN  Released(s, Min(enough))

Allocated(s, count, map) ==
    LET f == s.snapshotFrame
        start == s.currentStoragePosition
        written == [i \in 1 .. count |-> Place(start + i - 1)]
    IN  [s EXCEPT
         !.snapFrames[FrameSlot(f)] = [start |-> start, count |-> count],
         !.freeStorageEntities = @ - count,
         !.currentStoragePosition = Place(start + count),
         !.snapshotFrame = f + 1,
         !.snapshotEntities = [p \in DOMAIN @ |->
             IF \E i \in 1 .. count : written[i] = p
             THEN <<map, f, CHOOSE i \in 1 .. count : written[i] = p>> ELSE @[p]]]

(***************************************************************************)
(* SV_BuildCommonSnapshot.  It cannot run out of room, because a single    *)
(* frame fits.                                                             *)
(***************************************************************************)
SV_BuildCommonSnapshot(s, count, map) ==
    Allocated(RoomMade(OldestReleased(s), count), count, map)

\* The pointers a client's frame takes from the newest common snapshot.
NewestEntities(s) ==
    LET newest == s.snapFrames[FrameSlot(s.snapshotFrame - 1)]
    IN  [i \in 1 .. newest.count |-> Place(newest.start + i - 1)]

(***************************************************************************)
(* What makes the storage correct: the frames still counted as valid have  *)
(* all their entities where they were put, and every place is either free  *)
(* or one of theirs.                                                       *)
(***************************************************************************)
ValidFrames(s) == s.lastValidFrame .. s.snapshotFrame - 1

FrameIntact(s, f, map) ==
    LET sf == s.snapFrames[FrameSlot(f)]
    IN  \A i \in 1 .. sf.count :
            s.snapshotEntities[Place(sf.start + i - 1)] = <<map, f, i>>

StorageAccounted(s) == Room(s)[s.snapshotFrame] = numSnapshotEntities
=============================================================================
