-------------------------- MODULE SnapshotsProofs --------------------------
(***************************************************************************)
(* Theorems about Snapshots: the storage keeps what a delta may refer to,  *)
(* cgame gets only what was built, and deltas that arrive are from         *)
(* snapshots the client has.  They hold for every size of the rings and of *)
(* the storage, and for all numbers of entities.                           *)
(***************************************************************************)
EXTENDS Snapshots, RingLemmas

(***************************************************************************)
(* The storage as a ring.  Counted from the place where the next frame     *)
(* will begin there is first the free room, then the valid frames, the     *)
(* oldest first: each begins where the room that its release would leave   *)
(* ends.                                                                   *)
(***************************************************************************)
StorageType ==
    [snapFrames : [0 .. NUM_SNAPSHOT_FRAMES - 1 -> [start : Nat, count : 0 .. MAX_GENTITIES]],
     snapshotEntities : [0 .. numSnapshotEntities - 1 -> EntityState],
     freeStorageEntities : 0 .. numSnapshotEntities,
     currentStoragePosition : 0 .. numSnapshotEntities - 1,
     snapshotFrame : Nat, lastValidFrame : Nat]

StartOf(s, f) == s.snapFrames[FrameSlot(f)].start

StorageShape(s) ==
    /\ s \in StorageType
    /\ s.snapshotFrame - s.lastValidFrame \in 0 .. NUM_SNAPSHOT_FRAMES

StorageInv(s, map) ==
    /\ StorageShape(s)
    /\ StorageAccounted(s)
    /\ \A f \in ValidFrames(s) : StartOf(s, f) = Place(s.currentStoragePosition + Room(s)[f])
    /\ \A f \in ValidFrames(s) : FrameIntact(s, f, map)

(***************************************************************************)
(* The messages that have been begun and may still arrive, in order.       *)
(* Those in the queue have no number yet.                                  *)
(***************************************************************************)
Line == IF chan.sending = NoMessage THEN toClient ELSE Append(toClient, chan.sending)

\* The number of the next message to be begun.
NextNumber == IF chan.sending = NoMessage THEN chan.outgoingSequence ELSE chan.outgoingSequence + 1

Snapshot(m) == m.kind = "snapshot"
Gamestate(m) == m.kind = "gamestate"
Delta(m) == m.lastframe # 0
NumberOf(m) == m.sequence
OldNumber(m) == m.sequence - m.lastframe
MapOf(m) == m.serverId
New(m) == m.new
AsksDelta(reply) == reply.move = "delta"
Acks(reply) == reply.messageAcknowledge

SendingNumbered == chan.sending # NoMessage => chan.sending.sequence = chan.outgoingSequence

\* Messages have numbers in their order, after last and before next.
LineNumbers(line, last, next) ==
    /\ \A i \in 1 .. Len(line) : last < NumberOf(line[i]) /\ NumberOf(line[i]) < next
    /\ \A i, j \in 1 .. Len(line) : i < j => NumberOf(line[i]) < NumberOf(line[j])

ReplyNumbers(replies, last) ==
    /\ \A i \in 1 .. Len(replies) : Acks(replies[i]) <= last
    /\ \A i, j \in 1 .. Len(replies) : i < j => Acks(replies[i]) <= Acks(replies[j])

NumberInv ==
    /\ SendingNumbered
    /\ cg.serverMessageSequence < chan.outgoingSequence
    /\ LineNumbers(Line, cg.serverMessageSequence, NextNumber)
    /\ ReplyNumbers(toServer, cg.serverMessageSequence)
    /\ cl.gamestateMessageNum <= chan.outgoingSequence
    /\ \A i \in 1 .. Len(chan.queue) : Gamestate(chan.queue[i])

(***************************************************************************)
(* Maps: gamestates arrive in the order of their maps, and a client that   *)
(* counts as having acknowledged one is on the server's map.               *)
(***************************************************************************)
LineMaps(line, queue, low, high) ==
    /\ \A i \in 1 .. Len(line) : Gamestate(line[i]) => low <= MapOf(line[i]) /\ MapOf(line[i]) <= high
    /\ \A i \in 1 .. Len(queue) : low <= MapOf(queue[i]) /\ MapOf(queue[i]) <= high
    /\ \A i, j \in 1 .. Len(line) :
          i < j /\ Gamestate(line[i]) /\ Gamestate(line[j]) => MapOf(line[i]) <= MapOf(line[j])
    /\ \A i \in 1 .. Len(line), j \in 1 .. Len(queue) :
          Gamestate(line[i]) => MapOf(line[i]) <= MapOf(queue[j])
    /\ \A i, j \in 1 .. Len(queue) : i < j => MapOf(queue[i]) <= MapOf(queue[j])

ReplyMaps(replies, map) ==
    /\ \A i \in 1 .. Len(replies) : MapOf(replies[i]) <= map
    /\ \A i, j \in 1 .. Len(replies) : i < j => MapOf(replies[i]) <= MapOf(replies[j])

RepliesOf(replies, map) == \A i \in 1 .. Len(replies) : MapOf(replies[i]) = map

MapInv ==
    /\ cg.serverId <= serverId
    /\ LineMaps(Line, chan.queue, cg.serverId, serverId)
    /\ ReplyMaps(toServer, cg.serverId)
    /\ cl.state = "connected" <=> cl.gamestateAck = "init"
    /\ cl.state = "active" => cl.gamestateAck = "acked"
    /\ cl.gamestateAck = "acked" => cg.serverId = serverId /\ RepliesOf(toServer, serverId)

(***************************************************************************)
(* What was built, and for which map.                                      *)
(***************************************************************************)
Built(b, n) == n \in 1 .. MaxSequence /\ b[n].ps = n

OfMap(content, map) == \A k \in 1 .. Len(content.ents) : content.ents[k][1] = map

Since(content, map) == \A k \in 1 .. Len(content.ents) : map <= content.ents[k][1]

BuiltInv ==
    \A n \in 1 .. MaxSequence :
        /\ built[n].ps \in {0, n}
        /\ built[n].ps = n => n < NextNumber
        /\ Len(built[n].ents) <= MAX_GENTITIES
        /\ \A k \in 1 .. Len(built[n].ents) : built[n].ents[k][1] <= serverId

(***************************************************************************)
(* The server's frames: each of the last PACKET_BACKUP snapshots has its   *)
(* own, and its pointers lead to what was built as long as the common      *)
(* snapshot it is from is valid.                                           *)
(***************************************************************************)
PointsTo(frame, content, s, map) ==
    /\ frame.frameNum < s.snapshotFrame
    /\ CountOf(s, frame.frameNum) = Len(frame.ents)
    /\ \A k \in 1 .. Len(frame.ents) :
          /\ frame.ents[k] = Place(StartOf(s, frame.frameNum) + k - 1)
          /\ content.ents[k] = <<map, frame.frameNum, k>>

FrameInv(frame, b, s, map) ==
    /\ Built(b, frame.ps)
    /\ Len(frame.ents) = Len(b[frame.ps].ents)
    /\ OfMap(b[frame.ps], map) /\ frame.frameNum >= s.lastValidFrame
          => frame.ents = << >> \/ PointsTo(frame, b[frame.ps], s, map)

FramesInv ==
    /\ \A i \in 0 .. PACKET_BACKUP - 1 :
          cl.frames[i].ps # 0 => FrameInv(cl.frames[i], built, svs, serverId)
    /\ \A n \in 1 .. MaxSequence :
          Built(built, n) /\ NextNumber - n <= PACKET_BACKUP => cl.frames[Slot(n)].ps = n

(***************************************************************************)
(* What the server takes its deltas from, as an acknowledgement told it:   *)
(* a snapshot of this map, or one too old to be used.                      *)
(***************************************************************************)
Reset == chan.outgoingSequence - cl.deltaMessage > PACKET_BACKUP

RepliesBuilt(replies, b) ==
    \A i \in 1 .. Len(replies) :
        AsksDelta(replies[i]) =>
            Built(b, Acks(replies[i])) /\ Since(b[Acks(replies[i])], MapOf(replies[i]))

AcknowledgedInv ==
    /\ cl.state = "active" => Reset \/ (Built(built, cl.deltaMessage) /\ OfMap(built[cl.deltaMessage], serverId))
    /\ RepliesBuilt(toServer, built)

(***************************************************************************)
(* A snapshot on its way is the one built for its number, encoded against  *)
(* another that was built, and is of no earlier map than the one that the  *)
(* client will be on when it arrives.                                      *)
(***************************************************************************)
Carries(m, b) ==
    /\ Built(b, NumberOf(m))
    /\ m.new = b[NumberOf(m)]
    /\ Delta(m) =>
          /\ Built(b, OldNumber(m))
          /\ m.base = b[OldNumber(m)]
          /\ m.lastframe < PACKET_BACKUP - 3
    /\ ~Delta(m) => m.base.ents = << >>

LineSnapshots(line, map, b) ==
    \A i \in 1 .. Len(line) :
        Snapshot(line[i]) =>
            /\ Carries(line[i], b)
            /\ Since(New(line[i]), map)
            /\ \A j \in 1 .. i - 1 : Gamestate(line[j]) => Since(New(line[i]), MapOf(line[j]))

SnapshotsInv == LineSnapshots(Line, cg.serverId, built)

(***************************************************************************)
(* The client's snapshots are the last PACKET_BACKUP up to the newest one, *)
(* each in its place, and their entities are those that were built until   *)
(* the ring of entities has gone round.                                    *)
(***************************************************************************)
SnapInv(snap, i, c, b) ==
    /\ Built(b, snap.messageNum)
    /\ Slot(snap.messageNum) = i
    /\ snap.messageNum <= c.snap.messageNum
    /\ c.snap.messageNum - snap.messageNum < PACKET_BACKUP
    /\ Since(b[snap.messageNum], c.serverId)
    /\ snap.parseEntitiesNum + snap.numEntities <= c.parseEntitiesNum
    /\ c.parseEntitiesNum - snap.parseEntitiesNum
          <= (c.serverMessageSequence - snap.messageNum + 1) * MAX_SNAPSHOT_ENTITIES
    /\ c.parseEntitiesNum - snap.parseEntitiesNum < MAX_PARSE_ENTITIES
          => ClientContent(c, snap) = b[snap.messageNum]

Has(c, n) == c.snapshots[Slot(n)].valid /\ c.snapshots[Slot(n)].messageNum = n

ClientInv ==
    /\ \A i \in 0 .. PACKET_BACKUP - 1 :
          /\ cg.snapshots[i].numEntities <= MAX_GENTITIES
          /\ cg.snapshots[i].valid => SnapInv(cg.snapshots[i], i, cg, built)
    /\ cg.snap.messageNum <= cg.serverMessageSequence
    /\ cg.snap.valid => Has(cg, cg.snap.messageNum)

(***************************************************************************)
(* Unless a gamestate was queued, a client that counts as having           *)
(* acknowledged one will not be sent another on this map, so what it then  *)
(* acknowledges it keeps until it has PACKET_BACKUP newer ones.            *)
(***************************************************************************)
Kept(c, n) == c.snap.messageNum - n < PACKET_BACKUP => Has(c, n)

LineGamestates(line, n) == \A i \in 1 .. Len(line) : Gamestate(line[i]) => NumberOf(line[i]) <= n

LineKept(line, c) ==
    \A i \in 1 .. Len(line) :
        Snapshot(line[i]) /\ Delta(line[i]) =>
            Kept(c, OldNumber(line[i])) /\ \A j \in 1 .. i - 1 : ~Gamestate(line[j])

RepliesFrom(replies, n) == \A i \in 1 .. Len(replies) : n <= Acks(replies[i])

RepliesKept(replies, c, n) ==
    \A i \in 1 .. Len(replies) :
        AsksDelta(replies[i]) => Kept(c, Acks(replies[i])) \/ Acks(replies[i]) < n

KeptInv ==
    ~queued =>
        /\ chan.queue = << >>
        /\ LineGamestates(Line, cl.gamestateMessageNum)
        /\ LineKept(Line, cg)
        /\ cl.gamestateAck = "acked" =>
              /\ cl.gamestateMessageNum <= cg.serverMessageSequence
              /\ RepliesFrom(toServer, cl.gamestateMessageNum)
        /\ RepliesKept(toServer, cg, cl.gamestateMessageNum)
        /\ cl.state = "active" => Reset \/ Kept(cg, cl.deltaMessage)

IInv ==
    /\ TypeOK
    /\ StorageInv(svs, serverId)
    /\ NumberInv
    /\ MapInv
    /\ BuiltInv
    /\ FramesInv
    /\ AcknowledgedInv
    /\ SnapshotsInv
    /\ ClientInv
    /\ KeptInv

-----------------------------------------------------------------------------
(***************************************************************************)
(* The storage.  First its constants, and its places as a ring.            *)
(***************************************************************************)
LEMMA StorageSizes ==
  /\ NUM_SNAPSHOT_FRAMES \in Nat \ {0}
  /\ MAX_GENTITIES \in Nat \ {0}
  /\ numSnapshotEntities \in Nat \ {0}
  /\ MAX_GENTITIES <= numSnapshotEntities
  BY StorageAssumption

(***************************************************************************)
(* Places are in the ring, and going on from one is going on in the ring.  *)
(***************************************************************************)
LEMMA PlaceType == ASSUME NEW p \in Int PROVE Place(p) \in 0 .. numSnapshotEntities - 1
  BY StorageSizes, SlotInRing DEF Place

(***************************************************************************)
(* Going on from a place is going on in the ring.                          *)
(***************************************************************************)
LEMMA PlaceAfterPlace ==
  ASSUME NEW p \in Int, NEW q \in Int
  PROVE  Place(Place(p) + q) = Place(p + q)
  BY StorageSizes, SlotAfterSlot DEF Place

(***************************************************************************)
(* Different places are not the same.                                      *)
(***************************************************************************)
LEMMA PlacesDiffer ==
  ASSUME NEW p \in Int, NEW q \in Int, p < q, q - p < numSnapshotEntities
  PROVE  Place(p) # Place(q)
  BY StorageSizes, SlotsDiffer DEF Place

(***************************************************************************)
(* Frames that are valid at the same time have different slots.            *)
(***************************************************************************)
LEMMA FrameSlotsDiffer ==
  ASSUME NEW f \in Int, NEW g \in Int, f < g, g - f < NUM_SNAPSHOT_FRAMES
  PROVE  FrameSlot(f) # FrameSlot(g)
  BY StorageSizes, SlotsDiffer DEF FrameSlot

(***************************************************************************)
(* Every frame has a slot.                                                 *)
(***************************************************************************)
LEMMA FrameSlotType == ASSUME NEW f \in Int PROVE FrameSlot(f) \in 0 .. NUM_SNAPSHOT_FRAMES - 1
  BY StorageSizes, SlotInRing DEF FrameSlot

(***************************************************************************)
(* Room is a sum of counts.                                                *)
(***************************************************************************)
Counts(s) == [f \in ValidFrames(s) |-> CountOf(s, f)]

SumOfCounts(r, s) ==
    IsSum(r, s.lastValidFrame, s.snapshotFrame, s.freeStorageEntities, Counts(s))

(***************************************************************************)
(* Room's recursive definition is satisfied by the sum.                    *)
(***************************************************************************)
LEMMA RoomIsSum ==
  ASSUME NEW s, s.lastValidFrame \in Nat, s.snapshotFrame \in Nat,
         s.lastValidFrame <= s.snapshotFrame
  PROVE  SumOfCounts(Room(s), s)
<1> DEFINE a == s.lastValidFrame
           k == s.snapshotFrame - s.lastValidFrame
<1>1. PICK g : IsSum(g, a, a + k, s.freeStorageEntities, Counts(s))
  BY SumExists
<1>2. a + k = s.snapshotFrame
  OBVIOUS
<1>3. ASSUME NEW h
      PROVE  SumOfCounts(h, s) <=>
             h = [v \in s.lastValidFrame .. s.snapshotFrame |->
                    IF v = s.lastValidFrame THEN s.freeStorageEntities
                    ELSE h[v - 1] + CountOf(s, v - 1)]
  <2>1. ASSUME NEW v \in s.lastValidFrame .. s.snapshotFrame, v # s.lastValidFrame
        PROVE  Counts(s)[v - 1] = CountOf(s, v - 1)
    <3>1. v - 1 \in ValidFrames(s)
      BY <2>1 DEF ValidFrames
    <3> QED
      BY <3>1 DEF Counts
  <2> DEFINE A == [v \in s.lastValidFrame .. s.snapshotFrame |->
                    IF v = s.lastValidFrame THEN s.freeStorageEntities
                    ELSE h[v - 1] + CountOf(s, v - 1)]
             B == [v \in s.lastValidFrame .. s.snapshotFrame |->
                    IF v = s.lastValidFrame THEN s.freeStorageEntities
                    ELSE h[v - 1] + Counts(s)[v - 1]]
  <2>2. A = B
    BY <2>1
  <2>3. SumOfCounts(h, s) <=> h = B
    BY DEF SumOfCounts, IsSum
  <2> QED
    BY <2>2, <2>3
<1>4. SumOfCounts(g, s)
  BY <1>1, <1>2 DEF SumOfCounts
<1> QED
  BY <1>3, <1>4 DEF Room

(***************************************************************************)
(* The types of a storage's parts.                                         *)
(***************************************************************************)
LEMMA StorageParts ==
  ASSUME NEW s, StorageShape(s)
  PROVE  /\ s.lastValidFrame \in Nat /\ s.snapshotFrame \in Nat
         /\ s.lastValidFrame <= s.snapshotFrame
         /\ s.snapshotFrame - s.lastValidFrame <= NUM_SNAPSHOT_FRAMES
         /\ s.freeStorageEntities \in 0 .. numSnapshotEntities
         /\ s.currentStoragePosition \in 0 .. numSnapshotEntities - 1
         /\ \A f \in Int : CountOf(s, f) \in 0 .. MAX_GENTITIES /\ StartOf(s, f) \in Nat
<1>1. s \in StorageType /\ s.snapshotFrame - s.lastValidFrame \in 0 .. NUM_SNAPSHOT_FRAMES
  BY DEF StorageShape
<1>2. /\ s.lastValidFrame \in Nat /\ s.snapshotFrame \in Nat
      /\ s.freeStorageEntities \in 0 .. numSnapshotEntities
      /\ s.currentStoragePosition \in 0 .. numSnapshotEntities - 1
  BY <1>1 DEF StorageType
<1>3. s.lastValidFrame <= s.snapshotFrame /\ s.snapshotFrame - s.lastValidFrame <= NUM_SNAPSHOT_FRAMES
  BY <1>1, <1>2, StorageSizes
<1>4. ASSUME NEW f \in Int
      PROVE  CountOf(s, f) \in 0 .. MAX_GENTITIES /\ StartOf(s, f) \in Nat
  <2>1. FrameSlot(f) \in 0 .. NUM_SNAPSHOT_FRAMES - 1
    BY FrameSlotType
  <2>2. s.snapFrames[FrameSlot(f)] \in [start : Nat, count : 0 .. MAX_GENTITIES]
    BY <1>1, <2>1 DEF StorageType
  <2> QED
    BY <2>2 DEF CountOf, StartOf
<1> QED
  BY <1>2, <1>3, <1>4

(***************************************************************************)
(* Room, one frame after the other.                                        *)
(***************************************************************************)
LEMMA RoomSteps ==
  ASSUME NEW s, StorageShape(s)
  PROVE  /\ Room(s)[s.lastValidFrame] = s.freeStorageEntities
         /\ \A f \in ValidFrames(s) :
               /\ f + 1 \in s.lastValidFrame .. s.snapshotFrame
               /\ Room(s)[f + 1] = Room(s)[f] + CountOf(s, f)
<1>1. /\ s.lastValidFrame \in Nat /\ s.snapshotFrame \in Nat
      /\ s.lastValidFrame <= s.snapshotFrame
  BY StorageParts
<1>2. IsSum(Room(s), s.lastValidFrame, s.snapshotFrame, s.freeStorageEntities, Counts(s))
  BY <1>1, RoomIsSum DEF SumOfCounts
<1>3. \A v \in s.lastValidFrame .. s.snapshotFrame :
          Room(s)[v] = IF v = s.lastValidFrame THEN s.freeStorageEntities
                       ELSE Room(s)[v - 1] + Counts(s)[v - 1]
  BY <1>2 DEF IsSum
<1>4. s.lastValidFrame \in s.lastValidFrame .. s.snapshotFrame
  BY <1>1
<1>5. ASSUME NEW f \in ValidFrames(s)
      PROVE  /\ f + 1 \in s.lastValidFrame .. s.snapshotFrame
             /\ Room(s)[f + 1] = Room(s)[f] + CountOf(s, f)
  <2>1. f + 1 \in s.lastValidFrame .. s.snapshotFrame /\ f + 1 # s.lastValidFrame /\ (f + 1) - 1 = f
    BY <1>1 DEF ValidFrames
  <2>2. Counts(s)[f] = CountOf(s, f)
    BY DEF Counts
  <2> QED
    BY <1>3, <2>1, <2>2
<1> QED
  BY <1>3, <1>4, <1>5

(***************************************************************************)
(* Releasing more frames gives more room.                                  *)
(***************************************************************************)
LEMMA RoomGrows ==
  ASSUME NEW s, StorageShape(s)
  PROVE  \A v, w \in s.lastValidFrame .. s.snapshotFrame :
            Room(s)[v] \in Nat /\ (v <= w => Room(s)[v] <= Room(s)[w])
<1> DEFINE a == s.lastValidFrame
           b == s.snapshotFrame
           T == {n \in Nat : a + n <= b =>
                    /\ Room(s)[a + n] \in Nat
                    /\ \A v \in a .. a + n : Room(s)[v] \in Nat /\ Room(s)[v] <= Room(s)[a + n]}
<1>1. a \in Nat /\ b \in Nat /\ a <= b /\ s.freeStorageEntities \in Nat
  BY StorageParts
<1>2. \A f \in Int : CountOf(s, f) \in Nat
  BY StorageParts
<1>3. /\ Room(s)[a] = s.freeStorageEntities
      /\ \A f \in a .. b - 1 : Room(s)[f + 1] = Room(s)[f] + CountOf(s, f)
  BY RoomSteps DEF ValidFrames
<1> HIDE DEF a, b
<1>4. 0 \in T
  <2>1. a + 0 = a /\ a .. a + 0 = {a}
    BY <1>1
  <2> QED
    BY <1>1, <1>3, <2>1
<1>5. ASSUME NEW n \in Nat, n \in T PROVE n + 1 \in T
  <2> SUFFICES ASSUME a + (n + 1) <= b
               PROVE  /\ Room(s)[a + (n + 1)] \in Nat
                      /\ \A v \in a .. a + (n + 1) :
                            Room(s)[v] \in Nat /\ Room(s)[v] <= Room(s)[a + (n + 1)]
    OBVIOUS
  <2>1. /\ Room(s)[a + n] \in Nat
        /\ \A v \in a .. a + n : Room(s)[v] \in Nat /\ Room(s)[v] <= Room(s)[a + n]
    BY <1>1, <1>5
  <2>2. a + n \in a .. b - 1 /\ (a + n) + 1 = a + (n + 1) /\ a + n \in Int
    BY <1>1
  <2>3. Room(s)[a + (n + 1)] = Room(s)[a + n] + CountOf(s, a + n)
    BY <1>3, <2>2
  <2>4. Room(s)[a + (n + 1)] \in Nat /\ Room(s)[a + n] <= Room(s)[a + (n + 1)]
    BY <1>2, <2>1, <2>2, <2>3
  <2>5. ASSUME NEW v \in a .. a + (n + 1)
        PROVE  Room(s)[v] \in Nat /\ Room(s)[v] <= Room(s)[a + (n + 1)]
    <3>1. v \in a .. a + n \/ v = a + (n + 1)
      BY <1>1
    <3> QED
      BY <2>1, <2>4, <3>1
  <2> QED
    BY <2>4, <2>5
<1>6. Nat \subseteq T
  BY <1>4, <1>5, Induction
<1>7. ASSUME NEW v \in a .. b, NEW w \in a .. b
      PROVE  Room(s)[v] \in Nat /\ (v <= w => Room(s)[v] <= Room(s)[w])
  <2>1. v - a \in Nat /\ w - a \in Nat /\ a + (v - a) = v /\ a + (w - a) = w
    BY <1>1
  <2>2. v - a \in T /\ w - a \in T
    BY <1>6, <2>1
  <2>3. Room(s)[v] \in Nat
    BY <2>1, <2>2
  <2>4. ASSUME v <= w PROVE Room(s)[v] <= Room(s)[w]
    <3>1. v \in a .. a + (w - a)
      BY <1>1, <2>4
    <3> QED
      BY <2>1, <2>2, <3>1
  <2> QED
    BY <2>3, <2>4
<1> QED
  BY <1>7 DEF a, b

(***************************************************************************)
(* Two storages with the same counts of frames have the same room for      *)
(* them, but for a difference at the oldest one.                           *)
(***************************************************************************)
SameCounts(s, t) ==
    \A f \in t.lastValidFrame .. s.snapshotFrame - 1 : CountOf(t, f) = CountOf(s, f)

(***************************************************************************)
(* Room in both storages, for the frames that both have.                   *)
(***************************************************************************)
LEMMA RoomDiffers ==
  ASSUME NEW s, NEW t, StorageShape(s), StorageShape(t), SameCounts(s, t), NEW d \in Int,
         t.lastValidFrame \in s.lastValidFrame .. s.snapshotFrame,
         s.snapshotFrame <= t.snapshotFrame,
         t.freeStorageEntities = Room(s)[t.lastValidFrame] - d
  PROVE  \A v \in t.lastValidFrame .. s.snapshotFrame : Room(t)[v] = Room(s)[v] - d
<1> DEFINE a == t.lastValidFrame
           b == s.snapshotFrame
           T == {n \in Nat : a + n <= b => Room(t)[a + n] = Room(s)[a + n] - d}
<1>1. a \in Nat /\ b \in Nat /\ a <= b /\ s.lastValidFrame <= a /\ s.lastValidFrame \in Nat
      /\ t.snapshotFrame \in Nat
  BY StorageParts
<1>2. \A f \in Int : CountOf(s, f) \in Nat
  BY StorageParts
<1>3. \A f \in a .. b - 1 : Room(s)[f + 1] = Room(s)[f] + CountOf(s, f)
  <2>1. \A f \in a .. b - 1 : f \in ValidFrames(s)
    BY <1>1 DEF ValidFrames
  <2> QED
    BY <2>1, RoomSteps
<1>4. \A f \in a .. b - 1 : Room(t)[f + 1] = Room(t)[f] + CountOf(s, f)
  <2>1. \A f \in a .. b - 1 : f \in ValidFrames(t) /\ CountOf(t, f) = CountOf(s, f)
    BY <1>1 DEF ValidFrames, SameCounts
  <2> QED
    BY <2>1, RoomSteps
<1>5. Room(t)[a] = Room(s)[a] - d
  BY RoomSteps
<1>6. \A v \in a .. b : Room(s)[v] \in Nat
  <2>1. \A v \in a .. b : v \in s.lastValidFrame .. s.snapshotFrame
    BY <1>1
  <2> QED
    BY <2>1, RoomGrows
<1> HIDE DEF a, b
<1>7. 0 \in T
  BY <1>1, <1>5
<1>8. ASSUME NEW n \in Nat, n \in T PROVE n + 1 \in T
  <2> SUFFICES ASSUME a + (n + 1) <= b
               PROVE  Room(t)[a + (n + 1)] = Room(s)[a + (n + 1)] - d
    OBVIOUS
  <2>1. Room(t)[a + n] = Room(s)[a + n] - d
    BY <1>1, <1>8
  <2>2. a + n \in a .. b - 1 /\ (a + n) + 1 = a + (n + 1) /\ a + n \in Int /\ a + n \in a .. b
    BY <1>1
  <2>3. /\ Room(s)[a + (n + 1)] = Room(s)[a + n] + CountOf(s, a + n)
        /\ Room(t)[a + (n + 1)] = Room(t)[a + n] + CountOf(s, a + n)
    BY <1>3, <1>4, <2>2
  <2> QED
    BY <1>2, <1>6, <2>1, <2>2, <2>3
<1>9. Nat \subseteq T
  BY <1>7, <1>8, Induction
<1>10. ASSUME NEW v \in a .. b PROVE Room(t)[v] = Room(s)[v] - d
  <2>1. v - a \in Nat /\ a + (v - a) = v
    BY <1>1
  <2>2. v - a \in T
    BY <1>9, <2>1
  <2> QED
    BY <2>1, <2>2
<1> QED
  BY <1>10 DEF a, b

(***************************************************************************)
(* A storage t that is s but for the release of the frames before v.       *)
(***************************************************************************)
Gives(s, t, v) ==
    /\ t \in StorageType
    /\ t.lastValidFrame = v
    /\ t.snapshotFrame = s.snapshotFrame
    /\ t.freeStorageEntities = Room(s)[v]
    /\ t.currentStoragePosition = s.currentStoragePosition
    /\ t.snapshotEntities = s.snapshotEntities
    /\ \A f \in v .. s.snapshotFrame - 1 : t.snapFrames[FrameSlot(f)] = s.snapFrames[FrameSlot(f)]

(***************************************************************************)
(* Releasing the oldest frames keeps the storage sound.                    *)
(***************************************************************************)
LEMMA GivesSound ==
  ASSUME NEW s, NEW t, NEW map, NEW v \in s.lastValidFrame .. s.snapshotFrame,
         StorageInv(s, map), Gives(s, t, v)
  PROVE  StorageInv(t, map)
<1>1. StorageShape(s) /\ StorageAccounted(s)
  BY DEF StorageInv
<1>2. /\ s.lastValidFrame \in Nat /\ s.snapshotFrame \in Nat
      /\ s.lastValidFrame <= s.snapshotFrame
      /\ s.snapshotFrame - s.lastValidFrame <= NUM_SNAPSHOT_FRAMES
  BY <1>1, StorageParts
<1>3. t.lastValidFrame = v /\ t.snapshotFrame = s.snapshotFrame /\ t.freeStorageEntities = Room(s)[v]
      /\ t.currentStoragePosition = s.currentStoragePosition
      /\ t.snapshotEntities = s.snapshotEntities
  BY DEF Gives
<1>4. StorageShape(t)
  <2>1. t.snapshotFrame - t.lastValidFrame \in 0 .. NUM_SNAPSHOT_FRAMES
    BY <1>2, <1>3, StorageSizes
  <2> QED
    BY <2>1 DEF StorageShape, Gives
<1>5. \A f \in v .. s.snapshotFrame - 1 :
         t.snapFrames[FrameSlot(f)] = s.snapFrames[FrameSlot(f)]
  BY DEF Gives
<1>6. \A w \in v .. s.snapshotFrame : Room(t)[w] = Room(s)[w]
  <2>1. SameCounts(s, t)
    BY <1>3, <1>5 DEF SameCounts, CountOf
  <2>2. Room(s)[v] \in Nat /\ \A w \in v .. s.snapshotFrame : Room(s)[w] \in Nat
    <3>1. \A w \in v .. s.snapshotFrame : w \in s.lastValidFrame .. s.snapshotFrame
      BY <1>2
    <3> QED
      BY <1>1, <3>1, RoomGrows
  <2>3. t.freeStorageEntities = Room(s)[t.lastValidFrame] - 0
    BY <1>3, <2>2
  <2>4. s.snapshotFrame <= t.snapshotFrame
    BY <1>2, <1>3
  <2>5. \A w \in t.lastValidFrame .. s.snapshotFrame : Room(t)[w] = Room(s)[w] - 0
    BY <1>1, <1>3, <1>4, <2>1, <2>3, <2>4, RoomDiffers
  <2> QED
    BY <1>3, <2>2, <2>5
<1>7. StorageAccounted(t)
  <2>1. s.snapshotFrame \in v .. s.snapshotFrame
    BY <1>2
  <2> QED
    BY <1>1, <1>3, <1>6, <2>1 DEF StorageAccounted
<1>8. ASSUME NEW f \in ValidFrames(t)
      PROVE  /\ StartOf(t, f) = Place(t.currentStoragePosition + Room(t)[f])
             /\ FrameIntact(t, f, map)
  <2>1. f \in v .. s.snapshotFrame - 1 /\ f \in v .. s.snapshotFrame /\ f \in ValidFrames(s)
    BY <1>2, <1>3 DEF ValidFrames
  <2>2. t.snapFrames[FrameSlot(f)] = s.snapFrames[FrameSlot(f)]
    BY <1>5, <2>1
  <2>3. StartOf(s, f) = Place(s.currentStoragePosition + Room(s)[f]) /\ FrameIntact(s, f, map)
    BY <2>1 DEF StorageInv
  <2>4. StartOf(t, f) = Place(t.currentStoragePosition + Room(t)[f])
    BY <1>3, <1>6, <2>1, <2>2, <2>3 DEF StartOf
  <2>5. FrameIntact(t, f, map)
    BY <1>3, <2>2, <2>3 DEF FrameIntact
  <2> QED
    BY <2>4, <2>5
<1> QED
  BY <1>4, <1>7, <1>8 DEF StorageInv

(***************************************************************************)
(* Releasing the frames before v does that.                                *)
(***************************************************************************)
LEMMA ReleasedGives ==
  ASSUME NEW s, StorageShape(s), StorageAccounted(s),
         NEW v \in s.lastValidFrame .. s.snapshotFrame
  PROVE  Gives(s, Released(s, v), v)
<1> DEFINE t == Released(s, v)
           frames == [i \in DOMAIN s.snapFrames |->
                         IF \E f \in s.lastValidFrame .. v - 1 : FrameSlot(f) = i
                         THEN [s.snapFrames[i] EXCEPT !.count = 0] ELSE s.snapFrames[i]]
<1>1. /\ s.lastValidFrame \in Nat /\ s.snapshotFrame \in Nat
      /\ s.lastValidFrame <= s.snapshotFrame
      /\ s.snapshotFrame - s.lastValidFrame <= NUM_SNAPSHOT_FRAMES
  BY StorageParts
<1>2. s \in StorageType
  BY DEF StorageShape
<1>3. t = [s EXCEPT !.lastValidFrame = v, !.freeStorageEntities = Room(s)[v], !.snapFrames = frames]
  BY DEF Released
<1>4. s.snapFrames \in [0 .. NUM_SNAPSHOT_FRAMES - 1 -> [start : Nat, count : 0 .. MAX_GENTITIES]]
  BY <1>2 DEF StorageType
<1>5. frames \in [0 .. NUM_SNAPSHOT_FRAMES - 1 -> [start : Nat, count : 0 .. MAX_GENTITIES]]
  <2>1. ASSUME NEW i \in 0 .. NUM_SNAPSHOT_FRAMES - 1
        PROVE  [s.snapFrames[i] EXCEPT !.count = 0] \in [start : Nat, count : 0 .. MAX_GENTITIES]
    <3>1. s.snapFrames[i] \in [start : Nat, count : 0 .. MAX_GENTITIES]
      BY <1>4
    <3>2. 0 \in 0 .. MAX_GENTITIES
      BY StorageSizes
    <3> QED
      BY <3>1, <3>2
  <2> QED
    BY <1>4, <2>1
<1>6. Room(s)[v] \in 0 .. numSnapshotEntities
  <2>1. s.snapshotFrame \in s.lastValidFrame .. s.snapshotFrame /\ v <= s.snapshotFrame
    BY <1>1
  <2>2. Room(s)[v] \in Nat /\ Room(s)[v] <= Room(s)[s.snapshotFrame]
    BY <2>1, RoomGrows
  <2> QED
    BY <2>2, StorageSizes DEF StorageAccounted
<1>7. v \in Nat
  BY <1>1
<1> HIDE DEF frames
<1>8. t \in StorageType
  BY <1>2, <1>3, <1>5, <1>6, <1>7 DEF StorageType
<1>9. /\ t.lastValidFrame = v
      /\ t.snapshotFrame = s.snapshotFrame
      /\ t.freeStorageEntities = Room(s)[v]
      /\ t.currentStoragePosition = s.currentStoragePosition
      /\ t.snapshotEntities = s.snapshotEntities
      /\ t.snapFrames = frames
  BY <1>2, <1>3 DEF StorageType
<1>10. ASSUME NEW f \in v .. s.snapshotFrame - 1
       PROVE  frames[FrameSlot(f)] = s.snapFrames[FrameSlot(f)]
  <2>1. FrameSlot(f) \in DOMAIN s.snapFrames
    <3>1. f \in Int
      BY <1>1
    <3>2. DOMAIN s.snapFrames = 0 .. NUM_SNAPSHOT_FRAMES - 1
      BY <1>4
    <3> QED
      BY <3>1, <3>2, FrameSlotType
  <2>2. ASSUME NEW g \in s.lastValidFrame .. v - 1 PROVE FrameSlot(g) # FrameSlot(f)
    <3>1. g \in Int /\ f \in Int /\ g < f /\ f - g < NUM_SNAPSHOT_FRAMES
      BY <1>1, StorageSizes
    <3> QED
      BY <3>1, FrameSlotsDiffer
  <2> QED
    BY <2>1, <2>2 DEF frames
<1> QED
  BY <1>8, <1>9, <1>10 DEF Gives

(***************************************************************************)
(* If the ring of frames is full, its oldest frame is in the slot of the   *)
(* next one, and is the one released.                                      *)
(***************************************************************************)
LEMMA OldestGives ==
  ASSUME NEW s, StorageShape(s), StorageAccounted(s)
  PROVE  \E v \in s.lastValidFrame .. s.snapshotFrame :
            /\ Gives(s, OldestReleased(s), v)
            /\ s.snapshotFrame - v < NUM_SNAPSHOT_FRAMES
<1>1. /\ s.lastValidFrame \in Nat /\ s.snapshotFrame \in Nat
      /\ s.lastValidFrame <= s.snapshotFrame
      /\ s.snapshotFrame - s.lastValidFrame <= NUM_SNAPSHOT_FRAMES
      /\ s.freeStorageEntities \in Nat
  BY StorageParts
<1>2. s \in StorageType
  BY DEF StorageShape
<1>3. CASE s.snapshotFrame - s.lastValidFrame > NUM_SNAPSHOT_FRAMES - 1
  <2> DEFINE v == s.lastValidFrame + 1
             i == FrameSlot(s.snapshotFrame)
  <2>1. s.snapshotFrame = s.lastValidFrame + NUM_SNAPSHOT_FRAMES
    BY <1>1, <1>3, StorageSizes
  <2>2. v \in s.lastValidFrame .. s.snapshotFrame /\ s.snapshotFrame - v < NUM_SNAPSHOT_FRAMES
        /\ s.snapshotFrame - (NUM_SNAPSHOT_FRAMES - 1) = v
    BY <1>1, <2>1, StorageSizes
  <2>3. FrameSlot(s.lastValidFrame) = i
    <3>1. (s.lastValidFrame + NUM_SNAPSHOT_FRAMES) % NUM_SNAPSHOT_FRAMES
             = s.lastValidFrame % NUM_SNAPSHOT_FRAMES
      <4>1. s.lastValidFrame \in Int /\ NUM_SNAPSHOT_FRAMES \in Nat \ {0}
        BY <1>1, StorageSizes
      <4> QED
        BY <4>1, OnceRound
    <3> QED
      BY <2>1, <3>1 DEF FrameSlot
  <2>4. i \in 0 .. NUM_SNAPSHOT_FRAMES - 1
    BY <1>1, FrameSlotType
  <2>5. Room(s)[v] = s.freeStorageEntities + s.snapFrames[i].count
    <3>1. s.lastValidFrame \in ValidFrames(s)
      BY <1>1, <2>1, StorageSizes DEF ValidFrames
    <3> QED
      BY <2>3, <3>1, RoomSteps DEF CountOf
  <2>6. s.snapFrames \in [0 .. NUM_SNAPSHOT_FRAMES - 1 -> [start : Nat, count : 0 .. MAX_GENTITIES]]
    BY <1>2 DEF StorageType
  <2> DEFINE frames == [j \in DOMAIN s.snapFrames |->
                         IF \E f \in s.lastValidFrame .. v - 1 : FrameSlot(f) = j
                         THEN [s.snapFrames[j] EXCEPT !.count = 0] ELSE s.snapFrames[j]]
  <2>7. frames = [s.snapFrames EXCEPT ![i].count = 0]
    <3>1. \A f : f \in s.lastValidFrame .. v - 1 <=> f = s.lastValidFrame
      BY <1>1
    <3>2. \A j : (\E f \in s.lastValidFrame .. v - 1 : FrameSlot(f) = j) <=> j = i
      BY <2>3, <3>1
    <3>3. frames = [j \in DOMAIN s.snapFrames |->
                      IF j = i THEN [s.snapFrames[j] EXCEPT !.count = 0] ELSE s.snapFrames[j]]
      BY <3>2
    <3> HIDE DEF i
    <3> QED
      BY <2>4, <2>6, <3>3
  <2> HIDE DEF frames
  <2>8. OldestReleased(s)
          = [s EXCEPT !.lastValidFrame = v, !.freeStorageEntities = Room(s)[v], !.snapFrames = frames]
    BY <1>3, <2>2, <2>5, <2>7 DEF OldestReleased
  <2>9. Released(s, v)
          = [s EXCEPT !.lastValidFrame = v, !.freeStorageEntities = Room(s)[v], !.snapFrames = frames]
    BY DEF Released, frames
  <2>10. Gives(s, OldestReleased(s), v)
    BY <2>2, <2>8, <2>9, ReleasedGives
  <2> QED
    BY <2>2, <2>10
<1>4. CASE ~(s.snapshotFrame - s.lastValidFrame > NUM_SNAPSHOT_FRAMES - 1)
  <2>1. OldestReleased(s) = s
    BY <1>4 DEF OldestReleased
  <2>2. s.lastValidFrame \in s.lastValidFrame .. s.snapshotFrame
        /\ s.snapshotFrame - s.lastValidFrame < NUM_SNAPSHOT_FRAMES
    BY <1>1, <1>4, StorageSizes
  <2>3. s.freeStorageEntities = Room(s)[s.lastValidFrame]
    BY RoomSteps
  <2>4. Gives(s, s, s.lastValidFrame)
    BY <1>2, <2>3 DEF Gives
  <2> QED
    BY <2>1, <2>2, <2>4
<1> QED
  BY <1>3, <1>4

(***************************************************************************)
(* Then as many frames are released as the new one needs room for.         *)
(***************************************************************************)
LEMMA RoomMadeGives ==
  ASSUME NEW s, StorageShape(s), StorageAccounted(s), NEW count \in 0 .. MAX_GENTITIES
  PROVE  \E v \in s.lastValidFrame .. s.snapshotFrame :
            /\ Gives(s, RoomMade(s, count), v)
            /\ count <= Room(s)[v]
<1> DEFINE enough == { v \in s.lastValidFrame .. s.snapshotFrame :
                          v = s.snapshotFrame \/ Room(s)[v] >= count }
<1>1. /\ s.lastValidFrame \in Nat /\ s.snapshotFrame \in Nat
      /\ s.lastValidFrame <= s.snapshotFrame
  BY StorageParts
<1>2. enough \subseteq Nat /\ s.snapshotFrame \in enough
  BY <1>1
<1>3. Min(enough) \in enough
  <2>1. \E x \in enough : \A y \in enough : x <= y
    <3> HIDE DEF enough
    <3> QED
      BY <1>2, Least
  <2> HIDE DEF enough
  <2> QED
    BY <2>1 DEF Min
<1>4. RoomMade(s, count) = Released(s, Min(enough))
  BY DEF RoomMade
<1>5. Min(enough) \in s.lastValidFrame .. s.snapshotFrame
  BY <1>3
<1>6. count <= Room(s)[Min(enough)]
  <2>1. CASE Min(enough) = s.snapshotFrame
    BY <2>1, StorageSizes DEF StorageAccounted
  <2>2. CASE Room(s)[Min(enough)] >= count
    <3>1. Room(s)[Min(enough)] \in Nat
      BY <1>5, RoomGrows
    <3> HIDE DEF enough
    <3> QED
      BY <2>2, <3>1
  <2> QED
    BY <1>3, <2>1, <2>2
<1> QED
  BY <1>4, <1>5, <1>6, ReleasedGives

(***************************************************************************)
(* What building a common snapshot does to the storage: a frame more, and  *)
(* those that stay valid where they were.                                  *)
(***************************************************************************)
Adds(s, t, count) ==
    /\ t.snapshotFrame = s.snapshotFrame + 1
    /\ t.lastValidFrame \in s.lastValidFrame .. s.snapshotFrame
    /\ \A f \in t.lastValidFrame .. s.snapshotFrame - 1 :
          t.snapFrames[FrameSlot(f)] = s.snapFrames[FrameSlot(f)]
    /\ CountOf(t, s.snapshotFrame) = count

(***************************************************************************)
(* A frame that fits is put where the free room begins: no valid frame is  *)
(* touched.                                                                *)
(***************************************************************************)
LEMMA AllocatedSound ==
  ASSUME NEW s, NEW map \in Nat, NEW count \in 0 .. MAX_GENTITIES,
         StorageInv(s, map),
         s.snapshotFrame - s.lastValidFrame < NUM_SNAPSHOT_FRAMES,
         count <= s.freeStorageEntities
  PROVE  StorageInv(Allocated(s, count, map), map) /\ Adds(s, Allocated(s, count, map), count)
<1> DEFINE t == Allocated(s, count, map)
           new == s.snapshotFrame
           start == s.currentStoragePosition
           frames == [s.snapFrames EXCEPT ![FrameSlot(new)] = [start |-> start, count |-> count]]
           written == [i \in 1 .. count |-> Place(start + i - 1)]
           entities == [p \in DOMAIN s.snapshotEntities |->
                          IF \E i \in 1 .. count : written[i] = p
                          THEN <<map, new, CHOOSE i \in 1 .. count : written[i] = p>>
                          ELSE s.snapshotEntities[p]]
<1>1. StorageShape(s) /\ StorageAccounted(s)
  BY DEF StorageInv
<1>2. /\ s.lastValidFrame \in Nat /\ new \in Nat
      /\ s.lastValidFrame <= new
      /\ new - s.lastValidFrame < NUM_SNAPSHOT_FRAMES
      /\ s.freeStorageEntities \in 0 .. numSnapshotEntities
      /\ start \in 0 .. numSnapshotEntities - 1
      /\ count \in Nat /\ count <= MAX_GENTITIES
      /\ count <= s.freeStorageEntities
  BY <1>1, StorageParts, StorageSizes
<1>3. s \in StorageType
  BY <1>1 DEF StorageShape
<1>4. t = [s EXCEPT !.snapFrames = frames, !.freeStorageEntities = s.freeStorageEntities - count,
                    !.currentStoragePosition = Place(start + count), !.snapshotFrame = new + 1,
                    !.snapshotEntities = entities]
  BY DEF Allocated
<1>5. /\ t.snapFrames = frames
      /\ t.freeStorageEntities = s.freeStorageEntities - count
      /\ t.currentStoragePosition = Place(start + count)
      /\ t.snapshotFrame = new + 1
      /\ t.lastValidFrame = s.lastValidFrame
      /\ t.snapshotEntities = entities
  <2> HIDE DEF frames, entities
  <2> QED
    BY <1>3, <1>4 DEF StorageType
<1>6. \A i \in 1 .. count : written[i] = Place(start + i - 1) /\ Place(start + i - 1) \in 0 .. numSnapshotEntities - 1
  BY <1>2, PlaceType
<1>7. FrameSlot(new) \in 0 .. NUM_SNAPSHOT_FRAMES - 1
  BY <1>2, FrameSlotType
<1>8. t \in StorageType
  <2>1. frames \in [0 .. NUM_SNAPSHOT_FRAMES - 1 -> [start : Nat, count : 0 .. MAX_GENTITIES]]
    <3>1. s.snapFrames \in [0 .. NUM_SNAPSHOT_FRAMES - 1 -> [start : Nat, count : 0 .. MAX_GENTITIES]]
      BY <1>3 DEF StorageType
    <3>2. [start |-> start, count |-> count] \in [start : Nat, count : 0 .. MAX_GENTITIES]
      BY <1>2
    <3> HIDE DEF start, new
    <3> QED
      BY <1>7, <3>1, <3>2
  <2>2. entities \in [0 .. numSnapshotEntities - 1 -> EntityState]
    <3>1. s.snapshotEntities \in [0 .. numSnapshotEntities - 1 -> EntityState]
      BY <1>3 DEF StorageType
    <3>2. ASSUME NEW p \in 0 .. numSnapshotEntities - 1, \E i \in 1 .. count : written[i] = p
          PROVE  <<map, new, CHOOSE i \in 1 .. count : written[i] = p>> \in EntityState
      <4> HIDE DEF written
      <4>1. (CHOOSE i \in 1 .. count : written[i] = p) \in 1 .. count
        BY <3>2
      <4>2. (CHOOSE i \in 1 .. count : written[i] = p) \in Nat
        BY <1>2, <4>1
      <4> QED
        BY <1>2, <4>2 DEF EntityState
    <3> HIDE DEF written, new
    <3> QED
      BY <3>1, <3>2
  <2>3. Place(start + count) \in 0 .. numSnapshotEntities - 1
    BY <1>2, PlaceType
  <2>4. s.freeStorageEntities - count \in 0 .. numSnapshotEntities /\ new + 1 \in Nat
    BY <1>2, StorageSizes
  <2> HIDE DEF frames, entities, new, start
  <2> QED
    BY <1>3, <1>4, <2>1, <2>2, <2>3, <2>4 DEF StorageType
<1>9. StorageShape(t)
  <2>1. \A a, b \in Nat, n \in Nat : a <= b /\ b - a < n => (b + 1) - a \in 0 .. n
    OBVIOUS
  <2> HIDE DEF t, new
  <2>2. (new + 1) - s.lastValidFrame \in 0 .. NUM_SNAPSHOT_FRAMES
    BY <1>2, <2>1, StorageSizes
  <2>3. t.snapshotFrame - t.lastValidFrame \in 0 .. NUM_SNAPSHOT_FRAMES
    BY <1>5, <2>2
  <2> QED
    BY <1>8, <2>3 DEF StorageShape
<1> HIDE DEF t
<1>10. \A f \in ValidFrames(s) : frames[FrameSlot(f)] = s.snapFrames[FrameSlot(f)]
  <2> TAKE f \in ValidFrames(s)
  <2>1. f \in Int /\ f < new /\ new - f < NUM_SNAPSHOT_FRAMES
    BY <1>2, StorageSizes DEF ValidFrames
  <2>2. FrameSlot(f) # FrameSlot(new)
    BY <1>2, <2>1, FrameSlotsDiffer
  <2>3. FrameSlot(f) \in DOMAIN s.snapFrames
    <3>1. DOMAIN s.snapFrames = 0 .. NUM_SNAPSHOT_FRAMES - 1
      BY <1>3 DEF StorageType
    <3> QED
      BY <2>1, <3>1, FrameSlotType
  <2> QED
    BY <2>2, <2>3
<1>11. CountOf(t, new) = count /\ StartOf(t, new) = start
  <2>1. FrameSlot(new) \in DOMAIN s.snapFrames
    <3>1. DOMAIN s.snapFrames = 0 .. NUM_SNAPSHOT_FRAMES - 1
      BY <1>3 DEF StorageType
    <3> QED
      BY <1>7, <3>1
  <2>2. frames[FrameSlot(new)] = [start |-> start, count |-> count]
    BY <2>1
  <2> QED
    BY <1>5, <2>2 DEF CountOf, StartOf
<1> HIDE DEF frames
<1>12. \A v \in s.lastValidFrame .. new : Room(t)[v] = Room(s)[v] - count
  <2>1. SameCounts(s, t)
    BY <1>5, <1>10 DEF SameCounts, CountOf, ValidFrames
  <2>2. t.freeStorageEntities = Room(s)[t.lastValidFrame] - count
    BY <1>1, <1>5, RoomSteps
  <2>3. t.lastValidFrame \in s.lastValidFrame .. s.snapshotFrame /\ s.snapshotFrame <= t.snapshotFrame
    BY <1>2, <1>5
  <2>4. \A v \in t.lastValidFrame .. s.snapshotFrame : Room(t)[v] = Room(s)[v] - count
    BY <1>1, <1>2, <1>9, <2>1, <2>2, <2>3, RoomDiffers
  <2> QED
    BY <1>5, <2>4
<1>13. Room(s)[new] = numSnapshotEntities /\ Room(t)[new] = numSnapshotEntities - count
  <2>1. new \in s.lastValidFrame .. new
    BY <1>2
  <2> QED
    BY <1>1, <1>12, <2>1 DEF StorageAccounted
<1>14. \A v \in s.lastValidFrame .. new :
          Room(s)[v] \in Nat /\ count <= Room(s)[v] /\ Room(s)[v] <= numSnapshotEntities
  <2> TAKE v \in s.lastValidFrame .. new
  <2>1. s.lastValidFrame \in s.lastValidFrame .. new /\ new \in s.lastValidFrame .. new
        /\ s.lastValidFrame <= v /\ v <= new
    BY <1>2
  <2>2. Room(s)[v] \in Nat /\ Room(s)[s.lastValidFrame] <= Room(s)[v] /\ Room(s)[v] <= Room(s)[new]
    BY <1>1, <2>1, RoomGrows
  <2>3. Room(s)[s.lastValidFrame] = s.freeStorageEntities
    BY <1>1, RoomSteps
  <2> QED
    BY <1>2, <1>13, <2>2, <2>3
<1>15. StorageAccounted(t)
  <2>1. new \in ValidFrames(t)
    BY <1>2, <1>5 DEF ValidFrames
  <2>2. Room(t)[new + 1] = Room(t)[new] + CountOf(t, new)
    BY <1>9, <2>1, RoomSteps
  <2> QED
    BY <1>2, <1>5, <1>11, <1>13, <2>2, StorageSizes DEF StorageAccounted
<1>16. ASSUME NEW f \in ValidFrames(s)
       PROVE  /\ StartOf(t, f) = Place(t.currentStoragePosition + Room(t)[f])
              /\ FrameIntact(t, f, map)
  <2>1. f \in s.lastValidFrame .. new /\ f \in Int
    BY <1>2 DEF ValidFrames
  <2>2. StartOf(s, f) = Place(start + Room(s)[f]) /\ FrameIntact(s, f, map)
    BY DEF StorageInv
  <2>3. t.snapFrames[FrameSlot(f)] = s.snapFrames[FrameSlot(f)]
    BY <1>5, <1>10
  <2>4. Place(Place(start + count) + (Room(s)[f] - count)) = Place(start + Room(s)[f])
    <3>1. (start + count) \in Int /\ (Room(s)[f] - count) \in Int
          /\ (start + count) + (Room(s)[f] - count) = start + Room(s)[f]
      BY <1>2, <1>14, <2>1
    <3> HIDE DEF start
    <3> QED
      BY <3>1, PlaceAfterPlace
  <2>5. StartOf(t, f) = Place(t.currentStoragePosition + Room(t)[f])
    BY <1>5, <1>12, <2>1, <2>2, <2>3, <2>4 DEF StartOf
  <2>6. FrameIntact(t, f, map)
    <3> SUFFICES ASSUME NEW k \in 1 .. CountOf(s, f)
                 PROVE  t.snapshotEntities[Place(StartOf(s, f) + k - 1)] = <<map, f, k>>
      BY <2>3 DEF FrameIntact, CountOf, StartOf
    <3>1. CountOf(s, f) \in Nat /\ StartOf(s, f) \in Nat
      BY <1>1, <2>1, StorageParts
    <3>2. s.snapshotEntities[Place(StartOf(s, f) + k - 1)] = <<map, f, k>>
      BY <2>2 DEF FrameIntact, CountOf, StartOf
    <3>3. Room(s)[f] + CountOf(s, f) <= numSnapshotEntities
      <4>1. f + 1 \in s.lastValidFrame .. new /\ Room(s)[f + 1] = Room(s)[f] + CountOf(s, f)
        BY <1>1, RoomSteps
      <4> QED
        BY <1>14, <4>1
    <3>4. Place(StartOf(s, f) + k - 1) = Place(start + (Room(s)[f] + k - 1))
      <4>1. (start + Room(s)[f]) \in Int /\ k - 1 \in Int
            /\ (start + Room(s)[f]) + (k - 1) = start + (Room(s)[f] + k - 1)
        BY <1>2, <1>14, <2>1, <3>1
      <4>2. Place(Place(start + Room(s)[f]) + (k - 1)) = Place((start + Room(s)[f]) + (k - 1))
        BY <4>1, PlaceAfterPlace
      <4>3. StartOf(s, f) + k - 1 = StartOf(s, f) + (k - 1)
        BY <3>1
      <4> QED
        BY <2>2, <4>1, <4>2, <4>3
    <3>5. ASSUME NEW i \in 1 .. count
          PROVE  written[i] # Place(StartOf(s, f) + k - 1)
      <4>1. /\ start + i - 1 \in Int /\ start + (Room(s)[f] + k - 1) \in Int
            /\ start + i - 1 < start + (Room(s)[f] + k - 1)
            /\ (start + (Room(s)[f] + k - 1)) - (start + i - 1) < numSnapshotEntities
        <5>1. Room(s)[f] \in Nat /\ count <= Room(s)[f]
          BY <1>14, <2>1
        <5> QED
          BY <1>2, <3>1, <3>3, <5>1, StorageSizes
      <4>2. Place(start + i - 1) # Place(start + (Room(s)[f] + k - 1))
        BY <4>1, PlacesDiffer
      <4> QED
        BY <1>6, <3>4, <4>2
    <3>6. Place(StartOf(s, f) + k - 1) \in DOMAIN s.snapshotEntities
      <4>1. DOMAIN s.snapshotEntities = 0 .. numSnapshotEntities - 1
        BY <1>3 DEF StorageType
      <4>2. StartOf(s, f) + k - 1 \in Int
        BY <3>1
      <4> QED
        BY <4>1, <4>2, PlaceType
    <3>7. entities[Place(StartOf(s, f) + k - 1)] = s.snapshotEntities[Place(StartOf(s, f) + k - 1)]
      <4> HIDE DEF written
      <4> QED
        BY <3>5, <3>6
    <3> QED
      BY <1>5, <3>2, <3>7
  <2> QED
    BY <2>5, <2>6
<1>17. /\ StartOf(t, new) = Place(t.currentStoragePosition + Room(t)[new])
       /\ FrameIntact(t, new, map)
  <2>1. StartOf(t, new) = Place(t.currentStoragePosition + Room(t)[new])
    <3>1. Place(Place(start + count) + (numSnapshotEntities - count)) = Place(start + numSnapshotEntities)
      <4>1. (start + count) \in Int /\ (numSnapshotEntities - count) \in Int
            /\ (start + count) + (numSnapshotEntities - count) = start + numSnapshotEntities
        BY <1>2, StorageSizes
      <4> HIDE DEF start
      <4> QED
        BY <4>1, PlaceAfterPlace
    <3>2. Place(start + numSnapshotEntities) = start
      <4>1. Place(start + numSnapshotEntities) = start % numSnapshotEntities
        <5>1. start \in Int
          BY <1>2
        <5> QED
          BY <5>1, StorageSizes, OnceRound DEF Place
      <4>2. start % numSnapshotEntities = start
        BY <1>2, StorageSizes, RemainderSmall
      <4> QED
        BY <4>1, <4>2
    <3> QED
      BY <1>5, <1>11, <1>13, <3>1, <3>2
  <2>2. ASSUME NEW k \in 1 .. count
        PROVE  t.snapshotEntities[Place(start + k - 1)] = <<map, new, k>>
    <3> DEFINE p == Place(start + k - 1)
    <3>1. p \in DOMAIN s.snapshotEntities
      <4>1. DOMAIN s.snapshotEntities = 0 .. numSnapshotEntities - 1
        BY <1>3 DEF StorageType
      <4> QED
        BY <1>6, <4>1
    <3>2. \A i \in 1 .. count : written[i] = p <=> i = k
      <4>1. ASSUME NEW i \in 1 .. count, NEW j \in 1 .. count, i < j
            PROVE  Place(start + i - 1) # Place(start + j - 1)
        <5>1. /\ start + i - 1 \in Int /\ start + j - 1 \in Int
              /\ start + i - 1 < start + j - 1
              /\ (start + j - 1) - (start + i - 1) < numSnapshotEntities
          BY <1>2, <4>1, StorageSizes
        <5> QED
          BY <5>1, PlacesDiffer
      <4>2. ASSUME NEW i \in 1 .. count, i # k PROVE written[i] # p
        <5>1. i < k \/ k < i
          BY <1>2, <4>2
        <5> QED
          BY <1>6, <4>1, <5>1
      <4> QED
        BY <1>6, <4>2
    <3> HIDE DEF p, written
    <3>3. (CHOOSE i \in 1 .. count : written[i] = p) = k
      BY <3>2
    <3>4. entities[p] = <<map, new, k>>
      BY <3>1, <3>2, <3>3
    <3> QED
      BY <1>5, <3>4 DEF p
  <2>3. FrameIntact(t, new, map)
    BY <1>11, <2>2 DEF FrameIntact, CountOf, StartOf
  <2> QED
    BY <2>1, <2>3
<1>18. StorageInv(t, map)
  <2>1. \A f \in ValidFrames(t) : f \in ValidFrames(s) \/ f = new
    BY <1>2, <1>5 DEF ValidFrames
  <2> QED
    BY <1>9, <1>15, <1>16, <1>17, <2>1 DEF StorageInv
<1>19. Adds(s, t, count)
  <2>1. t.snapshotFrame = s.snapshotFrame + 1 /\ t.lastValidFrame \in s.lastValidFrame .. s.snapshotFrame
    BY <1>2, <1>5
  <2>2. \A f \in t.lastValidFrame .. s.snapshotFrame - 1 :
           t.snapFrames[FrameSlot(f)] = s.snapFrames[FrameSlot(f)]
    BY <1>5, <1>10 DEF ValidFrames
  <2> QED
    BY <1>11, <2>1, <2>2 DEF Adds
<1> QED
  BY <1>18, <1>19 DEF t

(***************************************************************************)
(* SV_BuildCommonSnapshot keeps the storage sound: it never runs out of    *)
(* room, and overwrites no frame that stays valid.                         *)
(***************************************************************************)
LEMMA BuildSound ==
  ASSUME NEW s, NEW map \in Nat, NEW count \in 0 .. MAX_GENTITIES, StorageInv(s, map)
  PROVE  /\ StorageInv(SV_BuildCommonSnapshot(s, count, map), map)
         /\ Adds(s, SV_BuildCommonSnapshot(s, count, map), count)
<1> DEFINE o == OldestReleased(s)
           r == RoomMade(o, count)
           t == Allocated(r, count, map)
<1>1. PICK v \in s.lastValidFrame .. s.snapshotFrame :
         Gives(s, o, v) /\ s.snapshotFrame - v < NUM_SNAPSHOT_FRAMES
  BY OldestGives DEF StorageInv
<1>2. StorageInv(o, map)
  BY <1>1, GivesSound
<1>3. PICK w \in o.lastValidFrame .. o.snapshotFrame : Gives(o, r, w) /\ count <= Room(o)[w]
  BY <1>2, RoomMadeGives DEF StorageInv
<1>4. StorageInv(r, map)
  BY <1>2, <1>3, GivesSound
<1>5. /\ s.lastValidFrame \in Nat /\ s.snapshotFrame \in Nat
      /\ o.lastValidFrame = v /\ o.snapshotFrame = s.snapshotFrame
      /\ r.lastValidFrame = w /\ r.snapshotFrame = s.snapshotFrame
      /\ r.freeStorageEntities = Room(o)[w]
  BY <1>1, <1>3, StorageParts DEF Gives, StorageInv
<1> HIDE DEF o, r
<1>6. v \in Nat /\ w \in Nat /\ v <= w /\ s.lastValidFrame <= v /\ w <= s.snapshotFrame
  BY <1>5
<1>7. r.snapshotFrame - r.lastValidFrame < NUM_SNAPSHOT_FRAMES /\ count <= r.freeStorageEntities
  BY <1>1, <1>3, <1>5, <1>6, StorageSizes
<1>8. StorageInv(t, map) /\ Adds(r, t, count)
  BY <1>4, <1>7, AllocatedSound
<1>9. Adds(s, t, count)
  <2>1. /\ t.snapshotFrame = s.snapshotFrame + 1
        /\ t.lastValidFrame \in w .. s.snapshotFrame
        /\ CountOf(t, s.snapshotFrame) = count
    BY <1>5, <1>8 DEF Adds
  <2>2. t.lastValidFrame \in s.lastValidFrame .. s.snapshotFrame
    BY <1>5, <1>6, <2>1
  <2>3. ASSUME NEW f \in t.lastValidFrame .. s.snapshotFrame - 1
        PROVE  t.snapFrames[FrameSlot(f)] = s.snapFrames[FrameSlot(f)]
    <3>1. f \in w .. o.snapshotFrame - 1 /\ f \in v .. s.snapshotFrame - 1
      BY <1>5, <1>6, <2>1
    <3>2. t.snapFrames[FrameSlot(f)] = r.snapFrames[FrameSlot(f)]
      BY <1>5, <1>8 DEF Adds
    <3> QED
      BY <1>1, <1>3, <3>1, <3>2 DEF Gives
  <2> QED
    BY <2>1, <2>2, <2>3 DEF Adds
<1> QED
  BY <1>8, <1>9 DEF SV_BuildCommonSnapshot, o, r

(***************************************************************************)
(* A new storage is sound.                                                 *)
(***************************************************************************)
LEMMA NewStorageSound == ASSUME NEW map PROVE StorageInv(SV_InitSnapshotStorage, map)
<1> DEFINE s == SV_InitSnapshotStorage
<1>1. /\ s.lastValidFrame = 0 /\ s.snapshotFrame = 0
      /\ s.freeStorageEntities = numSnapshotEntities
  BY DEF SV_InitSnapshotStorage
<1>2. s \in StorageType
  BY StorageSizes DEF SV_InitSnapshotStorage, StorageType, EntityState, NoEntity
<1>3. StorageShape(s)
  BY <1>1, <1>2, StorageSizes DEF StorageShape
<1>4. StorageAccounted(s)
  BY <1>1, <1>3, RoomSteps DEF StorageAccounted
<1>5. ValidFrames(s) = {}
  BY <1>1 DEF ValidFrames
<1> QED
  BY <1>3, <1>4, <1>5 DEF StorageInv

-----------------------------------------------------------------------------
(***************************************************************************)
(* The types of the variables.                                             *)
(***************************************************************************)
FrameType == [frameNum : Nat, ps : Nat, ents : Seq(0 .. numSnapshotEntities - 1)]

SlotType ==
    [state : {"connected", "primed", "active"}, gamestateAck : {"init", "once", "many", "acked"},
     gamestateMessageNum : Int, deltaMessage : Int, frames : [0 .. PACKET_BACKUP - 1 -> FrameType]]

ChanType ==
    [outgoingSequence : Nat, sending : ServerMessage \cup {NoMessage}, queue : Seq(ServerMessage)]

ReplyType == [serverId : Nat, messageAcknowledge : Nat, move : {"none", "delta", "noDelta"}]

ClientType ==
    [serverId : Nat, serverMessageSequence : Nat, snap : ClientSnap,
     snapshots : [0 .. PACKET_BACKUP - 1 -> ClientSnap],
     parseEntities : [0 .. MAX_PARSE_ENTITIES - 1 -> EntityState \cup {Garbage}],
     parseEntitiesNum : Nat]

(***************************************************************************)
(* TypeOK, with the types named.                                           *)
(***************************************************************************)
LEMMA Types ==
  TypeOK <=> /\ svs \in StorageType
             /\ serverId \in 1 .. Len(Entities)
             /\ cl \in SlotType
             /\ chan \in ChanType
             /\ toClient \in Seq(ServerMessage)
             /\ toServer \in Seq(ReplyType)
             /\ cg \in ClientType
             /\ built \in [1 .. MaxSequence -> Content]
             /\ queued \in BOOLEAN
  BY DEF TypeOK, StorageType, FrameType, SlotType, ChanType, ReplyType, ClientType

(***************************************************************************)
(* The constants.                                                          *)
(***************************************************************************)
LEMMA Numbers ==
  /\ PACKET_BACKUP \in Nat \ {0}
  /\ MAX_SNAPSHOT_ENTITIES \in Nat
  /\ MAX_SNAPSHOT_ENTITIES >= MAX_GENTITIES
  /\ Entities \in Seq(Seq(0 .. MAX_GENTITIES))
  /\ MaxSequence \in Nat
  BY SnapshotsAssumption, MessageChannelAssumption

(***************************************************************************)
(* Every message has a slot among the client's and the server's frames.    *)
(***************************************************************************)
LEMMA SlotIn == ASSUME NEW n \in Int PROVE Slot(n) \in 0 .. PACKET_BACKUP - 1
  BY SnapshotsAssumption, SlotInRing DEF Slot

(***************************************************************************)
(* Messages less than PACKET_BACKUP apart have different slots.            *)
(***************************************************************************)
LEMMA SlotsOfSnapshotsDiffer ==
  ASSUME NEW m \in Int, NEW n \in Int, m < n, n - m < PACKET_BACKUP
  PROVE  Slot(m) # Slot(n)
  BY SnapshotsAssumption, SlotsDiffer DEF Slot

(***************************************************************************)
(* A message given its number.                                             *)
(***************************************************************************)
Numbered(m, n) == [m EXCEPT !.sequence = n]

(***************************************************************************)
(* A numbered message is the message but for its number.                   *)
(***************************************************************************)
LEMMA NumberedParts ==
  ASSUME NEW m \in ServerMessage, NEW n \in Nat
  PROVE  /\ Numbered(m, n) \in ServerMessage
         /\ Numbered(m, n).sequence = n
         /\ Numbered(m, n).kind = m.kind
         /\ Numbered(m, n).size = m.size
         /\ m.kind \in {"snapshot", "gamestate"}
         /\ m.kind = "snapshot" =>
               /\ Numbered(m, n).new = m.new
               /\ Numbered(m, n).base = m.base
               /\ Numbered(m, n).lastframe = m.lastframe
               /\ m.new \in Content /\ m.base \in Content /\ m.lastframe \in Nat
         /\ m.kind = "gamestate" => Numbered(m, n).serverId = m.serverId /\ m.serverId \in Nat
         /\ m.sequence \in Nat
         /\ m # NoMessage
<1>1. CASE m \in [kind : {"snapshot"}, size : Sizes, sequence : Nat, lastframe : Nat,
                  new : Content, base : Content]
  BY <1>1 DEF Numbered, ServerMessage, NoMessage
<1>2. CASE m \in [kind : {"gamestate"}, size : Sizes, sequence : Nat, serverId : Nat]
  BY <1>2 DEF Numbered, ServerMessage, NoMessage
<1> QED
  BY <1>1, <1>2 DEF ServerMessage

(***************************************************************************)
(* The parts of a message.                                                 *)
(***************************************************************************)
LEMMA MessageParts ==
  ASSUME NEW m \in ServerMessage
  PROVE  /\ NumberOf(m) \in Nat
         /\ Gamestate(m) <=> ~Snapshot(m)
         /\ Gamestate(m) => MapOf(m) \in Nat
         /\ Snapshot(m) => New(m) \in Content /\ m.base \in Content /\ m.lastframe \in Nat
<1>1. CASE m \in [kind : {"snapshot"}, size : Sizes, sequence : Nat, lastframe : Nat,
                  new : Content, base : Content]
  BY <1>1 DEF NumberOf, Gamestate, Snapshot, MapOf, New
<1>2. CASE m \in [kind : {"gamestate"}, size : Sizes, sequence : Nat, serverId : Nat]
  BY <1>2 DEF NumberOf, Gamestate, Snapshot, MapOf, New
<1> QED
  BY <1>1, <1>2 DEF ServerMessage

(***************************************************************************)
(* The line of messages begun.                                             *)
(***************************************************************************)
LEMMA LineParts ==
  ASSUME TypeOK
  PROVE  /\ Line \in Seq(ServerMessage)
         /\ chan.outgoingSequence \in Nat /\ NextNumber \in Nat
         /\ chan.outgoingSequence <= NextNumber /\ NextNumber <= chan.outgoingSequence + 1
         /\ Len(toClient) <= Len(Line)
         /\ \A i \in 1 .. Len(toClient) : Line[i] = toClient[i]
         /\ \A i \in 1 .. Len(Line) : Line[i] \in ServerMessage
         /\ \A i \in 1 .. Len(chan.queue) : chan.queue[i] \in ServerMessage
<1>1. chan \in ChanType /\ toClient \in Seq(ServerMessage)
  BY Types
<1>2. chan.outgoingSequence \in Nat /\ chan.queue \in Seq(ServerMessage)
      /\ chan.sending \in ServerMessage \cup {NoMessage}
  BY <1>1 DEF ChanType
<1>3. CASE chan.sending = NoMessage
  BY <1>1, <1>2, <1>3 DEF Line, NextNumber
<1>4. CASE chan.sending # NoMessage
  <2>1. chan.sending \in ServerMessage
    BY <1>2, <1>4
  <2>2. Line = Append(toClient, chan.sending) /\ NextNumber = chan.outgoingSequence + 1
    BY <1>4 DEF Line, NextNumber
  <2> HIDE DEF Line, NextNumber
  <2>3. /\ Line \in Seq(ServerMessage) /\ Len(Line) = Len(toClient) + 1
        /\ \A i \in 1 .. Len(toClient) : Line[i] = toClient[i]
    BY <1>1, <2>1, <2>2, Appended
  <2> QED
    BY <1>1, <1>2, <2>2, <2>3
<1> QED
  BY <1>3, <1>4

\* A message is begun; none is, but the one under way may have been completed.
Begun(m) ==
    /\ NextNumber = chan.outgoingSequence
    /\ Line' = Append(Line, Numbered(m, NextNumber))
    /\ NextNumber' = NextNumber + 1

NoneBegun == Line' = Line /\ NextNumber' = NextNumber

ChannelKept ==
    /\ chan' \in ChanType /\ toClient' \in Seq(ServerMessage)
    /\ SendingNumbered'
    /\ chan.outgoingSequence <= chan'.outgoingSequence

(***************************************************************************)
(* A channel with another queue, or with its message completed.            *)
(***************************************************************************)
LEMMA ChannelSteps ==
  ASSUME NEW c \in ChanType, NEW rest \in Seq(ServerMessage)
  PROVE  /\ LET d == [c EXCEPT !.outgoingSequence = @ + 1, !.queue = rest]
            IN  /\ c.sending = NoMessage =>
                      d \in ChanType /\ d.queue = rest /\ d.sending = NoMessage
                /\ d.outgoingSequence = c.outgoingSequence + 1
         /\ LET d == [c EXCEPT !.sending = NoMessage, !.outgoingSequence = @ + 1]
            IN  /\ d \in ChanType /\ d.queue = c.queue /\ d.sending = NoMessage
                /\ d.outgoingSequence = c.outgoingSequence + 1
<1>1. c.outgoingSequence \in Nat /\ c.queue \in Seq(ServerMessage)
      /\ c.sending \in ServerMessage \cup {NoMessage}
  BY DEF ChanType
<1>2. c.outgoingSequence + 1 \in Nat
  BY <1>1
<1> DEFINE next == c.outgoingSequence + 1
<1> HIDE DEF next
<1>3. next \in Nat
  BY <1>2 DEF next
<1>4. LET d == [c EXCEPT !.outgoingSequence = next, !.queue = rest]
      IN  /\ c.sending = NoMessage =>
                d \in ChanType /\ d.queue = rest /\ d.sending = NoMessage
          /\ d.outgoingSequence = next
  BY <1>3 DEF ChanType
<1>5. LET d == [c EXCEPT !.sending = NoMessage, !.outgoingSequence = next]
      IN  /\ d \in ChanType /\ d.queue = c.queue /\ d.sending = NoMessage
          /\ d.outgoingSequence = next
  <2>1. NoMessage \in ServerMessage \cup {NoMessage}
    OBVIOUS
  <2> HIDE DEF NoMessage
  <2> QED
    BY <1>3, <2>1 DEF ChanType
<1> QED
  BY <1>4, <1>5 DEF next

(***************************************************************************)
(* A message is begun when none is under way.                              *)
(***************************************************************************)
LEMMA BeginEffect ==
  ASSUME TypeOK, NEW m \in ServerMessage, NEW rest \in Seq(ServerMessage),
         chan.sending = NoMessage, Begin(m, rest)
  PROVE  Begun(m) /\ ChannelKept /\ chan'.queue = rest
<1>1. chan \in ChanType /\ toClient \in Seq(ServerMessage)
  BY Types
<1>2. chan.outgoingSequence \in Nat
  BY <1>1 DEF ChanType
<1>3. Line = toClient /\ NextNumber = chan.outgoingSequence
  BY DEF Line, NextNumber
<1> DEFINE n == Numbered(m, chan.outgoingSequence)
<1>4. n \in ServerMessage /\ n # NoMessage /\ n.sequence = chan.outgoingSequence
  BY <1>2, NumberedParts
<1>5. IF m.size = "large"
      THEN chan' = [chan EXCEPT !.sending = n, !.queue = rest] /\ toClient' = toClient
      ELSE /\ chan' = [chan EXCEPT !.outgoingSequence = @ + 1, !.queue = rest]
           /\ toClient' = Append(toClient, n)
  BY DEF Begin, Numbered
<1> HIDE DEF n
<1>6. CASE m.size = "large"
  <2>1. chan' = [chan EXCEPT !.sending = n, !.queue = rest] /\ toClient' = toClient
    BY <1>5, <1>6
  <2>2. /\ chan' \in ChanType /\ chan'.queue = rest /\ chan'.sending = n
        /\ chan'.outgoingSequence = chan.outgoingSequence
    BY <1>1, <1>4, <2>1 DEF ChanType
  <2>3. Line' = Append(toClient, n) /\ NextNumber' = chan.outgoingSequence + 1
    BY <1>4, <2>1, <2>2 DEF Line, NextNumber
  <2>4. Begun(m)
    BY <1>3, <2>3 DEF Begun, n
  <2>5. SendingNumbered'
    BY <1>4, <2>2 DEF SendingNumbered
  <2> QED
    BY <1>1, <1>2, <2>1, <2>2, <2>4, <2>5 DEF ChannelKept
<1>7. CASE m.size # "large"
  <2>1. chan' = [chan EXCEPT !.outgoingSequence = @ + 1, !.queue = rest] /\ toClient' = Append(toClient, n)
    BY <1>5, <1>7
  <2>2. /\ chan' \in ChanType /\ chan'.queue = rest /\ chan'.sending = NoMessage
        /\ chan'.outgoingSequence = chan.outgoingSequence + 1
    BY <1>1, <2>1, ChannelSteps
  <2>3. Line' = Append(toClient, n) /\ NextNumber' = chan.outgoingSequence + 1
    BY <2>1, <2>2 DEF Line, NextNumber
  <2>4. Begun(m)
    BY <1>3, <2>3 DEF Begun, n
  <2>5. SendingNumbered'
    BY <2>2 DEF SendingNumbered
  <2>6. toClient' \in Seq(ServerMessage)
    BY <1>1, <1>4, <2>1
  <2> QED
    BY <1>2, <2>2, <2>4, <2>5, <2>6 DEF ChannelKept
<1> QED
  BY <1>6, <1>7

(***************************************************************************)
(* A message is handed over: it is begun, or waits in the queue.           *)
(***************************************************************************)
LEMMA TransmitEffect ==
  ASSUME TypeOK, SendingNumbered, NEW m \in ServerMessage, SV_Netchan_Transmit(m)
  PROVE  /\ ChannelKept
         /\ chan.outgoingSequence < MaxSequence
         /\ Busy => NoneBegun /\ chan'.queue = Append(chan.queue, m)
         /\ ~Busy => Begun(m) /\ chan'.queue = << >> /\ chan.queue = << >>
<1>1. chan \in ChanType /\ toClient \in Seq(ServerMessage)
  BY Types
<1>2. chan.outgoingSequence \in Nat /\ chan.queue \in Seq(ServerMessage)
  BY <1>1 DEF ChanType
<1>3. chan.outgoingSequence < MaxSequence
  <2>1. chan.outgoingSequence + Len(chan.queue) < MaxSequence
    BY DEF SV_Netchan_Transmit
  <2>2. Len(chan.queue) \in Nat
    BY <1>2
  <2> QED
    BY <1>2, <2>1, <2>2, Numbers
<1>4. CASE Busy
  <2>1. chan' = [chan EXCEPT !.queue = Append(@, m)] /\ toClient' = toClient
    BY <1>4 DEF SV_Netchan_Transmit
  <2>2. Append(chan.queue, m) \in Seq(ServerMessage)
    BY <1>2
  <2>3. /\ chan' \in ChanType /\ chan'.queue = Append(chan.queue, m)
        /\ chan'.sending = chan.sending /\ chan'.outgoingSequence = chan.outgoingSequence
    BY <1>1, <2>1, <2>2 DEF ChanType
  <2>4. NoneBegun
    BY <2>1, <2>3 DEF NoneBegun, Line, NextNumber
  <2>5. ChannelKept
    BY <1>1, <1>2, <2>1, <2>3 DEF ChannelKept, SendingNumbered
  <2> QED
    BY <1>3, <1>4, <2>3, <2>4, <2>5
<1>5. CASE ~Busy
  <2>1. chan.sending = NoMessage /\ chan.queue = << >>
    BY <1>5 DEF Busy
  <2>2. Begin(m, << >>)
    BY <1>5 DEF SV_Netchan_Transmit
  <2>3. << >> \in Seq(ServerMessage)
    OBVIOUS
  <2>4. Begun(m) /\ ChannelKept /\ chan'.queue = << >>
    BY <2>1, <2>2, <2>3, BeginEffect
  <2> QED
    BY <1>3, <1>5, <2>1, <2>4
<1> QED
  BY <1>4, <1>5

(***************************************************************************)
(* A fragment leaves: it completes the message under way, or the queue's   *)
(* first message is begun.                                                 *)
(***************************************************************************)
LEMMA FragmentEffect ==
  ASSUME TypeOK, SendingNumbered, SV_Netchan_TransmitNextFragment
  PROVE  /\ ChannelKept
         /\ \/ NoneBegun /\ chan'.queue = chan.queue
            \/ chan.queue # << >> /\ Begun(Head(chan.queue)) /\ chan'.queue = Tail(chan.queue)
<1>1. chan \in ChanType /\ toClient \in Seq(ServerMessage)
  BY Types
<1>2. chan.outgoingSequence \in Nat /\ chan.queue \in Seq(ServerMessage)
      /\ chan.sending \in ServerMessage \cup {NoMessage}
  BY <1>1 DEF ChanType
<1>3. CASE chan.sending # NoMessage
  <2>1. /\ chan' = [chan EXCEPT !.sending = NoMessage, !.outgoingSequence = @ + 1]
        /\ toClient' = Append(toClient, chan.sending)
    BY <1>3 DEF SV_Netchan_TransmitNextFragment
  <2>2. /\ chan' \in ChanType /\ chan'.queue = chan.queue /\ chan'.sending = NoMessage
        /\ chan'.outgoingSequence = chan.outgoingSequence + 1
    BY <1>1, <2>1, ChannelSteps
  <2>3. NoneBegun
    BY <1>3, <2>1, <2>2 DEF NoneBegun, Line, NextNumber
  <2>4. toClient' \in Seq(ServerMessage)
    BY <1>1, <1>2, <1>3, <2>1
  <2>5. ChannelKept
    BY <1>2, <2>2, <2>4 DEF ChannelKept, SendingNumbered
  <2> QED
    BY <2>2, <2>3, <2>5
<1>4. CASE chan.sending = NoMessage
  <2>1. chan.queue # << >> /\ Begin(Head(chan.queue), Tail(chan.queue))
    BY <1>4 DEF SV_Netchan_TransmitNextFragment, Busy
  <2>2. Head(chan.queue) \in ServerMessage /\ Tail(chan.queue) \in Seq(ServerMessage)
    BY <1>2, <2>1
  <2> QED
    BY <1>4, <2>1, <2>2, BeginEffect
<1> QED
  BY <1>3, <1>4

-----------------------------------------------------------------------------
(***************************************************************************)
(* Parts of the invariant keep when what they are about stays as it is.    *)
(***************************************************************************)
LEMMA NumbersKept ==
  ASSUME NumberInv, UNCHANGED <<chan, toClient, toServer, cl, cg>>
  PROVE  NumberInv'
  BY DEF NumberInv, SendingNumbered, Line, NextNumber

(***************************************************************************)
(* MapInv, of the state of both ends and of the messages between them.     *)
(***************************************************************************)
LEMMA MapsKept ==
  ASSUME MapInv, UNCHANGED <<serverId, cl, chan, toClient, toServer, cg>>
  PROVE  MapInv'
<1>1. Line' = Line
  BY DEF Line
<1> QED
  BY <1>1 DEF MapInv

(***************************************************************************)
(* What was built keeps its map when a map is left, and its number when    *)
(* another message is begun.                                               *)
(***************************************************************************)
LEMMA BuiltKept ==
  ASSUME TypeOK, BuiltInv, UNCHANGED built, serverId' \in Nat, serverId <= serverId',
         NextNumber' \in Nat, NextNumber <= NextNumber'
  PROVE  BuiltInv'
<1>1. /\ built \in [1 .. MaxSequence -> Content] /\ serverId \in Nat
      /\ NextNumber \in Nat
  BY Types, LineParts
<1>2. ASSUME NEW n \in 1 .. MaxSequence
      PROVE  /\ built'[n].ps \in {0, n}
             /\ built'[n].ps = n => n < NextNumber'
             /\ Len(built'[n].ents) <= MAX_GENTITIES
             /\ \A k \in 1 .. Len(built'[n].ents) : built'[n].ents[k][1] <= serverId'
  <2>1. /\ built[n].ps \in {0, n}
        /\ built[n].ps = n => n < NextNumber
        /\ Len(built[n].ents) <= MAX_GENTITIES
        /\ \A k \in 1 .. Len(built[n].ents) : built[n].ents[k][1] <= serverId
    BY DEF BuiltInv
  <2>2. n \in Nat /\ built[n].ents \in Seq(EntityState)
    BY <1>1, Numbers DEF Content
  <2>3. ASSUME NEW k \in 1 .. Len(built[n].ents) PROVE built[n].ents[k][1] \in Nat
    <3>1. built[n].ents[k] \in EntityState
      BY <2>2
    <3> QED
      BY <3>1 DEF EntityState
  <2> QED
    BY <1>1, <2>1, <2>2, <2>3
<1> QED
  BY <1>2 DEF BuiltInv

(***************************************************************************)
(* The server's frames, when nothing is built.                             *)
(***************************************************************************)
LEMMA FramesKept ==
  ASSUME FramesInv, UNCHANGED <<svs, serverId, built>>, cl'.frames = cl.frames,
         NextNumber \in Nat, NextNumber' \in Nat, NextNumber <= NextNumber'
  PROVE  FramesInv'
<1>1. ASSUME NEW i \in 0 .. PACKET_BACKUP - 1, cl'.frames[i].ps # 0
      PROVE  FrameInv(cl'.frames[i], built', svs', serverId')
  BY <1>1 DEF FramesInv
<1>2. ASSUME NEW n \in 1 .. MaxSequence, Built(built', n), NextNumber' - n <= PACKET_BACKUP
      PROVE  cl'.frames[Slot(n)].ps = n
  <2>1. Built(built, n)
    BY <1>2
  <2>2. n \in Int /\ PACKET_BACKUP \in Int
    BY Numbers
  <2>3. \A a, b, c, d \in Int : a <= b /\ b - c <= d => a - c <= d
    OBVIOUS
  <2>4. NextNumber \in Int /\ NextNumber' \in Int
    OBVIOUS
  <2>5. NextNumber - n <= PACKET_BACKUP
    BY <1>2, <2>2, <2>3, <2>4, Zenon
  <2> QED
    BY <2>1, <2>5 DEF FramesInv
<1> QED
  BY <1>1, <1>2 DEF FramesInv

(***************************************************************************)
(* SnapshotsInv, of the messages on their way to the client.               *)
(***************************************************************************)
LEMMA SnapshotsKept ==
  ASSUME SnapshotsInv, UNCHANGED <<chan, toClient, built, cg>>
  PROVE  SnapshotsInv'
  BY DEF SnapshotsInv, Line

(***************************************************************************)
(* ClientInv, of the client's state.                                       *)
(***************************************************************************)
LEMMA ClientKept ==
  ASSUME ClientInv, UNCHANGED <<built, cg>>
  PROVE  ClientInv'
  BY DEF ClientInv

(***************************************************************************)
(* KeptInv, of the state of both ends and of the messages between them.    *)
(***************************************************************************)
LEMMA KeptKept ==
  ASSUME KeptInv, UNCHANGED <<chan, toClient, toServer, cl, cg, queued>>
  PROVE  KeptInv'
  BY DEF KeptInv, Reset, Line

(***************************************************************************)
(* AcknowledgedInv, of the server's state and the client messages in       *)
(* flight.                                                                 *)
(***************************************************************************)
LEMMA AcknowledgedKept ==
  ASSUME AcknowledgedInv, UNCHANGED <<cl, chan, toServer, serverId, built>>
  PROVE  AcknowledgedInv'
  BY DEF AcknowledgedInv, Reset

(***************************************************************************)
(* A step that changes nothing.                                            *)
(***************************************************************************)
LEMMA StutterKeeps == ASSUME IInv, UNCHANGED vars PROVE IInv'
<1>1. /\ UNCHANGED <<svs, serverId, cl, chan, toClient, toServer>>
      /\ UNCHANGED <<cg, built, queued>>
  BY DEF vars
<1>2. TypeOK'
  BY <1>1 DEF IInv, TypeOK
<1>3. StorageInv(svs, serverId)'
  BY <1>1 DEF IInv
<1>4. NextNumber \in Nat /\ NextNumber' = NextNumber /\ serverId \in Nat
  BY <1>1, LineParts, Types DEF IInv, NextNumber
<1>5. BuiltInv' /\ FramesInv'
  BY <1>1, <1>4, BuiltKept, FramesKept DEF IInv
<1> QED
  BY <1>1, <1>2, <1>3, <1>5, NumbersKept, MapsKept, SnapshotsKept, ClientKept, KeptKept,
     AcknowledgedKept DEF IInv

(***************************************************************************)
(* A sequence b that is a with e appended, and one that is a without its   *)
(* first element.                                                          *)
(***************************************************************************)
Grown(a, b, e) ==
    /\ Len(a) \in Nat /\ Len(b) = Len(a) + 1
    /\ b[Len(a) + 1] = e
    /\ \A i \in 1 .. Len(a) : b[i] = a[i]
    /\ \A i \in 1 .. Len(b) : i \in 1 .. Len(a) \/ i = Len(a) + 1

Cut(a, b) ==
    /\ Len(a) \in Nat /\ Len(b) \in Nat /\ 1 \in 1 .. Len(a)
    /\ \A i \in 1 .. Len(b) : i + 1 \in 1 .. Len(a) /\ b[i] = a[i + 1]

(***************************************************************************)
(* What Append does.                                                       *)
(***************************************************************************)
LEMMA GrownBy ==
  ASSUME NEW S, NEW a \in Seq(S), NEW e \in S
  PROVE  Append(a, e) \in Seq(S) /\ Grown(a, Append(a, e), e)
<1> DEFINE b == Append(a, e)
<1>1. /\ b \in Seq(S) /\ Len(b) = Len(a) + 1 /\ b[Len(a) + 1] = e
      /\ \A i \in 1 .. Len(a) : b[i] = a[i]
  BY Appended
<1> HIDE DEF b
<1>2. Len(a) \in Nat
  OBVIOUS
<1> QED
  BY <1>1, <1>2 DEF Grown, b

(***************************************************************************)
(* What Tail does.                                                         *)
(***************************************************************************)
LEMMA CutFrom ==
  ASSUME NEW S, NEW a \in Seq(S), a # << >>
  PROVE  Tail(a) \in Seq(S) /\ Cut(a, Tail(a)) /\ a[1] = Head(a) /\ Head(a) \in S
<1>1. /\ Tail(a) \in Seq(S) /\ Len(a) \in Nat /\ Len(a) >= 1 /\ Len(Tail(a)) = Len(a) - 1
      /\ Head(a) = a[1] /\ Head(a) \in S
      /\ \A j \in 1 .. Len(Tail(a)) : j + 1 \in 1 .. Len(a) /\ Tail(a)[j] = a[j + 1]
  BY Shortened
<1> QED
  BY <1>1 DEF Cut

(***************************************************************************)
(* The client's messages, when the first is read or lost.                  *)
(***************************************************************************)
LEMMA RepliesCut ==
  ASSUME NEW a, NEW b, Cut(a, b)
  PROVE  /\ \A n : ReplyNumbers(a, n) => ReplyNumbers(b, n)
         /\ \A n : ReplyMaps(a, n) => ReplyMaps(b, n)
         /\ \A n : RepliesOf(a, n) => RepliesOf(b, n)
         /\ \A n : RepliesBuilt(a, n) => RepliesBuilt(b, n)
         /\ \A n : RepliesFrom(a, n) => RepliesFrom(b, n)
         /\ \A c, n : RepliesKept(a, c, n) => RepliesKept(b, c, n)
  BY DEF Cut, ReplyNumbers, ReplyMaps, RepliesOf, RepliesBuilt, RepliesFrom, RepliesKept

(***************************************************************************)
(* The line of messages, when the first one arrives or is lost.            *)
(***************************************************************************)
LEMMA LineCut ==
  ASSUME NEW a, NEW b, Cut(a, b)
  PROVE  /\ \A m, n : LineNumbers(a, m, n) => LineNumbers(b, m, n)
         /\ \A m, n : LineNumbers(a, m, n) => LineNumbers(b, NumberOf(a[1]), n)
         /\ \A q, m, n : LineMaps(a, q, m, n) => LineMaps(b, q, m, n)
         /\ \A n : LineGamestates(a, n) => LineGamestates(b, n)
<1>1. /\ Len(a) \in Nat /\ Len(b) \in Nat /\ 1 \in 1 .. Len(a)
      /\ \A i \in 1 .. Len(b) : i + 1 \in 1 .. Len(a) /\ b[i] = a[i + 1] /\ 1 < i + 1
  BY DEF Cut
<1>2. \A m, n : LineNumbers(a, m, n) => LineNumbers(b, m, n)
  BY <1>1 DEF LineNumbers
<1>3. \A m, n : LineNumbers(a, m, n) => LineNumbers(b, NumberOf(a[1]), n)
  BY <1>1 DEF LineNumbers
<1>4. \A q, m, n : LineMaps(a, q, m, n) => LineMaps(b, q, m, n)
  BY <1>1 DEF LineMaps
<1>5. \A n : LineGamestates(a, n) => LineGamestates(b, n)
  BY <1>1 DEF LineGamestates
<1> QED
  BY <1>2, <1>3, <1>4, <1>5

(***************************************************************************)
(* Snapshots on their way, when the first message arrives or is lost.      *)
(***************************************************************************)
LEMMA SnapshotsCut ==
  ASSUME NEW a, NEW b, Cut(a, b)
  PROVE  /\ \A m, n : LineSnapshots(a, m, n) => LineSnapshots(b, m, n)
         /\ \A m, n : Gamestate(a[1]) /\ LineSnapshots(a, m, n) => LineSnapshots(b, MapOf(a[1]), n)
         /\ \A c : LineKept(a, c) => LineKept(b, c)
         /\ \A c, d : Gamestate(a[1]) /\ LineKept(a, c) => LineKept(b, d)
<1>1. /\ Len(a) \in Nat /\ Len(b) \in Nat /\ 1 \in 1 .. Len(a)
      /\ \A i \in 1 .. Len(b) : i + 1 \in 1 .. Len(a) /\ b[i] = a[i + 1] /\ 1 \in 1 .. (i + 1) - 1
      /\ \A i \in 1 .. Len(b) : \A j \in 1 .. i - 1 : j \in 1 .. Len(b) /\ j + 1 \in 1 .. (i + 1) - 1
  BY DEF Cut
<1>2. \A m, n : LineSnapshots(a, m, n) => LineSnapshots(b, m, n)
  BY <1>1 DEF LineSnapshots
<1>3. \A m, n : Gamestate(a[1]) /\ LineSnapshots(a, m, n) => LineSnapshots(b, MapOf(a[1]), n)
  BY <1>1 DEF LineSnapshots
<1>4. \A c : LineKept(a, c) => LineKept(b, c)
  BY <1>1 DEF LineKept
<1>5. \A c, d : Gamestate(a[1]) /\ LineKept(a, c) => LineKept(b, d)
  BY <1>1 DEF LineKept
<1> QED
  BY <1>2, <1>3, <1>4, <1>5

(***************************************************************************)
(* The line of messages, when one more is begun: a snapshot, a gamestate   *)
(* that need not wait, or the queue's first gamestate.                     *)
(***************************************************************************)
LEMMA LineGrown ==
  ASSUME NEW a \in Seq(ServerMessage), NEW b, NEW e \in ServerMessage, Grown(a, b, e)
  PROVE  /\ \A m, n \in Int :
               LineNumbers(a, m, n) /\ NumberOf(e) = n /\ m < n => LineNumbers(b, m, n + 1)
         /\ \A q, m, n : Snapshot(e) /\ LineMaps(a, q, m, n) => LineMaps(b, q, m, n)
         /\ \A m, n :
               Gamestate(e) /\ MapOf(e) = n /\ m <= n /\ n <= n /\ LineMaps(a, << >>, m, n)
                  => LineMaps(b, << >>, m, n)
         /\ \A q, r, m, n :
               Cut(q, r) /\ Gamestate(e) /\ MapOf(e) = MapOf(q[1]) /\ LineMaps(a, q, m, n)
                  => LineMaps(b, r, m, n)
<1>1. /\ Len(a) \in Nat /\ Len(b) = Len(a) + 1 /\ b[Len(a) + 1] = e
      /\ \A i \in 1 .. Len(a) : b[i] = a[i]
      /\ \A i \in 1 .. Len(b) : i \in 1 .. Len(a) \/ i = Len(a) + 1
  BY DEF Grown
<1>2. \A i \in 1 .. Len(b), j \in 1 .. Len(b) : i < j => i \in 1 .. Len(a)
  BY <1>1
<1>3. \A i \in 1 .. Len(a) : NumberOf(a[i]) \in Nat
  BY MessageParts
<1>4. NumberOf(e) \in Nat /\ ~(Gamestate(e) /\ Snapshot(e))
  BY MessageParts
<1>5. \A m, n \in Int :
          LineNumbers(a, m, n) /\ NumberOf(e) = n /\ m < n => LineNumbers(b, m, n + 1)
  <2> SUFFICES ASSUME NEW m \in Int, NEW n \in Int, LineNumbers(a, m, n), NumberOf(e) = n, m < n
               PROVE  LineNumbers(b, m, n + 1)
    OBVIOUS
  <2>1. \A i \in 1 .. Len(b) : m < NumberOf(b[i]) /\ NumberOf(b[i]) < n + 1
    BY <1>1, <1>3 DEF LineNumbers
  <2>2. \A i, j \in 1 .. Len(b) : i < j => NumberOf(b[i]) < NumberOf(b[j])
    BY <1>1, <1>2 DEF LineNumbers
  <2> QED
    BY <2>1, <2>2 DEF LineNumbers
<1>6. \A q, m, n : Snapshot(e) /\ LineMaps(a, q, m, n) => LineMaps(b, q, m, n)
  BY SMTT(20), <1>1, <1>4 DEF LineMaps
<1>7. \A m, n :
         Gamestate(e) /\ MapOf(e) = n /\ m <= n /\ n <= n /\ LineMaps(a, << >>, m, n)
            => LineMaps(b, << >>, m, n)
  BY <1>1, <1>2 DEF LineMaps
<1>8. \A q, r, m, n :
         Cut(q, r) /\ Gamestate(e) /\ MapOf(e) = MapOf(q[1]) /\ LineMaps(a, q, m, n)
            => LineMaps(b, r, m, n)
  <2> SUFFICES ASSUME NEW q, NEW r, NEW m, NEW n, Cut(q, r), Gamestate(e), MapOf(e) = MapOf(q[1]),
                      LineMaps(a, q, m, n)
               PROVE  LineMaps(b, r, m, n)
    OBVIOUS
  <2>1. /\ 1 \in 1 .. Len(q) /\ Len(q) \in Nat /\ Len(r) \in Nat
        /\ \A i \in 1 .. Len(r) : i + 1 \in 1 .. Len(q) /\ r[i] = q[i + 1] /\ 1 < i + 1
        /\ \A i, j \in 1 .. Len(r) : i < j => i + 1 < j + 1
    BY DEF Cut
  <2>2. /\ \A i \in 1 .. Len(b) : Gamestate(b[i]) => m <= MapOf(b[i]) /\ MapOf(b[i]) <= n
        /\ \A i \in 1 .. Len(r) : m <= MapOf(r[i]) /\ MapOf(r[i]) <= n
    BY <1>1, <2>1 DEF LineMaps
  <2>3. \A i, j \in 1 .. Len(b) :
           i < j /\ Gamestate(b[i]) /\ Gamestate(b[j]) => MapOf(b[i]) <= MapOf(b[j])
    BY <1>1, <1>2, <2>1 DEF LineMaps
  <2>4. \A i \in 1 .. Len(b), j \in 1 .. Len(r) : Gamestate(b[i]) => MapOf(b[i]) <= MapOf(r[j])
    BY <1>1, <2>1 DEF LineMaps
  <2>5. \A i, j \in 1 .. Len(r) : i < j => MapOf(r[i]) <= MapOf(r[j])
    BY <2>1 DEF LineMaps
  <2> QED
    BY Zenon, <2>2, <2>3, <2>4, <2>5 DEF LineMaps
<1> QED
  BY <1>5, <1>6, <1>7, <1>8

(***************************************************************************)
(* A gamestate that has to wait behind the others.                         *)
(***************************************************************************)
LEMMA QueueGrown ==
  ASSUME NEW a, NEW q, NEW r, NEW e, Grown(q, r, e)
  PROVE  \A m, n : MapOf(e) = n /\ m <= n /\ n <= n /\ LineMaps(a, q, m, n) => LineMaps(a, r, m, n)
<1>1. /\ Len(q) \in Nat /\ Len(r) = Len(q) + 1 /\ r[Len(q) + 1] = e
      /\ \A i \in 1 .. Len(q) : r[i] = q[i]
      /\ \A i \in 1 .. Len(r) : i \in 1 .. Len(q) \/ i = Len(q) + 1
  BY DEF Grown
<1>2. \A i \in 1 .. Len(r), j \in 1 .. Len(r) : i < j => i \in 1 .. Len(q)
  BY <1>1
<1> QED
  BY <1>1, <1>2 DEF LineMaps

(***************************************************************************)
(* Snapshots on their way, when another message is begun: a gamestate, or  *)
(* a snapshot that fits what the client will have.                         *)
(***************************************************************************)
NewFits(e, line) == \A i \in 1 .. Len(line) : Gamestate(line[i]) => Since(New(e), MapOf(line[i]))

NoGamestate(line) == \A i \in 1 .. Len(line) : ~Gamestate(line[i])

(***************************************************************************)
(* What was so of the line is so of the longer one.                        *)
(***************************************************************************)
LEMMA SnapshotsGrown ==
  ASSUME NEW a \in Seq(ServerMessage), NEW b, NEW e \in ServerMessage, Grown(a, b, e)
  PROVE  /\ \A m, n : Gamestate(e) /\ LineSnapshots(a, m, n) => LineSnapshots(b, m, n)
         /\ \A c : Gamestate(e) /\ LineKept(a, c) => LineKept(b, c)
         /\ \A m, n :
               Carries(e, n) /\ Since(New(e), m) /\ NewFits(e, a) /\ LineSnapshots(a, m, n)
                  => LineSnapshots(b, m, n)
         /\ \A c :
               (Delta(e) => Kept(c, OldNumber(e)) /\ NoGamestate(a)) /\ LineKept(a, c) => LineKept(b, c)
         /\ \A n : Snapshot(e) /\ LineGamestates(a, n) => LineGamestates(b, n)
         /\ \A n : NumberOf(e) <= n /\ (\A i \in 1 .. Len(a) : NumberOf(a[i]) <= n) => LineGamestates(b, n)
<1>1. /\ Len(a) \in Nat /\ Len(b) = Len(a) + 1 /\ b[Len(a) + 1] = e
      /\ \A i \in 1 .. Len(a) : b[i] = a[i]
      /\ \A i \in 1 .. Len(b) : i \in 1 .. Len(a) \/ i = Len(a) + 1
  BY DEF Grown
<1>2. /\ \A i \in 1 .. Len(a) : \A j \in 1 .. i - 1 : j \in 1 .. Len(a)
      /\ 1 .. (Len(a) + 1) - 1 = 1 .. Len(a)
  BY <1>1
<1>3. ~(Gamestate(e) /\ Snapshot(e))
  BY MessageParts
<1>4. \A m, n : Gamestate(e) /\ LineSnapshots(a, m, n) => LineSnapshots(b, m, n)
  BY <1>1, <1>2, <1>3 DEF LineSnapshots
<1>5. \A c : Gamestate(e) /\ LineKept(a, c) => LineKept(b, c)
  BY <1>1, <1>2, <1>3 DEF LineKept
<1>6. \A m, n :
         Carries(e, n) /\ Since(New(e), m) /\ NewFits(e, a) /\ LineSnapshots(a, m, n)
            => LineSnapshots(b, m, n)
  BY <1>1, <1>2 DEF LineSnapshots, NewFits
<1>7. \A c :
         (Delta(e) => Kept(c, OldNumber(e)) /\ NoGamestate(a)) /\ LineKept(a, c) => LineKept(b, c)
  BY <1>1, <1>2 DEF LineKept, NoGamestate
<1>8. \A n : Snapshot(e) /\ LineGamestates(a, n) => LineGamestates(b, n)
  BY <1>1, <1>3 DEF LineGamestates
<1>9. \A n : NumberOf(e) <= n /\ (\A i \in 1 .. Len(a) : NumberOf(a[i]) <= n) => LineGamestates(b, n)
  BY <1>1 DEF LineGamestates
<1> QED
  BY <1>4, <1>5, <1>6, <1>7, <1>8, <1>9

(***************************************************************************)
(* The first message in flight leaves the line.                            *)
(***************************************************************************)
LEMMA LineShortened ==
  ASSUME TypeOK, toClient # << >>, toClient' = Tail(toClient), UNCHANGED chan
  PROVE  /\ toClient' \in Seq(ServerMessage)
         /\ NextNumber' = NextNumber
         /\ Line[1] = Head(toClient) /\ Head(toClient) \in ServerMessage
         /\ Cut(Line, Line')
<1>1. toClient \in Seq(ServerMessage) /\ chan.sending \in ServerMessage \cup {NoMessage}
  BY Types DEF ChanType
<1>2. /\ toClient' \in Seq(ServerMessage) /\ Cut(toClient, toClient')
      /\ toClient[1] = Head(toClient) /\ Head(toClient) \in ServerMessage
  BY <1>1, CutFrom
<1>3. NextNumber' = NextNumber
  BY DEF NextNumber
<1>4. CASE chan.sending = NoMessage
  <2>1. Line = toClient /\ Line' = toClient'
    BY <1>4 DEF Line
  <2> QED
    BY <1>2, <1>3, <2>1
<1>5. CASE chan.sending # NoMessage
  <2>1. Line = Append(toClient, chan.sending) /\ Line' = Append(toClient', chan.sending)
    BY <1>5 DEF Line
  <2>2. chan.sending \in ServerMessage
    BY <1>1, <1>5
  <2>3. Grown(toClient, Line, chan.sending) /\ Grown(toClient', Line', chan.sending)
    BY <1>1, <1>2, <2>1, <2>2, GrownBy
  <2> HIDE DEF Line
  <2>4. Line[1] = Head(toClient) /\ Cut(Line, Line')
    <3>1. Len(toClient) = Len(toClient') + 1
      BY <1>1, Shortened
    <3>2. /\ Len(toClient) \in Nat /\ 1 \in 1 .. Len(toClient) /\ Len(toClient') \in Nat
          /\ \A i \in 1 .. Len(toClient') :
                i + 1 \in 1 .. Len(toClient) /\ toClient'[i] = toClient[i + 1]
      BY <1>2 DEF Cut
    <3>3. /\ Len(Line) = Len(toClient) + 1 /\ Line[Len(toClient) + 1] = chan.sending
          /\ \A i \in 1 .. Len(toClient) : Line[i] = toClient[i]
      BY <2>3 DEF Grown
    <3>4. /\ Len(Line') = Len(toClient') + 1 /\ Line'[Len(toClient') + 1] = chan.sending
          /\ \A i \in 1 .. Len(toClient') : Line'[i] = toClient'[i]
          /\ \A i \in 1 .. Len(Line') : i \in 1 .. Len(toClient') \/ i = Len(toClient') + 1
      BY <2>3 DEF Grown
    <3>5. ASSUME NEW i \in 1 .. Len(Line')
          PROVE  i + 1 \in 1 .. Len(Line) /\ Line'[i] = Line[i + 1]
      <4>1. CASE i \in 1 .. Len(toClient')
        BY <3>2, <3>3, <3>4, <4>1
      <4>2. CASE i = Len(toClient') + 1
        <5>1. i = Len(toClient) /\ i + 1 = Len(toClient) + 1 /\ i + 1 \in 1 .. Len(Line)
          BY <3>1, <3>2, <3>3, <4>2
        <5> QED
          BY <3>3, <3>4, <4>2, <5>1
      <4> QED
        BY <3>4, <4>1, <4>2
    <3> QED
      BY <1>2, <3>2, <3>3, <3>4, <3>5 DEF Cut
  <2> QED
    BY <1>2, <1>3, <2>4
<1> QED
  BY <1>4, <1>5

(***************************************************************************)
(* A message to the client is lost.                                        *)
(***************************************************************************)
LEMMA LoseToClientKeeps == ASSUME IInv, LoseToClient PROVE IInv'
<1>1. /\ UNCHANGED <<svs, serverId, cl, chan, toServer>>
      /\ UNCHANGED <<cg, built, queued>>
  BY DEF LoseToClient
<1>2. toClient' \in Seq(ServerMessage) /\ NextNumber' = NextNumber /\ Cut(Line, Line')
  BY LineShortened DEF IInv, LoseToClient
<1>3. TypeOK'
  BY <1>1, <1>2, Types DEF IInv, TypeOK
<1>4. StorageInv(svs, serverId)'
  BY <1>1 DEF IInv
<1>5. NextNumber \in Nat /\ serverId \in Nat
  BY LineParts, Types DEF IInv
<1>6. BuiltInv' /\ FramesInv' /\ ClientInv' /\ AcknowledgedInv'
  BY <1>1, <1>2, <1>5, BuiltKept, FramesKept, ClientKept, AcknowledgedKept DEF IInv
<1>7. NumberInv' /\ MapInv'
  BY <1>1, <1>2, LineCut DEF IInv, NumberInv, MapInv, SendingNumbered
<1>8. SnapshotsInv'
  BY <1>1, <1>2, SnapshotsCut DEF IInv, SnapshotsInv
<1>9. KeptInv'
  BY <1>1, <1>2, LineCut, SnapshotsCut DEF IInv, KeptInv, Reset
<1> QED
  BY <1>3, <1>4, <1>6, <1>7, <1>8, <1>9 DEF IInv

(***************************************************************************)
(* A message to the server is lost.                                        *)
(***************************************************************************)
LEMMA LoseToServerKeeps == ASSUME IInv, LoseToServer PROVE IInv'
<1>1. /\ UNCHANGED <<svs, serverId, cl, chan, toClient>>
      /\ UNCHANGED <<cg, built, queued>>
      /\ toServer # << >> /\ toServer' = Tail(toServer)
  BY DEF LoseToServer
<1>2. toServer' \in Seq(ReplyType) /\ Cut(toServer, toServer')
  <2>1. toServer \in Seq(ReplyType)
    BY Types DEF IInv
  <2> QED
    BY <1>1, <2>1, CutFrom
<1>3. TypeOK'
  BY <1>1, <1>2, Types DEF IInv, TypeOK, ReplyType
<1>4. StorageInv(svs, serverId)'
  BY <1>1 DEF IInv
<1>5. NextNumber \in Nat /\ serverId \in Nat /\ NextNumber' = NextNumber /\ Line' = Line
  BY <1>1, LineParts, Types DEF IInv, NextNumber, Line
<1>6. BuiltInv' /\ FramesInv' /\ SnapshotsInv' /\ ClientInv'
  BY <1>1, <1>5, BuiltKept, FramesKept, SnapshotsKept, ClientKept DEF IInv
<1>7. NumberInv' /\ MapInv'
  BY <1>1, <1>2, <1>5, RepliesCut DEF IInv, NumberInv, MapInv, SendingNumbered
<1>8. AcknowledgedInv'
  BY <1>1, <1>2, RepliesCut DEF IInv, AcknowledgedInv, Reset
<1>9. KeptInv'
  BY <1>1, <1>2, <1>5, RepliesCut DEF IInv, KeptInv, Reset
<1> QED
  BY <1>3, <1>4, <1>6, <1>7, <1>8, <1>9 DEF IInv

(***************************************************************************)
(* The client's messages, when it sends one more.                          *)
(***************************************************************************)
LEMMA ReplyParts ==
  ASSUME NEW r \in ReplyType
  PROVE  Acks(r) \in Nat /\ MapOf(r) \in Nat /\ r.move \in {"none", "delta", "noDelta"}
  BY DEF ReplyType, Acks, MapOf

(***************************************************************************)
(* What was so of the client messages is so with one more that fits.       *)
(***************************************************************************)
LEMMA RepliesGrown ==
  ASSUME NEW a, NEW b, NEW e \in ReplyType, Grown(a, b, e)
  PROVE  /\ \A n : ReplyNumbers(a, n) /\ Acks(e) = n => ReplyNumbers(b, n)
         /\ \A n : ReplyMaps(a, n) /\ MapOf(e) = n => ReplyMaps(b, n)
         /\ \A n : RepliesOf(a, n) /\ MapOf(e) = n => RepliesOf(b, n)
         /\ \A n : RepliesFrom(a, n) /\ n <= Acks(e) => RepliesFrom(b, n)
         /\ \A n : RepliesBuilt(a, n)
                   /\ (AsksDelta(e) => Built(n, Acks(e)) /\ Since(n[Acks(e)], MapOf(e)))
                      => RepliesBuilt(b, n)
         /\ \A c, n : RepliesKept(a, c, n) /\ (AsksDelta(e) => Kept(c, Acks(e)))
                      => RepliesKept(b, c, n)
<1>1. /\ Len(a) \in Nat /\ Len(b) = Len(a) + 1 /\ b[Len(a) + 1] = e
      /\ \A i \in 1 .. Len(a) : b[i] = a[i]
      /\ \A i \in 1 .. Len(b) : i \in 1 .. Len(a) \/ i = Len(a) + 1
  BY DEF Grown
<1>2. \A i \in 1 .. Len(b), j \in 1 .. Len(b) : i < j => i \in 1 .. Len(a)
  BY <1>1
<1>3. Acks(e) <= Acks(e) /\ MapOf(e) <= MapOf(e)
  BY ReplyParts
<1>4. \A n : ReplyNumbers(a, n) /\ Acks(e) = n => ReplyNumbers(b, n)
  BY <1>1, <1>2, <1>3 DEF ReplyNumbers
<1>5. \A n : ReplyMaps(a, n) /\ MapOf(e) = n => ReplyMaps(b, n)
  BY <1>1, <1>2, <1>3 DEF ReplyMaps
<1>6. \A n : RepliesOf(a, n) /\ MapOf(e) = n => RepliesOf(b, n)
  BY <1>1 DEF RepliesOf
<1>7. \A n : RepliesFrom(a, n) /\ n <= Acks(e) => RepliesFrom(b, n)
  BY <1>1 DEF RepliesFrom
<1>8. \A n : RepliesBuilt(a, n)
             /\ (AsksDelta(e) => Built(n, Acks(e)) /\ Since(n[Acks(e)], MapOf(e)))
                => RepliesBuilt(b, n)
  BY <1>1 DEF RepliesBuilt
<1>9. \A c, n : RepliesKept(a, c, n) /\ (AsksDelta(e) => Kept(c, Acks(e))) => RepliesKept(b, c, n)
  BY <1>1 DEF RepliesKept
<1> QED
  BY <1>4, <1>5, <1>6, <1>7, <1>8, <1>9

(***************************************************************************)
(* CL_WritePacket: what is acknowledged is the newest message, and a delta *)
(* is asked for only if that is the newest snapshot, which the client has. *)
(***************************************************************************)
LEMMA WritePacketKeeps ==
  ASSUME IInv, NEW move \in BOOLEAN, CL_WritePacket(move)
  PROVE  IInv'
<1> DEFINE r == [serverId |-> cg.serverId, messageAcknowledge |-> cg.serverMessageSequence,
                 move |-> IF move THEN MoveKind ELSE "none"]
<1>1. /\ UNCHANGED <<svs, serverId, cl, chan, toClient>>
      /\ UNCHANGED <<cg, built, queued>>
      /\ toServer' = Append(toServer, r)
  BY DEF CL_WritePacket
<1>2. toServer \in Seq(ReplyType) /\ cg \in ClientType /\ serverId \in Nat
  BY Types DEF IInv
<1>3. cg.serverId \in Nat /\ cg.serverMessageSequence \in Nat
  BY <1>2 DEF ClientType
<1>4. /\ r \in ReplyType /\ MapOf(r) = cg.serverId /\ Acks(r) = cg.serverMessageSequence
      /\ AsksDelta(r) => cg.snap.valid /\ cg.serverMessageSequence = cg.snap.messageNum
  BY <1>3 DEF ReplyType, MapOf, Acks, AsksDelta, MoveKind
<1> HIDE DEF r
<1>5. toServer' \in Seq(ReplyType) /\ Grown(toServer, toServer', r)
  BY <1>1, <1>2, <1>4, GrownBy
<1>6. TypeOK'
  BY <1>1, <1>5, Types DEF IInv, TypeOK, ReplyType
<1>7. StorageInv(svs, serverId)'
  BY <1>1 DEF IInv
<1>8. NextNumber \in Nat /\ NextNumber' = NextNumber /\ Line' = Line
  BY <1>1, LineParts DEF IInv, NextNumber, Line
<1>9. BuiltInv' /\ FramesInv' /\ SnapshotsInv' /\ ClientInv'
  BY <1>1, <1>2, <1>8, BuiltKept, FramesKept, SnapshotsKept, ClientKept DEF IInv
<1>10. NumberInv' /\ MapInv'
  BY <1>1, <1>4, <1>5, <1>8, RepliesGrown DEF IInv, NumberInv, MapInv, SendingNumbered
<1>11. AsksDelta(r) => /\ Has(cg, Acks(r))
                       /\ Built(built, Acks(r))
                       /\ Since(built[Acks(r)], MapOf(r))
  <2> SUFFICES ASSUME AsksDelta(r)
               PROVE  /\ Has(cg, cg.serverMessageSequence)
                      /\ Built(built, cg.serverMessageSequence)
                      /\ Since(built[cg.serverMessageSequence], cg.serverId)
    BY <1>4
  <2>1. Has(cg, cg.serverMessageSequence)
    BY <1>4 DEF IInv, ClientInv
  <2>2. Slot(cg.serverMessageSequence) \in 0 .. PACKET_BACKUP - 1
    BY <1>3, SlotIn
  <2>3. SnapInv(cg.snapshots[Slot(cg.serverMessageSequence)], Slot(cg.serverMessageSequence), cg, built)
    BY <2>1, <2>2 DEF IInv, ClientInv, Has
  <2> QED
    BY <2>1, <2>3 DEF SnapInv, Has
<1>12. AcknowledgedInv'
  BY <1>1, <1>5, <1>11, RepliesGrown DEF IInv, AcknowledgedInv, Reset
<1>13. KeptInv'
  <2>1. cl.gamestateAck = "acked" /\ ~queued => cl.gamestateMessageNum <= Acks(r)
    BY <1>4 DEF IInv, KeptInv
  <2>2. AsksDelta(r) => Kept(cg, Acks(r))
    BY <1>11 DEF Kept
  <2> QED
    BY <1>1, <1>5, <1>8, <2>1, <2>2, RepliesGrown DEF IInv, KeptInv, Reset
<1> QED
  BY <1>6, <1>7, <1>9, <1>10, <1>12, <1>13 DEF IInv
-----------------------------------------------------------------------------
(***************************************************************************)
(* A common snapshot is added: what pointed into the storage still does if *)
(* its frame is valid.                                                     *)
(***************************************************************************)
LEMMA CommonParts ==
  ASSUME IInv, svs.snapshotFrame < Len(Entities[serverId])
  PROVE  \E count \in 0 .. MAX_GENTITIES :
            /\ CommonSnapshot = SV_BuildCommonSnapshot(svs, count, serverId)
            /\ StorageInv(CommonSnapshot, serverId)
            /\ Adds(svs, CommonSnapshot, count)
<1>1. /\ serverId \in 1 .. Len(Entities) /\ serverId \in Nat /\ svs \in StorageType
  BY Types DEF IInv
<1>2. svs.snapshotFrame \in Nat
  BY <1>1 DEF StorageType
<1>3. Entities[serverId] \in Seq(0 .. MAX_GENTITIES)
  BY <1>1, Numbers
<1>4. Entities[serverId][svs.snapshotFrame + 1] \in 0 .. MAX_GENTITIES
  <2>1. svs.snapshotFrame + 1 \in 1 .. Len(Entities[serverId])
    BY <1>2, <1>3
  <2> QED
    BY <1>3, <2>1, StorageSizes
<1>5. StorageInv(svs, serverId)
  BY DEF IInv
<1> QED
  BY <1>1, <1>4, <1>5, BuildSound DEF CommonSnapshot

(***************************************************************************)
(* A client's frame still leads to what was built when a common snapshot   *)
(* is added.                                                               *)
(***************************************************************************)
LEMMA PointersKept ==
  ASSUME NEW s \in StorageType, NEW t \in StorageType, NEW count, Adds(s, t, count),
         NEW frame \in FrameType, NEW b, NEW map, FrameInv(frame, b, s, map)
  PROVE  FrameInv(frame, b, t, map)
<1>1. frame.frameNum \in Nat /\ s.lastValidFrame \in Nat /\ t.lastValidFrame \in Nat
      /\ s.snapshotFrame \in Nat
  BY DEF FrameType, StorageType
<1>2. /\ t.snapshotFrame = s.snapshotFrame + 1
      /\ t.lastValidFrame \in s.lastValidFrame .. s.snapshotFrame
      /\ \A f \in t.lastValidFrame .. s.snapshotFrame - 1 :
            t.snapFrames[FrameSlot(f)] = s.snapFrames[FrameSlot(f)]
  BY DEF Adds
<1>3. SUFFICES ASSUME OfMap(b[frame.ps], map), frame.frameNum >= t.lastValidFrame,
                      frame.ents # << >>
               PROVE  PointsTo(frame, b[frame.ps], t, map)
  BY DEF FrameInv
<1>4. PointsTo(frame, b[frame.ps], s, map)
  <2>1. frame.frameNum >= s.lastValidFrame
    BY <1>1, <1>2, <1>3
  <2> QED
    BY <1>3, <2>1 DEF FrameInv
<1>5. frame.frameNum < s.snapshotFrame
  BY <1>4 DEF PointsTo
<1>6. frame.frameNum \in t.lastValidFrame .. s.snapshotFrame - 1 /\ frame.frameNum < t.snapshotFrame
  BY <1>1, <1>2, <1>3, <1>5
<1>7. /\ CountOf(t, frame.frameNum) = CountOf(s, frame.frameNum)
      /\ StartOf(t, frame.frameNum) = StartOf(s, frame.frameNum)
  BY <1>2, <1>6 DEF CountOf, StartOf
<1> QED
  BY <1>4, <1>6, <1>7 DEF PointsTo

(***************************************************************************)
(* Other clients are sent a common snapshot.                               *)
(***************************************************************************)
LEMMA SendOthersKeeps == ASSUME IInv, SV_SendOthersSnapshots PROVE IInv'
<1>1. /\ UNCHANGED <<serverId, cl, chan, toClient, toServer>>
      /\ UNCHANGED <<cg, built, queued>>
      /\ svs' = CommonSnapshot
      /\ svs.snapshotFrame < Len(Entities[serverId])
  BY DEF SV_SendOthersSnapshots
<1>2. PICK count \in 0 .. MAX_GENTITIES : StorageInv(svs', serverId) /\ Adds(svs, svs', count)
  BY <1>1, CommonParts
<1>3. svs \in StorageType /\ svs' \in StorageType /\ cl \in SlotType /\ serverId \in Nat
  BY <1>2, Types DEF IInv, StorageInv, StorageShape
<1>4. TypeOK'
  BY <1>1, <1>3, Types DEF IInv, TypeOK, StorageType
<1>5. NextNumber \in Nat /\ NextNumber' = NextNumber /\ Line' = Line
  BY <1>1, LineParts DEF IInv, NextNumber, Line
<1>6. FramesInv'
  <2>1. ASSUME NEW i \in 0 .. PACKET_BACKUP - 1, cl.frames[i].ps # 0
        PROVE  FrameInv(cl.frames[i], built, svs', serverId)
    <3>1. cl.frames[i] \in FrameType
      BY <1>3 DEF SlotType
    <3>2. FrameInv(cl.frames[i], built, svs, serverId)
      BY <2>1 DEF IInv, FramesInv
    <3> QED
      BY <1>2, <1>3, <3>1, <3>2, PointersKept
  <2> QED
    BY <1>1, <1>5, <2>1 DEF IInv, FramesInv
<1>7. StorageInv(svs, serverId)'
  BY <1>1, <1>2
<1> QED
  BY <1>1, <1>3, <1>4, <1>5, <1>6, <1>7, BuiltKept, NumbersKept, MapsKept, SnapshotsKept,
     ClientKept, KeptKept, AcknowledgedKept DEF IInv

(***************************************************************************)
(* A new map: no frame with an entity is of it.                            *)
(***************************************************************************)
LEMMA SpawnServerKeeps == ASSUME IInv, SV_SpawnServer PROVE IInv'
<1>1. /\ UNCHANGED <<chan, toClient, toServer>>
      /\ UNCHANGED <<cg, built, queued>>
      /\ serverId < Len(Entities) /\ serverId' = serverId + 1
      /\ svs' = SV_InitSnapshotStorage
      /\ cl' = [cl EXCEPT !.state = "connected", !.gamestateAck = "init"]
  BY DEF SV_SpawnServer
<1>2. serverId \in 1 .. Len(Entities) /\ cl \in SlotType /\ built \in [1 .. MaxSequence -> Content]
  BY Types DEF IInv
<1>3. /\ cl' \in SlotType /\ cl'.state = "connected" /\ cl'.gamestateAck = "init"
      /\ cl'.gamestateMessageNum = cl.gamestateMessageNum /\ cl'.deltaMessage = cl.deltaMessage
      /\ cl'.frames = cl.frames
  BY <1>1, <1>2 DEF SlotType
<1>4. serverId \in Nat /\ serverId' \in 1 .. Len(Entities) /\ serverId' \in Nat /\ serverId < serverId'
  BY <1>1, <1>2, Numbers
<1>5. StorageInv(svs', serverId')
  BY <1>1, NewStorageSound
<1>6. TypeOK'
  <2>1. svs' \in StorageType
    BY <1>5 DEF StorageInv, StorageShape
  <2> QED
    BY <1>1, <1>3, <1>4, <2>1, Types DEF IInv, TypeOK, StorageType, SlotType, FrameType
<1>7. NextNumber \in Nat /\ NextNumber' = NextNumber /\ Line' = Line
  BY <1>1, LineParts DEF IInv, NextNumber, Line
<1>8. BuiltInv'
  BY <1>1, <1>4, <1>7, BuiltKept DEF IInv
<1>9. NumberInv'
  <2>1. SendingNumbered'
    BY <1>1 DEF IInv, NumberInv, SendingNumbered
  <2> QED
    BY <1>1, <1>3, <1>7, <2>1 DEF IInv, NumberInv
<1>10. MapInv'
  <2>1. /\ \A i \in 1 .. Len(Line) : Gamestate(Line[i]) => MapOf(Line[i]) \in Nat
        /\ \A i \in 1 .. Len(chan.queue) : MapOf(chan.queue[i]) \in Nat
        /\ cg.serverId \in Nat
    BY LineParts, MessageParts, Types DEF IInv, NumberInv, ClientType
  <2>2. cg.serverId <= serverId'
    BY <1>4, <2>1 DEF IInv, MapInv
  <2>3. LineMaps(Line, chan.queue, cg.serverId, serverId)
    BY DEF IInv, MapInv
  <2>4. \A i \in 1 .. Len(Line) : Gamestate(Line[i]) => MapOf(Line[i]) <= serverId'
    BY <1>4, <2>1, <2>3 DEF LineMaps
  <2>5. \A i \in 1 .. Len(chan.queue) : MapOf(chan.queue[i]) <= serverId'
    BY <1>4, <2>1, <2>3 DEF LineMaps
  <2>6. LineMaps(Line, chan.queue, cg.serverId, serverId')
    BY <2>3, <2>4, <2>5 DEF LineMaps
  <2> QED
    BY <1>1, <1>3, <1>7, <2>2, <2>6 DEF IInv, MapInv
<1>11. FramesInv'
  <2>1. ASSUME NEW i \in 0 .. PACKET_BACKUP - 1, cl.frames[i].ps # 0
        PROVE  FrameInv(cl.frames[i], built, svs', serverId')
    <3> DEFINE frame == cl.frames[i]
               content == built[frame.ps]
    <3>1. frame \in FrameType
      BY <1>2 DEF SlotType
    <3>2. Built(built, frame.ps) /\ Len(frame.ents) = Len(content.ents)
      BY <2>1 DEF IInv, FramesInv, FrameInv
    <3>3. content \in Content
      BY <1>2, <3>2 DEF Built
    <3>4. \A k \in 1 .. Len(content.ents) : content.ents[k][1] <= serverId
      BY <3>2 DEF IInv, BuiltInv, Built
    <3>5. frame.ents \in Seq(0 .. numSnapshotEntities - 1) /\ content.ents \in Seq(EntityState)
      BY <3>1, <3>3 DEF FrameType, Content
    <3> HIDE DEF frame, content
    <3>6. OfMap(content, serverId') => frame.ents = << >>
      <4> SUFFICES ASSUME OfMap(content, serverId'), frame.ents # << >> PROVE FALSE
        OBVIOUS
      <4>1. 1 \in 1 .. Len(content.ents)
        BY <3>2, <3>5
      <4>2. content.ents[1][1] = serverId' /\ content.ents[1][1] <= serverId
        BY <3>4, <4>1 DEF OfMap
      <4> QED
        BY <1>4, <4>2
    <3> QED
      BY <3>2, <3>6 DEF FrameInv, frame, content
  <2> QED
    BY <1>1, <1>3, <1>7, <2>1 DEF IInv, FramesInv
<1>12. AcknowledgedInv'
  BY <1>1, <1>3 DEF IInv, AcknowledgedInv
<1>13. KeptInv'
  BY <1>1, <1>3, <1>7 DEF IInv, KeptInv
<1>14. SnapshotsInv' /\ ClientInv'
  BY <1>1, SnapshotsKept, ClientKept DEF IInv
<1> QED
  BY <1>5, <1>6, <1>8, <1>9, <1>10, <1>11, <1>12, <1>13, <1>14 DEF IInv

-----------------------------------------------------------------------------
(***************************************************************************)
(* A message is begun: the line grows by it.                               *)
(***************************************************************************)
Alike(e, m) ==
    /\ Gamestate(e) <=> Gamestate(m)
    /\ Snapshot(e) <=> Snapshot(m)
    /\ Gamestate(m) => MapOf(e) = MapOf(m)
    /\ Snapshot(m) => New(e) = New(m) /\ e.base = m.base /\ e.lastframe = m.lastframe

(***************************************************************************)
(* The message begun is the last of the line, with the next number.        *)
(***************************************************************************)
LEMMA LineBegun ==
  ASSUME TypeOK, NEW m \in ServerMessage, Begun(m)
  PROVE  \E e \in ServerMessage :
            Grown(Line, Line', e) /\ NumberOf(e) = NextNumber /\ Alike(e, m)
<1> DEFINE e == Numbered(m, NextNumber)
<1>1. Line \in Seq(ServerMessage) /\ NextNumber \in Nat
  BY LineParts
<1>2. e \in ServerMessage /\ NumberOf(e) = NextNumber /\ Alike(e, m)
  BY <1>1, NumberedParts DEF Alike, NumberOf, MapOf, New, Gamestate, Snapshot
<1>3. Line' = Append(Line, e)
  BY DEF Begun
<1> HIDE DEF e
<1> QED
  BY <1>1, <1>2, <1>3, GrownBy

(***************************************************************************)
(* A delta message that is too old stays so.                               *)
(***************************************************************************)
LEMMA ResetKept ==
  ASSUME TypeOK, chan'.outgoingSequence \in Nat, chan.outgoingSequence <= chan'.outgoingSequence,
         cl'.deltaMessage = cl.deltaMessage, Reset
  PROVE  Reset'
<1>1. chan.outgoingSequence \in Nat /\ cl.deltaMessage \in Int
  BY Types DEF ChanType, SlotType
<1> QED
  BY <1>1, Numbers DEF Reset

(***************************************************************************)
(* What the channel does with a message, as far as the numbers go.         *)
(***************************************************************************)
LEMMA ChannelNumbers ==
  ASSUME TypeOK, ChannelKept, NoneBegun \/ \E m \in ServerMessage : Begun(m)
  PROVE  /\ chan.outgoingSequence \in Nat /\ chan'.outgoingSequence \in Nat
         /\ chan.outgoingSequence <= chan'.outgoingSequence
         /\ NextNumber \in Nat /\ NextNumber' \in Nat /\ NextNumber <= NextNumber'
<1>1. chan.outgoingSequence \in Nat /\ NextNumber \in Nat
  BY LineParts
<1>2. chan'.outgoingSequence \in Nat /\ chan.outgoingSequence <= chan'.outgoingSequence
  BY DEF ChannelKept, ChanType
<1>3. NextNumber' = NextNumber \/ NextNumber' = NextNumber + 1
  BY DEF NoneBegun, Begun
<1> QED
  BY <1>1, <1>2, <1>3

(***************************************************************************)
(* A fragment leaves.                                                      *)
(***************************************************************************)
LEMMA FragmentKeeps == ASSUME IInv, SV_TransmitNextFragment PROVE IInv'
<1>1. /\ UNCHANGED <<svs, serverId, cl, toServer>>
      /\ UNCHANGED <<cg, built, queued>>
  BY DEF SV_TransmitNextFragment
<1>2. /\ ChannelKept
      /\ \/ NoneBegun /\ chan'.queue = chan.queue
         \/ chan.queue # << >> /\ Begun(Head(chan.queue)) /\ chan'.queue = Tail(chan.queue)
  BY FragmentEffect DEF SV_TransmitNextFragment, IInv, NumberInv
<1>3. chan.queue \in Seq(ServerMessage) /\ cg.serverMessageSequence \in Nat /\ serverId \in Nat
      /\ cl.gamestateMessageNum \in Int
  BY Types DEF IInv, ChanType, ClientType, SlotType
<1>4. TypeOK'
  BY <1>1, <1>2, Types DEF IInv, TypeOK, ChannelKept, ChanType
<1>5. /\ chan.outgoingSequence \in Nat /\ chan'.outgoingSequence \in Nat
      /\ chan.outgoingSequence <= chan'.outgoingSequence
      /\ NextNumber \in Nat /\ NextNumber' \in Nat /\ NextNumber <= NextNumber'
  <2>1. chan.queue # << >> => Head(chan.queue) \in ServerMessage
    BY <1>3
  <2> QED
    BY <1>2, <2>1, ChannelNumbers DEF IInv
<1>6. BuiltInv' /\ FramesInv' /\ ClientInv' /\ StorageInv(svs, serverId)'
  BY <1>1, <1>3, <1>5, BuiltKept, FramesKept, ClientKept DEF IInv
<1>7. SendingNumbered' /\ (Reset => Reset')
  BY <1>1, <1>2, <1>5, ResetKept DEF IInv, ChannelKept
<1>8. AcknowledgedInv'
  BY <1>1, <1>7 DEF IInv, AcknowledgedInv
<1>9. /\ cg'.serverMessageSequence < chan'.outgoingSequence
      /\ cl'.gamestateMessageNum <= chan'.outgoingSequence
  BY <1>1, <1>3, <1>5 DEF IInv, NumberInv
<1>10. CASE NoneBegun /\ chan'.queue = chan.queue
  <2>1. Line' = Line /\ NextNumber' = NextNumber /\ chan'.queue = chan.queue
    BY <1>10 DEF NoneBegun
  <2>2. NumberInv' /\ MapInv'
    BY <1>1, <1>7, <1>9, <2>1 DEF IInv, NumberInv, MapInv
  <2>3. SnapshotsInv' /\ KeptInv'
    BY <1>1, <1>7, <2>1 DEF IInv, SnapshotsInv, KeptInv
  <2> QED
    BY <1>4, <1>6, <1>8, <2>2, <2>3 DEF IInv
<1>11. CASE chan.queue # << >> /\ Begun(Head(chan.queue)) /\ chan'.queue = Tail(chan.queue)
  <2>1. /\ Head(chan.queue) \in ServerMessage /\ Cut(chan.queue, chan'.queue)
        /\ chan.queue[1] = Head(chan.queue) /\ 1 \in 1 .. Len(chan.queue)
    <3>1. /\ Head(chan.queue) \in ServerMessage /\ Cut(chan.queue, chan'.queue)
          /\ chan.queue[1] = Head(chan.queue)
      BY <1>3, <1>11, CutFrom
    <3> QED
      BY <3>1 DEF Cut
  <2>2. PICK e \in ServerMessage :
           Grown(Line, Line', e) /\ NumberOf(e) = NextNumber /\ Alike(e, Head(chan.queue))
    BY <1>11, <2>1, LineBegun DEF IInv
  <2>3. Gamestate(e) /\ MapOf(e) = MapOf(chan.queue[1])
    BY <2>1, <2>2 DEF IInv, NumberInv, Alike
  <2>4. NextNumber' = NextNumber + 1 /\ NextNumber = chan.outgoingSequence /\ Line \in Seq(ServerMessage)
    BY <1>11, LineParts DEF Begun, IInv
  <2>5. LineNumbers(Line', cg.serverMessageSequence, NextNumber')
    <3>1. cg.serverMessageSequence \in Int /\ NextNumber \in Int
          /\ cg.serverMessageSequence < NextNumber
      BY <1>3, <1>5, <2>4 DEF IInv, NumberInv
    <3> QED
      BY <2>2, <2>4, <3>1, LineGrown DEF IInv, NumberInv
  <2>6. LineMaps(Line', chan'.queue, cg.serverId, serverId)
    BY <2>1, <2>2, <2>3, <2>4, LineGrown DEF IInv, MapInv
  <2>7. \A i \in 1 .. Len(chan'.queue) : Gamestate(chan'.queue[i])
    BY <2>1 DEF IInv, NumberInv, Cut
  <2>8. NumberInv' /\ MapInv'
    BY <1>1, <1>7, <1>9, <2>5, <2>6, <2>7 DEF IInv, NumberInv, MapInv
  <2>9. SnapshotsInv'
    BY <1>1, <2>2, <2>3, <2>4, SnapshotsGrown DEF IInv, SnapshotsInv
  <2>10. KeptInv'
    BY <1>1, <1>11 DEF IInv, KeptInv
  <2> QED
    BY <1>4, <1>6, <1>8, <2>8, <2>9, <2>10 DEF IInv
<1> QED
  BY <1>2, <1>10, <1>11

-----------------------------------------------------------------------------
(***************************************************************************)
(* The server reads a client message.  First, when it sends a gamestate.   *)
(***************************************************************************)
ReplyRead ==
    /\ toServer # << >> /\ toServer' = Tail(toServer)
    /\ UNCHANGED <<svs, serverId, cg, built>>

(***************************************************************************)
(* The message read is the first, and the others stay.                     *)
(***************************************************************************)
LEMMA ReadParts ==
  ASSUME TypeOK, ReplyRead
  PROVE  /\ toServer' \in Seq(ReplyType) /\ Cut(toServer, toServer')
         /\ Head(toServer) \in ReplyType /\ toServer[1] = Head(toServer)
         /\ 1 \in 1 .. Len(toServer)
<1>1. toServer \in Seq(ReplyType)
  BY Types
<1>2. /\ toServer' \in Seq(ReplyType) /\ Cut(toServer, toServer')
      /\ Head(toServer) \in ReplyType /\ toServer[1] = Head(toServer)
  BY <1>1, CutFrom DEF ReplyRead
<1> QED
  BY <1>2 DEF Cut

(***************************************************************************)
(* SV_SendClientGameState keeps the invariant.                             *)
(***************************************************************************)
LEMMA SendGamestateKeeps ==
  ASSUME IInv, ReplyRead, NEW size \in Sizes, NEW csUpdated \in BOOLEAN,
         cl.gamestateAck # "acked", SV_SendClientGameState(cl, size, csUpdated)
  PROVE  IInv'
<1> DEFINE g == [kind |-> "gamestate", size |-> size, sequence |-> 0, serverId |-> serverId]
<1>1. /\ serverId \in 1 .. Len(Entities) /\ serverId \in Nat /\ cl \in SlotType /\ queued \in BOOLEAN
      /\ cg.serverId \in Nat /\ cg.serverMessageSequence \in Nat /\ cl.gamestateMessageNum \in Int
      /\ chan.outgoingSequence \in Nat /\ chan.queue \in Seq(ServerMessage)
  BY Types DEF IInv, SlotType, ClientType, ChanType
<1>2. g \in ServerMessage /\ Gamestate(g) /\ MapOf(g) = serverId
  BY <1>1 DEF ServerMessage, Gamestate, MapOf
<1>3. SV_Netchan_Transmit(g) /\ queued' = (queued \/ Busy)
  BY DEF SV_SendClientGameState
<1> HIDE DEF g
<1>4. /\ ChannelKept
      /\ Busy => NoneBegun /\ chan'.queue = Append(chan.queue, g)
      /\ ~Busy => Begun(g) /\ chan'.queue = << >> /\ chan.queue = << >>
  BY <1>2, <1>3, TransmitEffect DEF IInv, NumberInv
<1>5. /\ cl' \in SlotType
      /\ cl'.state = "primed" /\ cl'.gamestateAck \in {"once", "many"}
      /\ cl'.gamestateMessageNum = chan.outgoingSequence
      /\ cl'.deltaMessage = cl.deltaMessage /\ cl'.frames = cl.frames
  <2> DEFINE ack == IF cl.gamestateAck = "init" \/ (cl.gamestateAck = "once" /\ ~csUpdated)
                    THEN "once" ELSE "many"
  <2>1. cl' = [cl EXCEPT !.state = "primed", !.gamestateMessageNum = chan.outgoingSequence,
                         !.gamestateAck = ack]
    BY DEF SV_SendClientGameState
  <2>2. ack \in {"once", "many"} /\ chan.outgoingSequence \in Int
    BY <1>1
  <2> HIDE DEF ack
  <2> DEFINE next == chan.outgoingSequence
  <2> HIDE DEF next
  <2>3. cl' = [cl EXCEPT !.state = "primed", !.gamestateMessageNum = next, !.gamestateAck = ack]
        /\ next \in Int
    BY <2>1, <2>2 DEF next
  <2>4. /\ cl' \in SlotType /\ cl'.state = "primed" /\ cl'.gamestateAck = ack
        /\ cl'.gamestateMessageNum = next
        /\ cl'.deltaMessage = cl.deltaMessage /\ cl'.frames = cl.frames
    BY <1>1, <2>2, <2>3 DEF SlotType
  <2> QED
    BY <2>2, <2>4 DEF next
<1>6. /\ UNCHANGED <<svs, serverId, cg, built>>
      /\ toServer' \in Seq(ReplyType) /\ Cut(toServer, toServer')
  BY ReadParts DEF ReplyRead, IInv
<1>7. TypeOK'
  BY <1>1, <1>3, <1>4, <1>5, <1>6, Types
     DEF IInv, TypeOK, ChannelKept, ChanType, SlotType, FrameType, ReplyType
<1>8. /\ chan'.outgoingSequence \in Nat /\ chan.outgoingSequence <= chan'.outgoingSequence
      /\ NextNumber \in Nat /\ NextNumber' \in Nat /\ NextNumber <= NextNumber'
  BY <1>2, <1>4, ChannelNumbers DEF IInv
<1>9. BuiltInv' /\ FramesInv' /\ ClientInv' /\ StorageInv(svs, serverId)'
  BY <1>1, <1>5, <1>6, <1>8, BuiltKept, FramesKept, ClientKept DEF IInv
<1>10. AcknowledgedInv'
  BY <1>5, <1>6, RepliesCut DEF IInv, AcknowledgedInv
<1>11. /\ SendingNumbered'
       /\ cg'.serverMessageSequence < chan'.outgoingSequence
       /\ ReplyNumbers(toServer', cg'.serverMessageSequence)
       /\ cl'.gamestateMessageNum <= chan'.outgoingSequence
  <2>1. ReplyNumbers(toServer, cg.serverMessageSequence)
    BY DEF IInv, NumberInv
  <2>2. ReplyNumbers(toServer', cg'.serverMessageSequence)
    BY <1>6, <2>1, RepliesCut
  <2>3. SendingNumbered' /\ chan.outgoingSequence <= chan'.outgoingSequence
    BY <1>4 DEF ChannelKept
  <2>4. cg'.serverMessageSequence < chan'.outgoingSequence
    <3>1. cg.serverMessageSequence < chan.outgoingSequence /\ cg' = cg
      BY <1>6 DEF IInv, NumberInv
    <3> QED
      BY <1>1, <1>8, <2>3, <3>1
  <2>5. cl'.gamestateMessageNum <= chan'.outgoingSequence
    BY <1>1, <1>5, <1>8, <2>3
  <2> QED
    BY <2>2, <2>3, <2>4, <2>5
<1>12. /\ cg'.serverId <= serverId' /\ ReplyMaps(toServer', cg'.serverId)
       /\ cl'.state = "connected" <=> cl'.gamestateAck = "init"
       /\ cl'.state # "active" /\ cl'.gamestateAck # "acked"
  BY <1>5, <1>6, RepliesCut DEF IInv, MapInv
<1>13. cg.serverId <= serverId /\ serverId <= serverId
  BY <1>1 DEF IInv, MapInv
<1>14. CASE Busy
  <2>1. Line' = Line /\ NextNumber' = NextNumber /\ Grown(chan.queue, chan'.queue, g)
    BY <1>1, <1>2, <1>4, <1>14, GrownBy DEF NoneBegun
  <2>2. LineMaps(Line, chan'.queue, cg.serverId, serverId)
    BY <1>2, <1>13, <2>1, QueueGrown DEF IInv, MapInv
  <2>3. \A i \in 1 .. Len(chan'.queue) : Gamestate(chan'.queue[i])
    BY <1>2, <2>1 DEF IInv, NumberInv, Grown
  <2>4. NumberInv' /\ MapInv' /\ SnapshotsInv'
    BY <1>6, <1>11, <1>12, <2>1, <2>2, <2>3 DEF IInv, NumberInv, MapInv, SnapshotsInv
  <2>5. KeptInv'
    BY <1>3, <1>14 DEF KeptInv
  <2> QED
    BY <1>7, <1>9, <1>10, <2>4, <2>5 DEF IInv
<1>15. CASE ~Busy
  <2>1. PICK e \in ServerMessage : Grown(Line, Line', e) /\ NumberOf(e) = NextNumber /\ Alike(e, g)
    BY <1>2, <1>4, <1>15, LineBegun DEF IInv
  <2>2. /\ Gamestate(e) /\ MapOf(e) = serverId
        /\ chan.queue = << >> /\ chan'.queue = << >>
        /\ NextNumber = chan.outgoingSequence /\ NextNumber' = NextNumber + 1
        /\ Line \in Seq(ServerMessage)
    BY <1>2, <1>4, <1>15, <2>1, LineParts DEF IInv, Alike, Begun
  <2>3. LineNumbers(Line', cg.serverMessageSequence, NextNumber')
    <3>1. cg.serverMessageSequence \in Int /\ NextNumber \in Int
          /\ cg.serverMessageSequence < NextNumber
      BY <1>1, <1>8, <2>2 DEF IInv, NumberInv
    <3> QED
      BY <2>1, <2>2, <3>1, LineGrown DEF IInv, NumberInv
  <2>4. LineMaps(Line', << >>, cg.serverId, serverId)
    BY <1>13, <2>1, <2>2, LineGrown DEF IInv, MapInv
  <2>5. NumberInv' /\ MapInv'
    BY <1>6, <1>11, <1>12, <2>2, <2>3, <2>4 DEF NumberInv, MapInv
  <2>6. SnapshotsInv'
    BY <1>6, <2>1, <2>2, SnapshotsGrown DEF IInv, SnapshotsInv
  <2>7. KeptInv'
    <3> SUFFICES ASSUME ~queued
                 PROVE  /\ chan'.queue = << >>
                        /\ LineGamestates(Line', cl'.gamestateMessageNum)
                        /\ LineKept(Line', cg')
                        /\ cl'.gamestateAck # "acked" /\ cl'.state # "active"
                        /\ RepliesKept(toServer', cg', cl'.gamestateMessageNum)
      BY <1>3, <1>15 DEF KeptInv
    <3>1. LineGamestates(Line', cl'.gamestateMessageNum)
      <4>1. \A i \in 1 .. Len(Line) : NumberOf(Line[i]) <= NextNumber
        BY <1>8, <2>2, MessageParts DEF IInv, NumberInv, LineNumbers
      <4>2. NumberOf(e) <= NextNumber
        BY <1>8, <2>1
      <4> QED
        BY <1>5, <2>1, <2>2, <4>1, <4>2, SnapshotsGrown
    <3>2. LineKept(Line', cg')
      BY <1>6, <2>1, <2>2, SnapshotsGrown DEF IInv, KeptInv
    <3>3. RepliesKept(toServer', cg', cl'.gamestateMessageNum)
      <4>1. ASSUME NEW i \in 1 .. Len(toServer') PROVE Acks(toServer'[i]) < chan.outgoingSequence
        <5>1. Acks(toServer'[i]) <= cg.serverMessageSequence
          BY <1>6, <1>11 DEF ReplyNumbers
        <5>2. Acks(toServer'[i]) \in Nat
          BY <1>6, ReplyParts
        <5> QED
          BY <1>1, <5>1, <5>2 DEF IInv, NumberInv
      <4> QED
        BY <1>5, <4>1 DEF RepliesKept
    <3> QED
      BY <1>12, <2>2, <3>1, <3>2, <3>3
  <2> QED
    BY <1>7, <1>9, <1>10, <2>5, <2>6, <2>7 DEF IInv
<1> QED
  BY <1>14, <1>15

(***************************************************************************)
(* It finds the gamestate acknowledged, and may carry out a move: the      *)
(* server's next delta is then from what the message acknowledges, or from *)
(* nothing.                                                                *)
(***************************************************************************)
Moved(m) ==
    /\ UNCHANGED <<chan, toClient, queued>>
    /\ cl' \in SlotType
    /\ cl'.gamestateAck = "acked"
    /\ cl.state # "connected" /\ cl'.state # "connected"
    /\ cl'.frames = cl.frames /\ cl'.gamestateMessageNum = cl.gamestateMessageNum
    /\ cl.gamestateAck # "acked" => MapOf(m) = serverId /\ cl.gamestateMessageNum <= Acks(m)
    /\ cl'.state = "active" =>
          \/ Reset'
          \/ cl.state = "active" /\ cl'.deltaMessage = cl.deltaMessage
          \/ cl.state = "active" /\ AsksDelta(m) /\ cl'.deltaMessage = Acks(m)

(***************************************************************************)
(* A message read so keeps the invariant.                                  *)
(***************************************************************************)
LEMMA MovedKeeps ==
  ASSUME IInv, ReplyRead, Moved(Head(toServer))
  PROVE  IInv'
<1> DEFINE m == Head(toServer)
<1>1. /\ UNCHANGED <<svs, serverId, chan, toClient>>
      /\ UNCHANGED <<cg, built, queued>>
      /\ toServer' \in Seq(ReplyType) /\ Cut(toServer, toServer')
      /\ m \in ReplyType /\ toServer[1] = m /\ 1 \in 1 .. Len(toServer)
  BY ReadParts DEF ReplyRead, IInv, Moved
<1> HIDE DEF m
<1>2. /\ cl' \in SlotType
      /\ cl'.gamestateAck = "acked"
      /\ cl.state # "connected" /\ cl'.state # "connected"
      /\ cl'.frames = cl.frames /\ cl'.gamestateMessageNum = cl.gamestateMessageNum
  BY DEF Moved
<1>3. cl.gamestateAck # "acked" => MapOf(m) = serverId /\ cl.gamestateMessageNum <= Acks(m)
  BY DEF Moved, m
<1>4. cl'.state = "active" =>
         \/ Reset'
         \/ cl.state = "active" /\ cl'.deltaMessage = cl.deltaMessage
         \/ cl.state = "active" /\ AsksDelta(m) /\ cl'.deltaMessage = Acks(m)
  BY DEF Moved, m
<1>5. /\ serverId \in Nat /\ cg.serverId \in Nat /\ cg.serverMessageSequence \in Nat
      /\ cl.gamestateMessageNum \in Int
      /\ \A i \in 1 .. Len(toServer) : Acks(toServer[i]) \in Nat /\ MapOf(toServer[i]) \in Nat
  <2>1. toServer \in Seq(ReplyType)
    BY Types DEF IInv
  <2>2. \A i \in 1 .. Len(toServer) : Acks(toServer[i]) \in Nat /\ MapOf(toServer[i]) \in Nat
    BY <2>1, ReplyParts
  <2> QED
    BY <2>2, Types DEF IInv, ClientType, SlotType
<1>6. \A i \in 1 .. Len(toServer') :
         i + 1 \in 1 .. Len(toServer) /\ 1 < i + 1 /\ toServer'[i] = toServer[i + 1]
  BY <1>1 DEF Cut
<1>7. TypeOK'
  BY <1>1, <1>2, Types DEF IInv, TypeOK, SlotType, FrameType, ReplyType
<1>8. NextNumber \in Nat /\ NextNumber' = NextNumber /\ Line' = Line
  BY <1>1, LineParts DEF IInv, NextNumber, Line
<1>9. BuiltInv' /\ FramesInv' /\ SnapshotsInv' /\ ClientInv' /\ StorageInv(svs, serverId)'
  BY <1>1, <1>2, <1>5, <1>8, BuiltKept, FramesKept, SnapshotsKept, ClientKept DEF IInv
<1>10. NumberInv'
  BY <1>1, <1>2, <1>8, RepliesCut DEF IInv, NumberInv, SendingNumbered
<1>11. cg.serverId = serverId /\ RepliesOf(toServer', serverId)
  <2>1. CASE cl.gamestateAck = "acked"
    BY <1>1, <2>1, RepliesCut DEF IInv, MapInv
  <2>2. CASE cl.gamestateAck # "acked"
    <3>1. MapOf(toServer[1]) = serverId
      BY <1>1, <1>3, <2>2
    <3>2. /\ cg.serverId <= serverId
          /\ \A i \in 1 .. Len(toServer) : MapOf(toServer[i]) <= cg.serverId
          /\ \A i, j \in 1 .. Len(toServer) : i < j => MapOf(toServer[i]) <= MapOf(toServer[j])
      BY DEF IInv, MapInv, ReplyMaps
    <3>3. cg.serverId = serverId
      BY <1>1, <1>5, <3>1, <3>2
    <3>4. ASSUME NEW i \in 1 .. Len(toServer') PROVE MapOf(toServer'[i]) = serverId
      <4>1. serverId <= MapOf(toServer[i + 1]) /\ MapOf(toServer[i + 1]) <= serverId
        BY <1>1, <1>6, <3>1, <3>2, <3>3
      <4> QED
        BY <1>5, <1>6, <4>1
    <3> QED
      BY <3>3, <3>4 DEF RepliesOf
  <2> QED
    BY <2>1, <2>2
<1>12. MapInv'
  BY <1>1, <1>2, <1>8, <1>11, RepliesCut DEF IInv, MapInv
<1>13. cl'.deltaMessage = cl.deltaMessage => Reset' = Reset
  BY <1>1 DEF Reset
<1>14. AcknowledgedInv'
  <2>1. RepliesBuilt(toServer', built)
    BY <1>1, RepliesCut DEF IInv, AcknowledgedInv
  <2>2. cl.state = "active" /\ AsksDelta(m) => Built(built, Acks(m)) /\ OfMap(built[Acks(m)], serverId)
    <3>1. AsksDelta(m) => Built(built, Acks(m)) /\ Since(built[Acks(m)], MapOf(m))
      BY <1>1 DEF IInv, AcknowledgedInv, RepliesBuilt
    <3>2. cl.state = "active" => MapOf(m) = serverId
      BY <1>1 DEF IInv, MapInv, RepliesOf
    <3>3. ASSUME NEW n, Built(built, n), Since(built[n], serverId) PROVE OfMap(built[n], serverId)
      <4>1. n \in 1 .. MaxSequence /\ serverId \in Nat /\ built[n].ents \in Seq(EntityState)
        <5>1. n \in 1 .. MaxSequence
          BY <3>3 DEF Built
        <5>2. built \in [1 .. MaxSequence -> Content] /\ serverId \in 1 .. Len(Entities)
          BY Types DEF IInv
        <5>3. built[n] \in Content
          BY <5>1, <5>2
        <5> QED
          BY <5>1, <5>2, <5>3, Numbers DEF Content
      <4>2. ASSUME NEW k \in 1 .. Len(built[n].ents) PROVE built[n].ents[k][1] = serverId
        <5>1. built[n].ents[k] \in EntityState
          BY <4>1
        <5>2. built[n].ents[k][1] \in Nat
          BY <5>1 DEF EntityState
        <5>3. built[n].ents[k][1] <= serverId /\ serverId <= built[n].ents[k][1]
          BY <3>3, <4>1 DEF IInv, BuiltInv, Since
        <5> QED
          BY <4>1, <5>2, <5>3
      <4> QED
        BY <4>2 DEF OfMap
    <3> QED
      BY <3>1, <3>2, <3>3
  <2> QED
    BY <1>1, <1>4, <1>13, <2>1, <2>2 DEF IInv, AcknowledgedInv
<1>15. KeptInv'
  <2> SUFFICES ASSUME ~queued
               PROVE  /\ chan.queue = << >>
                      /\ LineGamestates(Line, cl.gamestateMessageNum)
                      /\ LineKept(Line, cg)
                      /\ cl.gamestateMessageNum <= cg.serverMessageSequence
                      /\ RepliesFrom(toServer', cl.gamestateMessageNum)
                      /\ RepliesKept(toServer', cg, cl.gamestateMessageNum)
                      /\ cl'.state = "active" => Reset' \/ Kept(cg, cl'.deltaMessage)
    BY <1>1, <1>2, <1>8 DEF KeptInv
  <2>1. /\ chan.queue = << >> /\ LineGamestates(Line, cl.gamestateMessageNum) /\ LineKept(Line, cg)
        /\ RepliesKept(toServer, cg, cl.gamestateMessageNum)
        /\ cl.gamestateAck = "acked" =>
              /\ cl.gamestateMessageNum <= cg.serverMessageSequence
              /\ RepliesFrom(toServer, cl.gamestateMessageNum)
        /\ cl.state = "active" => Reset \/ Kept(cg, cl.deltaMessage)
    BY DEF IInv, KeptInv
  <2>2. RepliesKept(toServer', cg, cl.gamestateMessageNum)
    BY <1>1, <2>1, RepliesCut
  <2>3. cl.gamestateMessageNum <= cg.serverMessageSequence /\ RepliesFrom(toServer', cl.gamestateMessageNum)
    <3>1. CASE cl.gamestateAck = "acked"
      BY <1>1, <2>1, <3>1, RepliesCut
    <3>2. CASE cl.gamestateAck # "acked"
      <4>1. cl.gamestateMessageNum <= Acks(toServer[1])
        BY <1>1, <1>3, <3>2
      <4>2. /\ \A i \in 1 .. Len(toServer) : Acks(toServer[i]) <= cg.serverMessageSequence
            /\ \A i, j \in 1 .. Len(toServer) : i < j => Acks(toServer[i]) <= Acks(toServer[j])
        BY DEF IInv, NumberInv, ReplyNumbers
      <4>3. cl.gamestateMessageNum <= cg.serverMessageSequence
        BY <1>1, <1>5, <4>1, <4>2
      <4>4. ASSUME NEW i \in 1 .. Len(toServer') PROVE cl.gamestateMessageNum <= Acks(toServer'[i])
        <5>1. Acks(toServer[1]) <= Acks(toServer[i + 1])
          BY <1>1, <1>6, <4>2
        <5> QED
          BY <1>1, <1>5, <1>6, <4>1, <5>1
      <4> QED
        BY <4>3, <4>4 DEF RepliesFrom
    <3> QED
      BY <3>1, <3>2
  <2>4. cl.state = "active" /\ AsksDelta(m) => Kept(cg, Acks(m))
    <3>1. AsksDelta(m) => Kept(cg, Acks(m)) \/ Acks(m) < cl.gamestateMessageNum
      BY <1>1, <2>1 DEF RepliesKept
    <3>2. cl.state = "active" => cl.gamestateMessageNum <= Acks(m)
      BY <1>1, <2>1 DEF IInv, MapInv, RepliesFrom
    <3>3. Acks(m) \in Nat
      BY <1>1, ReplyParts
    <3> QED
      BY <1>5, <3>1, <3>2, <3>3
  <2> QED
    BY <1>4, <1>13, <2>1, <2>2, <2>3, <2>4
<1> QED
  BY <1>7, <1>9, <1>10, <1>12, <1>14, <1>15 DEF IInv

(***************************************************************************)
(* The check for the acknowledged gamestate changes nothing else.          *)
(***************************************************************************)
LEMMA EarlyCheckParts ==
  ASSUME TypeOK, NEW m \in ReplyType
  PROVE  LET e == EarlyCheck(cl, m)
         IN  /\ e \in SlotType
             /\ e.state = cl.state /\ e.frames = cl.frames
             /\ e.gamestateMessageNum = cl.gamestateMessageNum /\ e.deltaMessage = cl.deltaMessage
             /\ e.gamestateAck # "acked" => e = cl
             /\ cl.gamestateAck = "acked" => e = cl
             /\ e.gamestateAck = "acked" /\ cl.gamestateAck # "acked" =>
                   MapOf(m) = serverId /\ cl.gamestateMessageNum <= Acks(m)
<1>1. cl \in SlotType /\ cl.gamestateMessageNum \in Int /\ Acks(m) \in Nat
  BY Types, ReplyParts DEF SlotType
<1> DEFINE new == [cl EXCEPT !.gamestateAck = "acked"]
<1>2. new \in SlotType /\ new.gamestateAck = "acked" /\ new.state = cl.state /\ new.frames = cl.frames
      /\ new.gamestateMessageNum = cl.gamestateMessageNum /\ new.deltaMessage = cl.deltaMessage
  BY <1>1 DEF SlotType
<1>3. \/ EarlyCheck(cl, m) = cl
      \/ /\ EarlyCheck(cl, m) = new
         /\ cl.gamestateAck # "acked"
         /\ MapOf(m) = serverId
         /\ \/ Acks(m) = cl.gamestateMessageNum
            \/ Acks(m) > cl.gamestateMessageNum
  BY DEF EarlyCheck, MapOf, Acks
<1> HIDE DEF new
<1> QED
  BY <1>1, <1>2, <1>3

(***************************************************************************)
(* SV_UserMove.                                                            *)
(***************************************************************************)
LEMMA MoveParts ==
  ASSUME TypeOK, UNCHANGED chan, NEW e \in SlotType, NEW m \in ReplyType, cl' = SV_UserMove(e, m)
  PROVE  /\ cl' \in SlotType
         /\ cl'.gamestateAck = e.gamestateAck /\ cl'.frames = e.frames
         /\ cl'.gamestateMessageNum = e.gamestateMessageNum
         /\ cl'.state = IF e.state = "primed" THEN "active" ELSE e.state
         /\ Reset' \/ (e.state # "primed" /\ AsksDelta(m) /\ cl'.deltaMessage = Acks(m))
<1>1. chan.outgoingSequence \in Nat /\ PACKET_BACKUP \in Nat /\ Acks(m) \in Nat
  BY Types, Numbers, ReplyParts DEF ChanType
<1> DEFINE old == chan.outgoingSequence - (PACKET_BACKUP + 1)
<1>2. old \in Int /\ chan.outgoingSequence - old > PACKET_BACKUP
  BY <1>1
<1> HIDE DEF old
<1>3. CASE e.state = "primed"
  <2> DEFINE a == [e EXCEPT !.state = "active"]
  <2>1. a \in SlotType /\ a.state = "active" /\ a.gamestateAck = e.gamestateAck /\ a.frames = e.frames
        /\ a.gamestateMessageNum = e.gamestateMessageNum
    BY DEF SlotType
  <2>2. cl' = [a EXCEPT !.deltaMessage = old]
    BY <1>3 DEF SV_UserMove, ForceReset, old
  <2> HIDE DEF a
  <2>3. /\ cl' \in SlotType /\ cl'.state = "active" /\ cl'.gamestateAck = a.gamestateAck
        /\ cl'.frames = a.frames /\ cl'.gamestateMessageNum = a.gamestateMessageNum
        /\ cl'.deltaMessage = old
    BY <1>2, <2>1, <2>2 DEF SlotType
  <2>4. Reset'
    BY <1>2, <2>3 DEF Reset
  <2>5. cl'.state = IF e.state = "primed" THEN "active" ELSE e.state
    BY <1>3, <2>3
  <2>6. Reset' \/ (e.state # "primed" /\ AsksDelta(m) /\ cl'.deltaMessage = Acks(m))
    BY <2>4
  <2> QED
    BY <2>1, <2>3, <2>5, <2>6
<1>4. CASE e.state # "primed" /\ m.move = "delta"
  <2>1. cl' = [e EXCEPT !.deltaMessage = Acks(m)]
    BY <1>4 DEF SV_UserMove, Acks
  <2>2. /\ cl' \in SlotType /\ cl'.state = e.state /\ cl'.gamestateAck = e.gamestateAck
        /\ cl'.frames = e.frames /\ cl'.gamestateMessageNum = e.gamestateMessageNum
        /\ cl'.deltaMessage = Acks(m)
    BY <1>1, <2>1 DEF SlotType
  <2> QED
    BY <1>4, <2>2 DEF AsksDelta
<1>5. CASE e.state # "primed" /\ m.move # "delta"
  <2>1. cl' = [e EXCEPT !.deltaMessage = old]
    BY <1>5 DEF SV_UserMove, ForceReset, old
  <2>2. /\ cl' \in SlotType /\ cl'.state = e.state /\ cl'.gamestateAck = e.gamestateAck
        /\ cl'.frames = e.frames /\ cl'.gamestateMessageNum = e.gamestateMessageNum
        /\ cl'.deltaMessage = old
    BY <1>2, <2>1 DEF SlotType
  <2>3. Reset'
    BY <1>2, <2>2 DEF Reset
  <2>4. Reset' \/ (e.state # "primed" /\ AsksDelta(m) /\ cl'.deltaMessage = Acks(m))
    BY <2>3
  <2> QED
    BY <1>5, <2>2, <2>4
<1> QED
  BY <1>3, <1>4, <1>5

(***************************************************************************)
(* SV_ExecuteClientMessage, whichever way it goes.                         *)
(***************************************************************************)
LEMMA ExecuteKeeps ==
  ASSUME IInv, NEW limited \in BOOLEAN, NEW size \in Sizes, NEW csUpdated \in BOOLEAN,
         SV_ExecuteClientMessage(limited, size, csUpdated)
  PROVE  IInv'
<1> DEFINE m == Head(toServer)
           e == EarlyCheck(cl, m)
<1>1. ReplyRead
  BY DEF SV_ExecuteClientMessage, ReplyRead
<1>2. m \in ReplyType /\ TypeOK
  BY <1>1, ReadParts DEF IInv
<1>3. \/ UNCHANGED <<cl, chan, toClient, queued>>
      \/ cl.state = "connected" /\ SV_SendClientGameState(cl, size, csUpdated)
      \/ e.gamestateAck # "acked" /\ UNCHANGED <<chan, toClient, queued>> /\ cl' = e
      \/ e.gamestateAck # "acked" /\ SV_SendClientGameState(e, size, csUpdated)
      \/ /\ cl.state # "connected" /\ e.gamestateAck = "acked"
         /\ UNCHANGED <<chan, toClient, queued>>
         /\ cl' = e \/ cl' = SV_UserMove(e, m)
  BY DEF SV_ExecuteClientMessage
<1>4. /\ e \in SlotType
      /\ e.state = cl.state /\ e.frames = cl.frames
      /\ e.gamestateMessageNum = cl.gamestateMessageNum /\ e.deltaMessage = cl.deltaMessage
      /\ e.gamestateAck # "acked" => e = cl
      /\ cl.gamestateAck = "acked" => e = cl
      /\ e.gamestateAck = "acked" /\ cl.gamestateAck # "acked" =>
            MapOf(m) = serverId /\ cl.gamestateMessageNum <= Acks(m)
  BY <1>2, EarlyCheckParts
<1> HIDE DEF e, m
<1>5. CASE UNCHANGED <<cl, chan, toClient, queued>>
  <2>1. LoseToServer
    BY <1>1, <1>5 DEF ReplyRead, LoseToServer
  <2> QED
    BY <2>1, LoseToServerKeeps
<1>6. CASE cl.state = "connected" /\ SV_SendClientGameState(cl, size, csUpdated)
  <2>1. cl.gamestateAck # "acked"
    BY <1>6 DEF IInv, MapInv
  <2> QED
    BY <1>1, <1>6, <2>1, SendGamestateKeeps
<1>7. CASE e.gamestateAck # "acked" /\ UNCHANGED <<chan, toClient, queued>> /\ cl' = e
  BY <1>4, <1>5, <1>7
<1>8. CASE e.gamestateAck # "acked" /\ SV_SendClientGameState(e, size, csUpdated)
  <2>1. e = cl
    BY <1>4, <1>8
  <2>2. cl.gamestateAck # "acked" /\ SV_SendClientGameState(cl, size, csUpdated)
    BY <1>8, <2>1
  <2> QED
    BY <1>1, <2>2, SendGamestateKeeps
<1>9. CASE /\ cl.state # "connected" /\ e.gamestateAck = "acked"
           /\ UNCHANGED <<chan, toClient, queued>>
           /\ cl' = e \/ cl' = SV_UserMove(e, m)
  <2>1. /\ cl' \in SlotType /\ cl'.gamestateAck = "acked" /\ cl'.state # "connected"
        /\ cl'.frames = cl.frames /\ cl'.gamestateMessageNum = cl.gamestateMessageNum
        /\ cl'.state = "active" =>
              \/ Reset'
              \/ cl.state = "active" /\ cl'.deltaMessage = cl.deltaMessage
              \/ cl.state = "active" /\ AsksDelta(m) /\ cl'.deltaMessage = Acks(m)
    <3>1. CASE cl' = e
      BY <1>4, <1>9, <3>1
    <3>2. CASE cl' = SV_UserMove(e, m)
      <4>1. /\ cl' \in SlotType
            /\ cl'.gamestateAck = e.gamestateAck /\ cl'.frames = e.frames
            /\ cl'.gamestateMessageNum = e.gamestateMessageNum
            /\ cl'.state = IF e.state = "primed" THEN "active" ELSE e.state
            /\ Reset' \/ (e.state # "primed" /\ AsksDelta(m) /\ cl'.deltaMessage = Acks(m))
        BY <1>2, <1>4, <1>9, <3>2, MoveParts
      <4> QED
        BY <1>4, <1>9, <4>1
    <3> QED
      BY <1>9, <3>1, <3>2
  <2>2. Moved(m)
    BY <1>4, <1>9, <2>1 DEF Moved
  <2> QED
    BY <1>1, <2>2, MovedKeeps DEF m
<1> QED
  BY <1>3, <1>5, <1>6, <1>7, <1>8, <1>9

-----------------------------------------------------------------------------
(***************************************************************************)
(* A snapshot is built and sent.  What a frame of this map points to is    *)
(* what was built, as long as its common snapshot is valid.                *)
(***************************************************************************)
LEMMA ContentBuilt ==
  ASSUME NEW s, NEW map, StorageInv(s, map),
         NEW frame \in FrameType, NEW b \in [1 .. MaxSequence -> Content],
         FrameInv(frame, b, s, map), OfMap(b[frame.ps], map), frame.frameNum >= s.lastValidFrame
  PROVE  ContentOf(s, frame) = b[frame.ps]
<1> DEFINE content == b[frame.ps]
           seen == [i \in 1 .. Len(frame.ents) |-> s.snapshotEntities[frame.ents[i]]]
<1>1. /\ Built(b, frame.ps) /\ Len(frame.ents) = Len(content.ents)
      /\ frame.ents = << >> \/ PointsTo(frame, content, s, map)
  BY DEF FrameInv
<1>2. content \in Content /\ content.ps = frame.ps
  BY <1>1 DEF Built
<1> HIDE DEF content
<1>3. content.ents \in Seq(EntityState) /\ content = [ps |-> frame.ps, ents |-> content.ents]
  BY <1>2 DEF Content
<1>4. frame.ents \in Seq(0 .. numSnapshotEntities - 1) /\ frame.frameNum \in Nat
  BY DEF FrameType
<1>5. ASSUME NEW k \in 1 .. Len(frame.ents)
      PROVE  s.snapshotEntities[frame.ents[k]] = content.ents[k]
  <2>1. PointsTo(frame, content, s, map)
    BY <1>1, <1>4
  <2>2. /\ frame.frameNum < s.snapshotFrame
        /\ CountOf(s, frame.frameNum) = Len(frame.ents)
        /\ frame.ents[k] = Place(StartOf(s, frame.frameNum) + k - 1)
        /\ content.ents[k] = <<map, frame.frameNum, k>>
    BY <2>1 DEF PointsTo
  <2>3. frame.frameNum \in ValidFrames(s)
    <3>1. s.lastValidFrame \in Nat /\ s.snapshotFrame \in Nat
      BY StorageParts DEF StorageInv
    <3> QED
      BY <1>4, <2>2, <3>1 DEF ValidFrames
  <2>4. FrameIntact(s, frame.frameNum, map)
    BY <2>3 DEF StorageInv
  <2>5. s.snapshotEntities[Place(StartOf(s, frame.frameNum) + k - 1)] = <<map, frame.frameNum, k>>
    BY <2>2, <2>4 DEF FrameIntact, CountOf, StartOf
  <2> QED
    BY <2>2, <2>5
<1>6. seen = content.ents
  <2>1. content.ents = [i \in 1 .. Len(frame.ents) |-> content.ents[i]]
    BY <1>1, <1>3
  <2> QED
    BY <1>5, <2>1
<1> QED
  BY <1>3, <1>6 DEF ContentOf, content

(***************************************************************************)
(* The frame built from the newest common snapshot, and what it points to. *)
(***************************************************************************)
NewFrame(frame, content, s, map, n) ==
    /\ frame \in FrameType /\ frame.ps = n
    /\ content \in Content /\ content.ps = n
    /\ Len(content.ents) <= MAX_GENTITIES /\ Len(frame.ents) = Len(content.ents)
    /\ OfMap(content, map) /\ PointsTo(frame, content, s, map)

(***************************************************************************)
(* It is one, when a common snapshot has just been added.                  *)
(***************************************************************************)
LEMMA FullFrame ==
  ASSUME NEW s, NEW t, NEW map \in Nat, NEW count \in 0 .. MAX_GENTITIES,
         s \in StorageType, StorageInv(t, map), Adds(s, t, count), NEW n \in Nat, NEW frame,
         frame = [frameNum |-> t.snapshotFrame - 1, ps |-> n, ents |-> NewestEntities(t)]
  PROVE  NewFrame(frame, ContentOf(t, frame), t, map, n)
<1> DEFINE f == t.snapshotFrame - 1
           ents == NewestEntities(t)
           content == ContentOf(t, frame)
<1>1. /\ t.snapshotFrame \in Nat /\ t.lastValidFrame \in Nat /\ s.snapshotFrame \in Nat
      /\ t.snapshotFrame = s.snapshotFrame + 1 /\ t.lastValidFrame <= s.snapshotFrame
      /\ CountOf(t, s.snapshotFrame) = count
  <2>1. s.snapshotFrame \in Nat /\ s.lastValidFrame \in Nat
    BY DEF StorageType
  <2>2. t.lastValidFrame \in s.lastValidFrame .. s.snapshotFrame
    BY DEF Adds
  <2> QED
    BY <2>1, <2>2, StorageParts DEF StorageInv, Adds
<1>2. f = s.snapshotFrame /\ f \in Nat /\ f \in ValidFrames(t) /\ f < t.snapshotFrame
  BY <1>1 DEF ValidFrames
<1>3. CountOf(t, f) = count /\ FrameIntact(t, f, map) /\ count \in Nat /\ count <= MAX_GENTITIES
  BY <1>1, <1>2, StorageSizes DEF StorageInv
<1>4. StartOf(t, f) \in Nat
  <2>1. FrameSlot(f) \in 0 .. NUM_SNAPSHOT_FRAMES - 1
    BY <1>2, FrameSlotType
  <2>2. t.snapFrames \in [0 .. NUM_SNAPSHOT_FRAMES - 1 -> [start : Nat, count : 0 .. MAX_GENTITIES]]
    BY DEF StorageInv, StorageShape, StorageType
  <2> QED
    BY <2>1, <2>2 DEF StartOf
<1>5. ents = [i \in 1 .. count |-> Place(StartOf(t, f) + i - 1)]
  BY <1>3 DEF NewestEntities, CountOf, StartOf
<1>6. /\ frame.frameNum = f /\ frame.ps = n /\ frame.ents = ents
      /\ frame = [frameNum |-> f, ps |-> n, ents |-> ents]
  OBVIOUS
<1> HIDE DEF f, ents
<1>7. \A i \in 1 .. count : Place(StartOf(t, f) + i - 1) \in 0 .. numSnapshotEntities - 1
  BY <1>3, <1>4, PlaceType
<1>8. ents \in Seq(0 .. numSnapshotEntities - 1) /\ Len(ents) = count
  BY <1>3, <1>5, <1>7
<1>9. frame \in FrameType
  BY <1>2, <1>6, <1>8 DEF FrameType
<1>10. ASSUME NEW k \in 1 .. count
       PROVE  ents[k] = Place(StartOf(t, f) + k - 1) /\ t.snapshotEntities[ents[k]] = <<map, f, k>>
  <2>1. ents[k] = Place(StartOf(t, f) + k - 1)
    BY <1>5
  <2>2. t.snapshotEntities[Place(StartOf(t, f) + k - 1)] = <<map, f, k>>
    BY <1>3 DEF FrameIntact, CountOf, StartOf
  <2> QED
    BY <2>1, <2>2
<1> DEFINE seen == [i \in 1 .. count |-> t.snapshotEntities[ents[i]]]
<1>11. content = [ps |-> n, ents |-> seen]
  BY <1>6, <1>8 DEF ContentOf
<1>12. /\ seen \in Seq(EntityState) /\ Len(seen) = count
       /\ \A k \in 1 .. count : seen[k] = <<map, f, k>>
  <2>1. \A k \in 1 .. count : <<map, f, k>> \in EntityState
    BY <1>2, <1>3 DEF EntityState
  <2>2. \A k \in 1 .. count : seen[k] = <<map, f, k>>
    BY <1>10
  <2>3. \A k \in 1 .. count : seen[k] \in EntityState
    BY <2>1, <2>2
  <2>4. seen = [k \in 1 .. count |-> seen[k]]
    OBVIOUS
  <2> HIDE DEF seen
  <2>5. seen \in Seq(EntityState) /\ Len(seen) = count
    BY <1>3, <2>3, <2>4
  <2> QED
    BY <2>2, <2>5
<1> HIDE DEF seen, content
<1>13. /\ content \in Content /\ content.ps = n /\ content.ents = seen
       /\ Len(content.ents) = count
  BY <1>11, <1>12 DEF Content
<1>14. OfMap(content, map)
  BY <1>12, <1>13 DEF OfMap
<1>15. PointsTo(frame, content, t, map)
  BY <1>2, <1>3, <1>6, <1>8, <1>10, <1>12, <1>13 DEF PointsTo
<1> QED
  BY <1>3, <1>6, <1>8, <1>9, <1>13, <1>14, <1>15 DEF NewFrame, content

(***************************************************************************)
(* A history with one more snapshot built.                                 *)
(***************************************************************************)
More(b, d) == \A n : Built(b, n) => Built(d, n) /\ d[n] = b[n]

(***************************************************************************)
(* What was built stays so.                                                *)
(***************************************************************************)
LEMMA MoreBuilt ==
  ASSUME NEW b, NEW d, More(b, d)
  PROVE  /\ \A frame, s, map : FrameInv(frame, b, s, map) => FrameInv(frame, d, s, map)
         /\ \A replies : RepliesBuilt(replies, b) => RepliesBuilt(replies, d)
         /\ \A line, map : LineSnapshots(line, map, b) => LineSnapshots(line, map, d)
         /\ \A snap, i, c : SnapInv(snap, i, c, b) => SnapInv(snap, i, c, d)
<1>1. \A frame, s, map : FrameInv(frame, b, s, map) => FrameInv(frame, d, s, map)
  BY DEF More, FrameInv
<1>2. \A replies : RepliesBuilt(replies, b) => RepliesBuilt(replies, d)
  BY DEF More, RepliesBuilt
<1>3. \A line, map : LineSnapshots(line, map, b) => LineSnapshots(line, map, d)
  <2>1. \A m : Carries(m, b) => Carries(m, d)
    BY DEF More, Carries
  <2> QED
    BY <2>1 DEF LineSnapshots
<1>4. \A snap, i, c : SnapInv(snap, i, c, b) => SnapInv(snap, i, c, d)
  BY DEF More, SnapInv
<1> QED
  BY <1>1, <1>2, <1>3, <1>4

(***************************************************************************)
(* The storage and the frame that a client's snapshot is taken from.       *)
(***************************************************************************)
LEMMA StorageForClient ==
  ASSUME IInv, NEW size \in Sizes, SV_SendClientSnapshot(size)
  PROVE  /\ StorageInv(svs', serverId)
         /\ \A i \in 0 .. PACKET_BACKUP - 1 :
               cl.frames[i].ps # 0 => FrameInv(cl.frames[i], built, svs', serverId)
         /\ \E frame :
               /\ cl' = [cl EXCEPT !.frames[Slot(chan.outgoingSequence)] = frame]
               /\ NewFrame(frame, ContentOf(svs', frame), svs', serverId, chan.outgoingSequence)
<1>1. /\ cl \in SlotType /\ svs \in StorageType /\ serverId \in Nat /\ chan.outgoingSequence \in Nat
  BY Types DEF IInv, ChanType
<1>2. \A i \in 0 .. PACKET_BACKUP - 1 :
         /\ cl.frames[i] \in FrameType
         /\ cl.frames[i].ps # 0 => FrameInv(cl.frames[i], built, svs, serverId)
  BY <1>1 DEF IInv, FramesInv, SlotType
<1>3. svs' = CommonSnapshot /\ cl' = SV_BuildClientSnapshot(svs') /\ svs.snapshotFrame < Len(Entities[serverId])
  BY DEF SV_SendClientSnapshot
<1>4. PICK count \in 0 .. MAX_GENTITIES : StorageInv(svs', serverId) /\ Adds(svs, svs', count)
  BY <1>3, CommonParts
<1>5. svs' \in StorageType
  BY <1>4 DEF StorageInv, StorageShape
<1>6. \A i \in 0 .. PACKET_BACKUP - 1 :
         cl.frames[i].ps # 0 => FrameInv(cl.frames[i], built, svs', serverId)
  BY <1>1, <1>2, <1>4, <1>5, PointersKept
<1> DEFINE frame == [frameNum |-> svs'.snapshotFrame - 1, ps |-> chan.outgoingSequence,
                     ents |-> NewestEntities(svs')]
<1>7. cl' = [cl EXCEPT !.frames[Slot(chan.outgoingSequence)] = frame]
  BY <1>3 DEF SV_BuildClientSnapshot
<1>8. NewFrame(frame, ContentOf(svs', frame), svs', serverId, chan.outgoingSequence)
  BY <1>1, <1>4, FullFrame
<1> HIDE DEF frame
<1> QED
  BY <1>4, <1>6, <1>7, <1>8

(***************************************************************************)
(* What is built for a message, and the message itself.                    *)
(***************************************************************************)
Sent(m, content) ==
    /\ m \in ServerMessage /\ Snapshot(m)
    /\ m.new = content
    /\ Delta(m) =>
          /\ cl.state = "active" /\ ~Reset
          /\ Built(built, cl.deltaMessage)
          /\ cl.deltaMessage = chan.outgoingSequence - m.lastframe
          /\ m.base = built[cl.deltaMessage]
          /\ m.lastframe < PACKET_BACKUP - 3
    /\ ~Delta(m) => m.base.ents = << >>

(***************************************************************************)
(* SV_WriteSnapshotToClient sends what was built.                          *)
(***************************************************************************)
LEMMA MessageSent ==
  ASSUME IInv, NEW size \in Sizes, ~Busy,
         NEW s, StorageInv(s, serverId),
         \A i \in 0 .. PACKET_BACKUP - 1 :
            cl.frames[i].ps # 0 => FrameInv(cl.frames[i], built, s, serverId),
         NEW frame, NewFrame(frame, ContentOf(s, frame), s, serverId, chan.outgoingSequence),
         NEW c \in SlotType, c = [cl EXCEPT !.frames[Slot(chan.outgoingSequence)] = frame]
  PROVE  Sent(SnapshotMessage(s, c, size), ContentOf(s, frame))
<1> DEFINE n == chan.outgoingSequence
           d == cl.deltaMessage
           new == ContentOf(s, frame)
           back == LastFrame(s, c)
           base == IF back = 0 THEN NoContent ELSE ContentOf(s, c.frames[Slot(d)])
<1>1. /\ n \in Nat /\ d \in Int /\ cl \in SlotType /\ serverId \in Nat
      /\ built \in [1 .. MaxSequence -> Content]
      /\ Slot(n) \in 0 .. PACKET_BACKUP - 1 /\ Slot(d) \in 0 .. PACKET_BACKUP - 1
      /\ PACKET_BACKUP \in Nat
  <2>1. /\ n \in Nat /\ d \in Int /\ cl \in SlotType /\ serverId \in Nat
        /\ built \in [1 .. MaxSequence -> Content]
    BY Types DEF IInv, ChanType, SlotType
  <2>2. n \in Int
    BY <2>1
  <2> HIDE DEF n, d
  <2> QED
    BY <2>1, <2>2, SlotIn, Numbers
<1>2. /\ c.state = cl.state /\ c.deltaMessage = d
      /\ c.frames[Slot(n)] = frame
      /\ Slot(d) # Slot(n) => c.frames[Slot(d)] = cl.frames[Slot(d)]
  <2>1. cl.frames \in [0 .. PACKET_BACKUP - 1 -> FrameType]
    BY <1>1 DEF SlotType
  <2>2. cl.frames = [i \in 0 .. PACKET_BACKUP - 1 |-> cl.frames[i]]
    BY <2>1
  <2> QED
    BY <1>1, <2>1, <2>2 DEF SlotType
<1>3. new \in Content
  BY DEF NewFrame
<1>4. n = NextNumber
  BY DEF Busy, NextNumber
<1>5. back # 0 =>
         /\ cl.state = "active" /\ back = n - d /\ n - d < PACKET_BACKUP - 3
         /\ c.frames[Slot(d)].frameNum >= s.lastValidFrame
  BY <1>2 DEF LastFrame
<1>6. ASSUME back # 0
      PROVE  /\ cl.state = "active" /\ ~Reset /\ Built(built, d) /\ back = n - d /\ d < n
             /\ back < PACKET_BACKUP - 3
             /\ ContentOf(s, c.frames[Slot(d)]) = built[d]
  <2>1. /\ cl.state = "active" /\ back = n - d /\ n - d < PACKET_BACKUP - 3
        /\ c.frames[Slot(d)].frameNum >= s.lastValidFrame
    BY <1>5, <1>6
  <2>2. ~Reset
    BY <1>1, <2>1 DEF Reset
  <2>3. Built(built, d) /\ OfMap(built[d], serverId)
    BY <2>1, <2>2 DEF IInv, AcknowledgedInv
  <2>4. d < n
    BY <1>4, <2>3 DEF IInv, BuiltInv, Built
  <2>5. Slot(d) # Slot(n)
    <3>1. n - d < PACKET_BACKUP
      BY <1>1, <2>1
    <3> QED
      BY <1>1, <2>4, <3>1, SlotsOfSnapshotsDiffer
  <2>6. cl.frames[Slot(d)].ps = d /\ d # 0
    <3>1. NextNumber - d <= PACKET_BACKUP /\ d \in 1 .. MaxSequence
      BY <1>1, <1>4, <2>1, <2>3 DEF Built
    <3> QED
      BY <2>3, <3>1 DEF IInv, FramesInv
  <2>7. FrameInv(cl.frames[Slot(d)], built, s, serverId) /\ cl.frames[Slot(d)] \in FrameType
    BY <1>1, <2>6 DEF SlotType
  <2>8. ContentOf(s, cl.frames[Slot(d)]) = built[d]
    <3>1. cl.frames[Slot(d)].frameNum >= s.lastValidFrame
      BY <1>2, <2>1, <2>5
    <3> QED
      BY <1>1, <2>3, <2>6, <2>7, <3>1, ContentBuilt
  <2> QED
    BY <1>2, <2>1, <2>2, <2>3, <2>4, <2>5, <2>8
<1>7. SnapshotMessage(s, c, size)
        = [kind |-> "snapshot", size |-> size, sequence |-> 0, lastframe |-> back, new |-> new,
           base |-> base]
  BY <1>2 DEF SnapshotMessage
<1>8. back \in Nat /\ base \in Content
  <2>1. CASE back = 0
    <3>1. NoContent \in Content
      BY DEF NoContent, Content
    <3> QED
      BY <2>1, <3>1
  <2>2. CASE back # 0
    <3>1. Built(built, d) /\ back = n - d /\ d < n /\ ContentOf(s, c.frames[Slot(d)]) = built[d]
      BY <1>6, <2>2
    <3>2. built[d] \in Content
      BY <1>1, <3>1 DEF Built
    <3>3. n - d \in Nat
      BY <1>1, <3>1
    <3> HIDE DEF back
    <3> QED
      BY <2>2, <3>1, <3>2, <3>3
  <2> QED
    BY <2>1, <2>2
<1>9. back # 0 => base = built[d] /\ d = n - back
  <2> SUFFICES ASSUME back # 0 PROVE base = built[d] /\ d = n - back
    OBVIOUS
  <2>1. back = n - d /\ ContentOf(s, c.frames[Slot(d)]) = built[d]
    BY <1>6
  <2>2. n - (n - d) = d
    BY <1>1
  <2> HIDE DEF back
  <2> QED
    BY <2>1, <2>2
<1>10. back = 0 => base.ents = << >>
  BY DEF NoContent
<1> HIDE DEF back, base, new, n, d
<1> DEFINE m == SnapshotMessage(s, c, size)
<1>11. /\ m \in ServerMessage /\ Snapshot(m) /\ m.new = new /\ m.lastframe = back /\ m.base = base
  BY <1>3, <1>7, <1>8 DEF ServerMessage, Snapshot
<1> HIDE DEF m
<1> QED
  BY <1>6, <1>9, <1>10, <1>11 DEF Sent, Delta, m, n, d, new

(***************************************************************************)
(* SV_SendClientSnapshot.                                                  *)
(***************************************************************************)
LEMMA SendSnapshotKeeps ==
  ASSUME IInv, NEW size \in Sizes, SV_SendClientSnapshot(size)
  PROVE  IInv'
<1> DEFINE n == chan.outgoingSequence
<1>1. /\ n \in Nat /\ cl \in SlotType /\ serverId \in 1 .. Len(Entities) /\ serverId \in Nat
      /\ built \in [1 .. MaxSequence -> Content] /\ cl.gamestateMessageNum \in Int
      /\ cg.serverMessageSequence \in Nat /\ cg.serverId \in Nat
      /\ svs \in StorageType /\ PACKET_BACKUP \in Nat
  <2>1. /\ serverId \in 1 .. Len(Entities) /\ cl \in SlotType /\ chan \in ChanType
        /\ cg \in ClientType /\ svs \in StorageType
        /\ built \in [1 .. MaxSequence -> Content]
    BY Types DEF IInv
  <2>2. PACKET_BACKUP \in Nat /\ serverId \in Nat
    BY <2>1, Numbers
  <2>3. /\ chan.outgoingSequence \in Nat /\ cl.gamestateMessageNum \in Int
        /\ cg.serverMessageSequence \in Nat /\ cg.serverId \in Nat
    BY <2>1 DEF ChanType, SlotType, ClientType
  <2> QED
    BY <2>1, <2>2, <2>3
<1>2. /\ UNCHANGED <<serverId, toServer, cg, queued>> /\ ~Busy
      /\ cl' = SV_BuildClientSnapshot(svs')
      /\ SV_Netchan_Transmit(SnapshotMessage(svs', cl', size))
      /\ built' = [built EXCEPT ![n] = ContentOf(svs', cl'.frames[Slot(n)])]
  BY DEF SV_SendClientSnapshot, SnapshotDue
<1>3. /\ StorageInv(svs', serverId)
      /\ \A i \in 0 .. PACKET_BACKUP - 1 :
            cl.frames[i].ps # 0 => FrameInv(cl.frames[i], built, svs', serverId)
  BY StorageForClient
<1>4. PICK frame :
         /\ cl' = [cl EXCEPT !.frames[Slot(n)] = frame]
         /\ NewFrame(frame, ContentOf(svs', frame), svs', serverId, n)
  BY StorageForClient
<1> DEFINE new == ContentOf(svs', frame)
           m == SnapshotMessage(svs', cl', size)
<1>5. /\ frame \in FrameType /\ frame.ps = n /\ new \in Content /\ new.ps = n
      /\ Len(new.ents) <= MAX_GENTITIES /\ Len(frame.ents) = Len(new.ents)
      /\ OfMap(new, serverId) /\ PointsTo(frame, new, svs', serverId)
  BY <1>4 DEF NewFrame
<1>6. Slot(n) \in 0 .. PACKET_BACKUP - 1
  <2>1. n \in Int
    BY <1>1
  <2> HIDE DEF n
  <2> QED
    BY <2>1, SlotIn
<1>7. /\ cl' \in SlotType
      /\ cl'.state = cl.state /\ cl'.gamestateAck = cl.gamestateAck
      /\ cl'.gamestateMessageNum = cl.gamestateMessageNum /\ cl'.deltaMessage = cl.deltaMessage
      /\ cl'.frames[Slot(n)] = frame
      /\ \A i \in 0 .. PACKET_BACKUP - 1 : i # Slot(n) => cl'.frames[i] = cl.frames[i]
  <2> DEFINE slot == Slot(n)
             frames == [cl.frames EXCEPT ![slot] = frame]
  <2>1. cl' = [cl EXCEPT !.frames = frames]
    BY <1>4
  <2>2. cl.frames \in [0 .. PACKET_BACKUP - 1 -> FrameType] /\ slot \in 0 .. PACKET_BACKUP - 1
    BY <1>1, <1>6 DEF SlotType
  <2> HIDE DEF slot
  <2>3. /\ frames \in [0 .. PACKET_BACKUP - 1 -> FrameType] /\ frames[slot] = frame
        /\ \A i \in 0 .. PACKET_BACKUP - 1 : i # slot => frames[i] = cl.frames[i]
    BY <1>5, <2>2
  <2> HIDE DEF frames
  <2>4. /\ cl' \in SlotType /\ cl'.frames = frames
        /\ cl'.state = cl.state /\ cl'.gamestateAck = cl.gamestateAck
        /\ cl'.gamestateMessageNum = cl.gamestateMessageNum /\ cl'.deltaMessage = cl.deltaMessage
    BY <1>1, <2>1, <2>3 DEF SlotType
  <2> QED
    BY <2>3, <2>4 DEF slot
<1>8. Sent(m, new)
  BY <1>2, <1>3, <1>4, <1>7, MessageSent
<1> HIDE DEF m, new
<1>9. m \in ServerMessage /\ Snapshot(m) /\ m.new = new
  BY <1>8 DEF Sent
<1>10. /\ ChannelKept /\ n < MaxSequence
       /\ Begun(m) /\ chan'.queue = << >> /\ chan.queue = << >>
  BY <1>2, <1>9, TransmitEffect DEF IInv, NumberInv, m
<1>11. /\ chan'.outgoingSequence \in Nat /\ n <= chan'.outgoingSequence
       /\ NextNumber = n /\ NextNumber' = n + 1 /\ NextNumber \in Nat
       /\ Line \in Seq(ServerMessage)
  BY <1>9, <1>10, ChannelNumbers, LineParts DEF IInv, Begun
<1>12. PICK e \in ServerMessage : Grown(Line, Line', e) /\ NumberOf(e) = NextNumber /\ Alike(e, m)
  BY <1>9, <1>10, LineBegun DEF IInv
<1>13. n \in 1 .. MaxSequence
  BY <1>1, <1>10, Numbers DEF IInv, NumberInv
<1>14. /\ built' \in [1 .. MaxSequence -> Content] /\ built'[n] = new
       /\ \A k \in 1 .. MaxSequence : k # n => built'[k] = built[k]
  <2>1. built' = [built EXCEPT ![n] = new]
    BY <1>2, <1>7 DEF new
  <2> HIDE DEF n
  <2> QED
    BY <1>1, <1>5, <1>13, <2>1
<1>15. More(built, built') /\ Built(built', n) /\ \A k : Built(built, k) => k < n
  <2>1. \A k : Built(built, k) => k < n
    BY <1>11 DEF IInv, BuiltInv, Built
  <2>2. ~Built(built, n)
    BY <1>1, <2>1
  <2>3. More(built, built')
    BY <1>14, <2>2 DEF More, Built
  <2>4. Built(built', n)
    BY <1>5, <1>13, <1>14 DEF Built
  <2> QED
    BY <2>1, <2>3, <2>4
<1> HIDE DEF n
<1>16. TypeOK'
  BY <1>2, <1>3, <1>7, <1>10, <1>14, Types
     DEF IInv, TypeOK, StorageInv, StorageShape, StorageType, ChannelKept, ChanType, SlotType,
         FrameType
<1>17. StorageInv(svs, serverId)'
  BY <1>2, <1>3
<1>18. NumberInv'
  <2>1. LineNumbers(Line', cg.serverMessageSequence, NextNumber')
    <3>1. cg.serverMessageSequence \in Int /\ NextNumber \in Int
          /\ cg.serverMessageSequence < NextNumber
      BY <1>1, <1>11 DEF IInv, NumberInv, n
    <3>2. NextNumber' = NextNumber + 1
      BY <1>11
    <3> QED
      BY <1>11, <1>12, <3>1, <3>2, LineGrown DEF IInv, NumberInv
  <2>2. /\ cg.serverMessageSequence < chan'.outgoingSequence
        /\ cl.gamestateMessageNum <= chan'.outgoingSequence
    BY <1>1, <1>11 DEF IInv, NumberInv, n
  <2>3. SendingNumbered' /\ \A i \in 1 .. Len(chan'.queue) : Gamestate(chan'.queue[i])
    BY <1>10 DEF ChannelKept
  <2> QED
    BY <1>2, <1>7, <2>1, <2>2, <2>3 DEF IInv, NumberInv
<1>19. Snapshot(e) /\ New(e) = new /\ e.base = m.base /\ e.lastframe = m.lastframe
  BY <1>9, <1>12 DEF Alike, New
<1>20. MapInv'
  <2>1. LineMaps(Line', << >>, cg.serverId, serverId)
    BY <1>10, <1>11, <1>12, <1>19, LineGrown DEF IInv, MapInv
  <2> QED
    BY <1>2, <1>7, <1>10, <2>1 DEF IInv, MapInv
<1>21. BuiltInv'
  <2>1. ASSUME NEW k \in 1 .. MaxSequence
        PROVE  /\ built'[k].ps \in {0, k}
               /\ built'[k].ps = k => k < NextNumber'
               /\ Len(built'[k].ents) <= MAX_GENTITIES
               /\ \A j \in 1 .. Len(built'[k].ents) : built'[k].ents[j][1] <= serverId
    <3>1. CASE k = n
      <4>1. \A j \in 1 .. Len(new.ents) : new.ents[j][1] <= serverId
        BY <1>1, <1>5 DEF OfMap
      <4>2. n < n + 1
        BY <1>13, Numbers
      <4> QED
        BY <1>5, <1>11, <1>14, <3>1, <4>1, <4>2
    <3>2. CASE k # n
      <4>1. built'[k] = built[k]
        BY <1>14, <3>2
      <4>2. k < NextNumber => k < NextNumber'
        BY <1>11, Numbers
      <4> QED
        BY <4>1, <4>2 DEF IInv, BuiltInv
    <3> QED
      BY <3>1, <3>2
  <2> QED
    BY <1>2, <2>1 DEF BuiltInv
<1>22. FramesInv'
  <2>1. ASSUME NEW i \in 0 .. PACKET_BACKUP - 1, cl'.frames[i].ps # 0
        PROVE  FrameInv(cl'.frames[i], built', svs', serverId)
    <3>1. CASE i = Slot(n)
      BY <1>5, <1>7, <1>14, <1>15, <3>1 DEF FrameInv
    <3>2. CASE i # Slot(n)
      BY <1>3, <1>7, <1>15, <2>1, <3>2, MoreBuilt
    <3> QED
      BY <3>1, <3>2
  <2>2. ASSUME NEW k \in 1 .. MaxSequence, Built(built', k), NextNumber' - k <= PACKET_BACKUP
        PROVE  cl'.frames[Slot(k)].ps = k
    <3>1. CASE k = n
      BY <1>5, <1>7, <3>1
    <3>2. CASE k # n
      <4>1. Built(built, k)
        BY <1>14, <2>2, <3>2 DEF Built
      <4>2. k < n /\ k \in Int /\ n \in Int
        BY <1>13, <1>15, <4>1, Numbers
      <4>3. n + 1 - k <= PACKET_BACKUP
        BY <1>11, <2>2
      <4>4. NextNumber - k <= PACKET_BACKUP /\ n - k < PACKET_BACKUP
        BY <1>1, <1>11, <4>2, <4>3
      <4>5. cl.frames[Slot(k)].ps = k
        BY <4>1, <4>4 DEF IInv, FramesInv
      <4>6. Slot(k) # Slot(n) /\ Slot(k) \in 0 .. PACKET_BACKUP - 1
        BY <4>2, <4>4, SlotsOfSnapshotsDiffer, SlotIn
      <4> QED
        BY <1>7, <4>5, <4>6
    <3> QED
      BY <3>1, <3>2
  <2> QED
    BY <1>2, <2>1, <2>2 DEF FramesInv
<1>23. Reset => Reset'
  BY <1>7, <1>11, ResetKept DEF IInv, n
<1>24. AcknowledgedInv'
  <2>1. RepliesBuilt(toServer, built')
    BY <1>15, MoreBuilt DEF IInv, AcknowledgedInv
  <2> QED
    BY <1>2, <1>7, <1>15, <1>23, <2>1 DEF IInv, AcknowledgedInv, More
<1>25. SnapshotsInv'
  <2>1. Carries(e, built')
    <3>1. Built(built', NumberOf(e)) /\ e.new = built'[NumberOf(e)]
      BY <1>11, <1>12, <1>14, <1>15, <1>19 DEF New
    <3>2. Delta(e) => OldNumber(e) = cl.deltaMessage
      BY <1>8, <1>11, <1>12, <1>19 DEF Sent, Delta, OldNumber, NumberOf, n
    <3>3. Delta(e) => /\ Built(built, cl.deltaMessage) /\ e.base = built[cl.deltaMessage]
                      /\ e.lastframe < PACKET_BACKUP - 3
      BY <1>8, <1>19 DEF Sent, Delta
    <3>4. ~Delta(e) => e.base.ents = << >>
      BY <1>8, <1>19 DEF Sent, Delta
    <3> QED
      BY <1>15, <3>1, <3>2, <3>3, <3>4 DEF Carries, More
  <2>2. Since(New(e), cg.serverId) /\ NewFits(e, Line)
    <3>1. cg.serverId <= serverId
          /\ \A i \in 1 .. Len(Line) : Gamestate(Line[i]) => MapOf(Line[i]) <= serverId
      BY DEF IInv, MapInv, LineMaps
    <3>2. \A map : map <= serverId => Since(new, map)
      BY <1>5 DEF OfMap, Since
    <3> QED
      BY <1>19, <3>1, <3>2 DEF NewFits
  <2>3. LineSnapshots(Line, cg.serverId, built')
    BY <1>15, MoreBuilt DEF IInv, SnapshotsInv
  <2>4. LineSnapshots(Line', cg.serverId, built')
    BY <1>11, <1>12, <2>1, <2>2, <2>3, SnapshotsGrown
  <2> QED
    BY <1>2, <2>4 DEF SnapshotsInv
<1>26. ClientInv'
  <2>1. \A i \in 0 .. PACKET_BACKUP - 1 :
           cg.snapshots[i].valid => SnapInv(cg.snapshots[i], i, cg, built')
    BY <1>15, MoreBuilt DEF IInv, ClientInv
  <2> QED
    BY <1>2, <2>1 DEF IInv, ClientInv
<1>27. KeptInv'
  <2> SUFFICES ASSUME ~queued
               PROVE  /\ LineGamestates(Line', cl.gamestateMessageNum)
                      /\ LineKept(Line', cg)
                      /\ cl.state = "active" => Reset' \/ Kept(cg, cl.deltaMessage)
    BY <1>2, <1>7, <1>10 DEF IInv, KeptInv
  <2>1. /\ LineGamestates(Line, cl.gamestateMessageNum) /\ LineKept(Line, cg)
        /\ cl.state = "active" => Reset \/ Kept(cg, cl.deltaMessage)
    BY DEF IInv, KeptInv
  <2>2. LineGamestates(Line', cl.gamestateMessageNum)
    BY <1>11, <1>12, <1>19, <2>1, SnapshotsGrown
  <2>3. Delta(e) => Kept(cg, OldNumber(e)) /\ NoGamestate(Line)
    <3> SUFFICES ASSUME Delta(e) PROVE Kept(cg, OldNumber(e)) /\ NoGamestate(Line)
      OBVIOUS
    <3>1. OldNumber(e) = cl.deltaMessage
      BY <1>8, <1>11, <1>12, <1>19 DEF Sent, Delta, OldNumber, NumberOf, n
    <3>2. cl.state = "active" /\ ~Reset
      BY <1>8, <1>19 DEF Sent, Delta
    <3>3. cl.gamestateMessageNum <= cg.serverMessageSequence
      BY <3>2 DEF IInv, MapInv, KeptInv
    <3>4. \A i \in 1 .. Len(Line) : cg.serverMessageSequence < NumberOf(Line[i]) /\ NumberOf(Line[i]) \in Nat
      BY LineParts, MessageParts DEF IInv, NumberInv, LineNumbers
    <3>5. NoGamestate(Line)
      BY <1>1, <2>1, <3>3, <3>4 DEF NoGamestate, LineGamestates
    <3> QED
      BY <2>1, <3>1, <3>2, <3>5
  <2>4. LineKept(Line', cg)
    BY <1>11, <1>12, <2>1, <2>3, SnapshotsGrown
  <2> QED
    BY <1>23, <2>1, <2>2, <2>4
<1> QED
  BY <1>16, <1>17, <1>18, <1>20, <1>21, <1>22, <1>24, <1>25, <1>26, <1>27 DEF IInv

-----------------------------------------------------------------------------
(***************************************************************************)
(* The client reads a snapshot.  First the ring of entities it has parsed. *)
(***************************************************************************)
LEMMA ParseSizes ==
  /\ MAX_PARSE_ENTITIES \in Nat \ {0}
  /\ MAX_SNAPSHOT_ENTITIES \in Nat \ {0}
  /\ MAX_SNAPSHOT_ENTITIES <= MAX_PARSE_ENTITIES
<1>1. MAX_SNAPSHOT_ENTITIES \in Nat \ {0} /\ PACKET_BACKUP \in Nat \ {0}
  BY Numbers, StorageSizes
<1>2. \A a, b \in Nat \ {0} : a * b \in Nat \ {0} /\ b <= a * b
  <2>1. ASSUME NEW a \in Nat \ {0}, NEW b \in Nat \ {0} PROVE a * b \in Nat \ {0} /\ b <= a * b
    <3>1. a - 1 \in Nat /\ a * b = (a - 1) * b + b /\ (a - 1) * b \in Nat
      OBVIOUS
    <3> QED
      BY <3>1
  <2> QED
    BY <2>1
<1> QED
  BY <1>1, <1>2 DEF MAX_PARSE_ENTITIES

(***************************************************************************)
(* Every entity parsed has a place in the ring.                            *)
(***************************************************************************)
LEMMA ParseSlotIn == ASSUME NEW q \in Int PROVE ParseSlot(q) \in 0 .. MAX_PARSE_ENTITIES - 1
  BY ParseSizes, SlotInRing DEF ParseSlot

(***************************************************************************)
(* Entities less than MAX_PARSE_ENTITIES apart have different places.      *)
(***************************************************************************)
LEMMA ParseSlotsDiffer ==
  ASSUME NEW a \in Int, NEW b \in Int, a < b, b - a < MAX_PARSE_ENTITIES
  PROVE  ParseSlot(a) # ParseSlot(b)
<1>1. MAX_PARSE_ENTITIES \in Nat \ {0}
  BY ParseSizes
<1> QED
  BY <1>1, SlotsDiffer DEF ParseSlot

(***************************************************************************)
(* CL_ParsePacketEntities writes the entities to the next places of the    *)
(* ring, and leaves those before them as they are until the ring has gone  *)
(* round.                                                                  *)
(***************************************************************************)
LEMMA ParsedParts ==
  ASSUME NEW c \in ClientType, NEW d,
         d.ents \in Seq(EntityState \cup {Garbage}), d.removal \in BOOLEAN,
         Len(d.ents) + (IF d.removal THEN 1 ELSE 0) <= MAX_PARSE_ENTITIES
  PROVE  LET p == Parsed(c, d)
         IN  /\ p \in ClientType
             /\ p.serverId = c.serverId /\ p.serverMessageSequence = c.serverMessageSequence
             /\ p.snap = c.snap /\ p.snapshots = c.snapshots
             /\ p.parseEntitiesNum = c.parseEntitiesNum + Len(d.ents)
             /\ \A k \in 1 .. Len(d.ents) :
                   p.parseEntities[ParseSlot(c.parseEntitiesNum + k - 1)] = d.ents[k]
             /\ \A q \in Nat :
                   q < c.parseEntitiesNum
                   /\ c.parseEntitiesNum + Len(d.ents) - q < MAX_PARSE_ENTITIES
                      => p.parseEntities[ParseSlot(q)] = c.parseEntities[ParseSlot(q)]
<1> DEFINE n == Len(d.ents)
           start == c.parseEntitiesNum
           written == n + (IF d.removal THEN 1 ELSE 0)
           At(p) == CHOOSE k \in 1 .. written :
                       /\ ParseSlot(start + k - 1) = p
                       /\ \A j \in k + 1 .. written : ParseSlot(start + j - 1) # p
           Hit(p) == \E k \in 1 .. written : ParseSlot(start + k - 1) = p
           ring == [p \in DOMAIN c.parseEntities |->
                      IF Hit(p) THEN IF At(p) > n THEN Garbage ELSE d.ents[At(p)]
                      ELSE c.parseEntities[p]]
<1>1. /\ start \in Nat /\ n \in Nat /\ written \in n .. n + 1
      /\ written \in Nat /\ written <= MAX_PARSE_ENTITIES /\ MAX_PARSE_ENTITIES \in Nat
      /\ c.parseEntities \in [0 .. MAX_PARSE_ENTITIES - 1 -> EntityState \cup {Garbage}]
  BY ParseSizes DEF ClientType
<1>2. Parsed(c, d) = [c EXCEPT !.parseEntitiesNum = start + n, !.parseEntities = ring]
  BY DEF Parsed
<1> HIDE DEF n, start, written
<1>3. ASSUME NEW k \in 1 .. written
      PROVE  /\ ParseSlot(start + k - 1) \in 0 .. MAX_PARSE_ENTITIES - 1
             /\ At(ParseSlot(start + k - 1)) = k
  <2>1. start + k - 1 \in Int /\ k \in Int
    BY <1>1
  <2>2. ASSUME NEW j \in 1 .. written, j # k PROVE ParseSlot(start + j - 1) # ParseSlot(start + k - 1)
    <3>1. start + j - 1 \in Int /\ j \in Int
      BY <1>1
    <3>2. CASE j < k
      <4>1. start + j - 1 < start + k - 1
            /\ (start + k - 1) - (start + j - 1) < MAX_PARSE_ENTITIES
        BY <1>1, <3>2
      <4> QED
        BY <2>1, <3>1, <4>1, ParseSlotsDiffer
    <3>3. CASE k < j
      <4>1. start + k - 1 < start + j - 1
            /\ (start + j - 1) - (start + k - 1) < MAX_PARSE_ENTITIES
        BY <1>1, <3>3
      <4> QED
        BY <2>1, <3>1, <4>1, ParseSlotsDiffer
    <3> QED
      BY <2>1, <2>2, <3>1, <3>2, <3>3
  <2>3. \A j \in k + 1 .. written : j \in 1 .. written /\ j # k
    BY <1>1
  <2>4. \A j \in k + 1 .. written : ParseSlot(start + j - 1) # ParseSlot(start + k - 1)
    BY <2>2, <2>3
  <2> QED
    BY <2>1, <2>2, <2>4, ParseSlotIn
<1>4. ASSUME NEW p \in 0 .. MAX_PARSE_ENTITIES - 1, Hit(p)
      PROVE  At(p) \in 1 .. written
  <2>1. PICK k \in 1 .. written : p = ParseSlot(start + k - 1)
    BY <1>4
  <2> HIDE DEF At
  <2> QED
    BY <1>3, <2>1
<1>5. ring \in [0 .. MAX_PARSE_ENTITIES - 1 -> EntityState \cup {Garbage}]
  <2>1. ASSUME NEW p \in 0 .. MAX_PARSE_ENTITIES - 1, Hit(p)
        PROVE  (IF At(p) > n THEN Garbage ELSE d.ents[At(p)]) \in EntityState \cup {Garbage}
    <3>1. At(p) \in 1 .. written
      BY <1>4, <2>1
    <3> DEFINE k == At(p)
    <3> HIDE DEF At, k
    <3>2. k \in 1 .. written
      BY <3>1 DEF k
    <3>3. k > n \/ k \in 1 .. n
      BY <1>1, <3>2
    <3>4. k \in 1 .. n => d.ents[k] \in EntityState \cup {Garbage}
      BY DEF n
    <3>5. (IF k > n THEN Garbage ELSE d.ents[k]) \in EntityState \cup {Garbage}
      BY <3>3, <3>4
    <3> QED
      BY <3>5 DEF k
  <2> HIDE DEF At, Hit
  <2> QED
    BY <1>1, <2>1
<1>6. \A k \in 1 .. n : ring[ParseSlot(start + k - 1)] = d.ents[k]
  <2> TAKE k \in 1 .. n
  <2>1. k \in 1 .. written /\ ~(k > n)
    BY <1>1
  <2>2. /\ ParseSlot(start + k - 1) \in 0 .. MAX_PARSE_ENTITIES - 1
        /\ At(ParseSlot(start + k - 1)) = k
        /\ Hit(ParseSlot(start + k - 1))
    BY <1>3, <2>1
  <2>3. DOMAIN c.parseEntities = 0 .. MAX_PARSE_ENTITIES - 1
    BY <1>1
  <2> HIDE DEF At, Hit
  <2> QED
    BY <2>1, <2>2, <2>3
<1>7. ASSUME NEW q \in Nat, q < start, start + n - q < MAX_PARSE_ENTITIES
      PROVE  ring[ParseSlot(q)] = c.parseEntities[ParseSlot(q)]
  <2>1. ~Hit(ParseSlot(q))
    <3>1. ASSUME NEW k \in 1 .. written PROVE ParseSlot(start + k - 1) # ParseSlot(q)
      <4>1. /\ start + k - 1 \in Int /\ q \in Int /\ q < start + k - 1
            /\ (start + k - 1) - q < MAX_PARSE_ENTITIES
        BY <1>1, <1>7
      <4> QED
        BY <4>1, ParseSlotsDiffer
    <3> QED
      BY <3>1
  <2>2. ParseSlot(q) \in DOMAIN c.parseEntities
    <3>1. DOMAIN c.parseEntities = 0 .. MAX_PARSE_ENTITIES - 1 /\ q \in Int
      BY <1>1
    <3> QED
      BY <3>1, ParseSlotIn
  <2> HIDE DEF At, Hit
  <2> QED
    BY <2>1, <2>2
<1> HIDE DEF ring
<1>8. LET p == Parsed(c, d)
      IN  /\ p \in ClientType
          /\ p.serverId = c.serverId /\ p.serverMessageSequence = c.serverMessageSequence
          /\ p.snap = c.snap /\ p.snapshots = c.snapshots
          /\ p.parseEntitiesNum = start + n /\ p.parseEntities = ring
  <2> DEFINE next == start + n
  <2>1. next \in Nat
    BY <1>1
  <2>2. Parsed(c, d) = [c EXCEPT !.parseEntitiesNum = next, !.parseEntities = ring]
    BY <1>2
  <2> HIDE DEF next
  <2>3. LET p == Parsed(c, d)
        IN  /\ p \in ClientType
            /\ p.serverId = c.serverId /\ p.serverMessageSequence = c.serverMessageSequence
            /\ p.snap = c.snap /\ p.snapshots = c.snapshots
            /\ p.parseEntitiesNum = next /\ p.parseEntities = ring
    BY <1>5, <2>1, <2>2 DEF ClientType
  <2> QED
    BY <2>3 DEF next
<1> QED
  BY <1>6, <1>7, <1>8 DEF start, n

(***************************************************************************)
(* The same, with what is read and what becomes of it named.               *)
(***************************************************************************)
Fits(d) ==
    /\ d.ents \in Seq(EntityState \cup {Garbage}) /\ d.removal \in BOOLEAN
    /\ Len(d.ents) + (IF d.removal THEN 1 ELSE 0) <= MAX_PARSE_ENTITIES

ParsesTo(c, d, p) ==
    /\ p \in ClientType
    /\ p.serverId = c.serverId /\ p.serverMessageSequence = c.serverMessageSequence
    /\ p.snap = c.snap /\ p.snapshots = c.snapshots
    /\ p.parseEntitiesNum = c.parseEntitiesNum + Len(d.ents)
    /\ \A k \in 1 .. Len(d.ents) :
          p.parseEntities[ParseSlot(c.parseEntitiesNum + k - 1)] = d.ents[k]
    /\ \A q \in Nat :
          q < c.parseEntitiesNum
          /\ c.parseEntitiesNum + Len(d.ents) - q < MAX_PARSE_ENTITIES
             => p.parseEntities[ParseSlot(q)] = c.parseEntities[ParseSlot(q)]

LEMMA ParsedInto ==
  ASSUME NEW c \in ClientType, NEW d, NEW p, Fits(d), p = Parsed(c, d)
  PROVE  ParsesTo(c, d, p)
  BY Zenon, ParsedParts DEF Fits, ParsesTo

(***************************************************************************)
(* A decoded snapshot has no more entities than a frame can have, even if  *)
(* it was decoded from the wrong one; from the right one it is what was    *)
(* encoded.                                                                *)
(***************************************************************************)
LEMMA DecodedParts ==
  ASSUME NEW c \in ClientType, NEW old \in ClientSnap, NEW m \in ServerMessage, Snapshot(m),
         Len(m.new.ents) <= MAX_GENTITIES, Len(m.base.ents) <= MAX_GENTITIES,
         old.numEntities <= MAX_GENTITIES
  PROVE  LET d == Decoded(c, old, m)
         IN  /\ d.ents \in Seq(EntityState \cup {Garbage}) /\ d.ps \in Int /\ d.removal \in BOOLEAN
             /\ Len(d.ents) <= MAX_GENTITIES
             /\ Len(d.ents) + (IF d.removal THEN 1 ELSE 0) <= MAX_GENTITIES
             /\ ~Delta(m) \/ ClientContent(c, old) = m.base =>
                   d.ents = m.new.ents /\ d.ps = m.new.ps
<1> DEFINE right == m.lastframe = 0 \/ ClientContent(c, old) = m.base
           mentioned == IF Len(m.base.ents) > Len(m.new.ents)
                        THEN Len(m.base.ents) ELSE Len(m.new.ents)
           copied == IF m.lastframe # 0 /\ old.numEntities > mentioned
                     THEN old.numEntities - mentioned ELSE 0
           ents == IF right THEN m.new.ents
                   ELSE [i \in 1 .. Len(m.new.ents) + copied |-> Garbage]
           ps == IF right THEN m.new.ps ELSE -1
           removal == copied = 0 /\ mentioned > Len(m.new.ents)
<1>1. m.new \in Content /\ m.base \in Content
  BY MessageParts DEF New
<1>2. /\ m.new.ents \in Seq(EntityState) /\ Len(m.new.ents) \in Nat /\ Len(m.base.ents) \in Nat
      /\ m.new.ps \in Nat /\ old.numEntities \in Nat /\ MAX_GENTITIES \in Nat
  BY <1>1, StorageSizes DEF Content, ClientSnap
<1>3. /\ mentioned \in Nat /\ Len(m.new.ents) <= mentioned /\ mentioned <= MAX_GENTITIES
      /\ copied \in Nat /\ Len(m.new.ents) + copied <= MAX_GENTITIES
      /\ removal => Len(m.new.ents) + 1 <= MAX_GENTITIES /\ copied = 0
  <2>1. mentioned \in Nat /\ Len(m.new.ents) <= mentioned /\ mentioned <= MAX_GENTITIES
    <3> HIDE DEF copied
    <3> QED
      BY <1>2
  <2> HIDE DEF mentioned
  <2>2. copied \in Nat /\ Len(m.new.ents) + copied <= MAX_GENTITIES
    <3>1. CASE m.lastframe # 0 /\ old.numEntities > mentioned
      <4>1. copied = old.numEntities - mentioned
        BY <3>1
      <4> HIDE DEF copied
      <4> QED
        BY <1>2, <2>1, <3>1, <4>1
    <3>2. CASE ~(m.lastframe # 0 /\ old.numEntities > mentioned)
      <4>1. copied = 0
        BY <3>2
      <4> HIDE DEF copied
      <4> QED
        BY <1>2, <4>1
    <3> QED
      BY <3>1, <3>2
  <2> HIDE DEF copied
  <2>3. removal => Len(m.new.ents) + 1 <= MAX_GENTITIES /\ copied = 0
    BY <1>2, <2>1
  <2> QED
    BY <2>1, <2>2, <2>3
<1>4. Decoded(c, old, m) = [ents |-> ents, ps |-> ps, removal |-> removal]
  BY DEF Decoded
<1> HIDE DEF mentioned, copied, right
<1>5. /\ ents \in Seq(EntityState \cup {Garbage}) /\ Len(ents) \in Nat
      /\ right => Len(ents) = Len(m.new.ents)
      /\ ~right => Len(ents) = Len(m.new.ents) + copied
  <2>1. CASE right
    <3>1. m.new.ents \in Seq(EntityState \cup {Garbage})
      <4>1. \A i \in 1 .. Len(m.new.ents) : m.new.ents[i] \in EntityState \cup {Garbage}
        BY <1>2
      <4>2. m.new.ents = [i \in 1 .. Len(m.new.ents) |-> m.new.ents[i]]
        BY <1>2
      <4> QED
        BY <1>2, <4>1, <4>2
    <3> QED
      BY <1>2, <2>1, <3>1
  <2>2. CASE ~right
    <3> DEFINE k == Len(m.new.ents) + copied
               garbage == [i \in 1 .. k |-> Garbage]
    <3>1. k \in Nat
      BY <1>2, <1>3
    <3>2. ents = garbage
      BY <2>2
    <3> HIDE DEF k
    <3>3. garbage \in Seq(EntityState \cup {Garbage}) /\ Len(garbage) = k
      BY <3>1
    <3> HIDE DEF garbage, ents
    <3> QED
      BY <2>2, <3>1, <3>2, <3>3 DEF k
  <2> QED
    BY <2>1, <2>2
<1>6. right => ents = m.new.ents /\ ps = m.new.ps
  OBVIOUS
<1>7. ps \in Int /\ removal \in BOOLEAN
  BY <1>2
<1>8. ~Delta(m) \/ ClientContent(c, old) = m.base => right
  BY DEF Delta, right
<1> HIDE DEF ents, ps, removal
<1>9. Len(ents) <= MAX_GENTITIES /\ Len(ents) + (IF removal THEN 1 ELSE 0) <= MAX_GENTITIES
  BY <1>2, <1>3, <1>5
<1> QED
  BY <1>4, <1>5, <1>6, <1>7, <1>8, <1>9

(***************************************************************************)
(* A snapshot the client has stays what it was when another is read.       *)
(***************************************************************************)
RingKept(c, d) ==
    \A q \in Nat :
        q < c.parseEntitiesNum /\ d.parseEntitiesNum - q < MAX_PARSE_ENTITIES
            => d.parseEntities[ParseSlot(q)] = c.parseEntities[ParseSlot(q)]

(***************************************************************************)
(* One more message is MAX_SNAPSHOT_ENTITIES more entities.                *)
(***************************************************************************)
LEMMA Longer == ASSUME NEW a \in Nat, NEW b \in Nat, NEW k \in Nat, a < b PROVE a * k + k <= b * k
<1>1. b - (a + 1) \in Nat /\ b = (a + 1) + (b - (a + 1))
  OBVIOUS
<1> DEFINE x == b - (a + 1)
<1> HIDE DEF x
<1>2. x \in Nat /\ b = a + 1 + x
  BY <1>1 DEF x
<1>3. b * k = a * k + k + x * k /\ a * k \in Nat /\ x * k \in Nat
  BY <1>2
<1> QED
  BY <1>3

(***************************************************************************)
(* A snapshot that the client has stays what was built when entities are   *)
(* parsed.                                                                 *)
(***************************************************************************)
LEMMA SnapKept ==
  ASSUME NEW c \in ClientType, NEW d \in ClientType, NEW n \in 0 .. MAX_GENTITIES,
         d.serverId = c.serverId, d.parseEntitiesNum = c.parseEntitiesNum + n,
         c.serverMessageSequence < d.serverMessageSequence, RingKept(c, d),
         c.snap.messageNum <= c.serverMessageSequence,
         NEW snap \in ClientSnap, NEW i, NEW b, SnapInv(snap, i, c, b),
         snap.messageNum <= d.snap.messageNum,
         d.snap.messageNum - snap.messageNum < PACKET_BACKUP
  PROVE  SnapInv(snap, i, d, b)
<1>1. /\ c.parseEntitiesNum \in Nat /\ c.serverMessageSequence \in Nat
      /\ d.parseEntitiesNum \in Nat /\ d.serverMessageSequence \in Nat
      /\ c.snap.messageNum \in Nat
      /\ snap.messageNum \in Nat /\ snap.parseEntitiesNum \in Nat /\ snap.numEntities \in Nat
      /\ n \in Nat /\ n <= MAX_SNAPSHOT_ENTITIES /\ MAX_SNAPSHOT_ENTITIES \in Nat
      /\ MAX_PARSE_ENTITIES \in Nat
  <2>1. /\ c.parseEntitiesNum \in Nat /\ c.serverMessageSequence \in Nat /\ c.snap \in ClientSnap
        /\ d.parseEntitiesNum \in Nat /\ d.serverMessageSequence \in Nat
    BY DEF ClientType
  <2>2. /\ c.snap.messageNum \in Nat
        /\ snap.messageNum \in Nat /\ snap.parseEntitiesNum \in Nat /\ snap.numEntities \in Nat
    BY <2>1 DEF ClientSnap
  <2>3. n \in Nat /\ n <= MAX_SNAPSHOT_ENTITIES /\ MAX_SNAPSHOT_ENTITIES \in Nat
    BY Numbers, StorageSizes
  <2> QED
    BY <2>1, <2>2, <2>3, ParseSizes
<1>2. /\ Built(b, snap.messageNum) /\ Slot(snap.messageNum) = i
      /\ snap.messageNum <= c.snap.messageNum
      /\ Since(b[snap.messageNum], c.serverId)
      /\ snap.parseEntitiesNum + snap.numEntities <= c.parseEntitiesNum
      /\ c.parseEntitiesNum - snap.parseEntitiesNum
            <= (c.serverMessageSequence - snap.messageNum + 1) * MAX_SNAPSHOT_ENTITIES
      /\ c.parseEntitiesNum - snap.parseEntitiesNum < MAX_PARSE_ENTITIES
            => ClientContent(c, snap) = b[snap.messageNum]
  BY DEF SnapInv
<1>3. snap.parseEntitiesNum + snap.numEntities <= d.parseEntitiesNum
  BY <1>1, <1>2
<1>4. d.parseEntitiesNum - snap.parseEntitiesNum
         <= (d.serverMessageSequence - snap.messageNum + 1) * MAX_SNAPSHOT_ENTITIES
  <2> DEFINE x == c.serverMessageSequence - snap.messageNum + 1
             y == d.serverMessageSequence - snap.messageNum + 1
  <2>1. x \in Nat /\ y \in Nat /\ x < y
    BY <1>1, <1>2
  <2>2. c.parseEntitiesNum - snap.parseEntitiesNum <= x * MAX_SNAPSHOT_ENTITIES
    BY <1>2
  <2> HIDE DEF x, y
  <2>3. /\ x * MAX_SNAPSHOT_ENTITIES + MAX_SNAPSHOT_ENTITIES <= y * MAX_SNAPSHOT_ENTITIES
        /\ x * MAX_SNAPSHOT_ENTITIES \in Nat /\ y * MAX_SNAPSHOT_ENTITIES \in Nat
    BY <1>1, <2>1, Longer
  <2>4. d.parseEntitiesNum - snap.parseEntitiesNum <= y * MAX_SNAPSHOT_ENTITIES
    BY <1>1, <2>2, <2>3
  <2> QED
    BY <2>4 DEF y
<1>5. ASSUME d.parseEntitiesNum - snap.parseEntitiesNum < MAX_PARSE_ENTITIES
      PROVE  ClientContent(d, snap) = b[snap.messageNum]
  <2>1. ClientContent(c, snap) = b[snap.messageNum]
    BY <1>1, <1>2, <1>5
  <2>2. ASSUME NEW k \in 1 .. snap.numEntities
        PROVE  d.parseEntities[ParseSlot(snap.parseEntitiesNum + k - 1)]
                 = c.parseEntities[ParseSlot(snap.parseEntitiesNum + k - 1)]
    <3> DEFINE q == snap.parseEntitiesNum + k - 1
    <3>1. q \in Nat /\ q < c.parseEntitiesNum /\ d.parseEntitiesNum - q < MAX_PARSE_ENTITIES
      BY <1>1, <1>2, <1>5
    <3> HIDE DEF q
    <3>2. d.parseEntities[ParseSlot(q)] = c.parseEntities[ParseSlot(q)]
      BY <3>1 DEF RingKept
    <3> QED
      BY <3>2 DEF q
  <2>3. EntitiesOf(d, snap) = EntitiesOf(c, snap)
    BY <2>2 DEF EntitiesOf
  <2> QED
    BY <2>1, <2>3 DEF ClientContent
<1> QED
  BY <1>2, <1>3, <1>4, <1>5 DEF SnapInv

(***************************************************************************)
(* The places of the snapshots that were not received are those of all the *)
(* snapshots that are PACKET_BACKUP or more behind the new one, and of no  *)
(* other.                                                                  *)
(***************************************************************************)
LEMMA SkippedCovers ==
  ASSUME NEW c, NEW n \in Nat, NEW k \in Nat,
         c.snap.messageNum \in Nat, c.snap.messageNum < n,
         k <= c.snap.messageNum, c.snap.messageNum - k < PACKET_BACKUP,
         Slot(k) # Slot(n), Slot(k) \notin Skipped(c, n)
  PROVE  n - k < PACKET_BACKUP
<1> DEFINE last == c.snap.messageNum
           first == IF n - (last + 1) >= PACKET_BACKUP THEN n - (PACKET_BACKUP - 1) ELSE last + 1
<1>1. last \in Nat /\ PACKET_BACKUP \in Nat \ {0} /\ last < n /\ last - k < PACKET_BACKUP
  BY Numbers
<1>2. \A j \in first .. n - 1 : Slot(j) # Slot(k)
  BY DEF Skipped
<1> HIDE DEF last
<1>3. SUFFICES ASSUME n - k >= PACKET_BACKUP PROVE FALSE
  BY <1>1
<1>4. CASE n - (last + 1) >= PACKET_BACKUP
  <2>1. PICK j \in n - PACKET_BACKUP + 1 .. n : j % PACKET_BACKUP = Slot(k)
    <3>1. Slot(k) \in 0 .. PACKET_BACKUP - 1
      BY SlotIn
    <3>2. PACKET_BACKUP \in Nat \ {0} /\ n \in Int
      BY <1>1
    <3>3. \E j \in n - PACKET_BACKUP + 1 .. n : j % PACKET_BACKUP = Slot(k)
      BY <3>1, <3>2, PlaceTaken, Zenon
    <3> QED
      BY <3>3
  <2>2. Slot(j) = Slot(k) /\ j # n
    BY <2>1 DEF Slot
  <2>3. j \in first .. n - 1
    BY <1>1, <1>4, <2>1, <2>2
  <2> QED
    BY <1>2, <2>2, <2>3
<1>5. CASE ~(n - (last + 1) >= PACKET_BACKUP)
  <2>1. Slot(k + PACKET_BACKUP) = Slot(k)
    <3>1. k \in Int /\ PACKET_BACKUP \in Nat \ {0}
      BY <1>1
    <3> QED
      BY <3>1, OnceRound, Zenon DEF Slot
  <2>2. k + PACKET_BACKUP # n
    BY <2>1
  <2>3. k + PACKET_BACKUP \in first .. n - 1
    BY <1>1, <1>3, <1>5, <2>2
  <2> QED
    BY <1>2, <2>1, <2>3
<1> QED
  BY <1>4, <1>5

(***************************************************************************)
(* A snapshot less than PACKET_BACKUP old that was received is not         *)
(* skipped.                                                                *)
(***************************************************************************)
LEMMA NotSkipped ==
  ASSUME NEW c, NEW n \in Nat, NEW k \in Nat,
         c.snap.messageNum \in Nat, c.snap.messageNum < n,
         k <= c.snap.messageNum, n - k < PACKET_BACKUP
  PROVE  Slot(k) # Slot(n) /\ Slot(k) \notin Skipped(c, n)
<1> DEFINE last == c.snap.messageNum
           first == IF n - (last + 1) >= PACKET_BACKUP THEN n - (PACKET_BACKUP - 1) ELSE last + 1
<1>1. last \in Nat /\ PACKET_BACKUP \in Nat \ {0} /\ last < n /\ k <= last
  BY Numbers
<1>2. Skipped(c, n) = {Slot(j) : j \in first .. n - 1}
  BY DEF Skipped
<1> HIDE DEF last
<1>3. k \in Int /\ n \in Int /\ k < n
  BY <1>1
<1>4. ASSUME NEW j \in first .. n - 1 PROVE Slot(j) # Slot(k)
  <2>1. j \in Int /\ k < j /\ j - k < PACKET_BACKUP
    BY <1>1, <1>3
  <2> QED
    BY <1>3, <2>1, SlotsOfSnapshotsDiffer
<1>5. Slot(k) # Slot(n)
  BY <1>3, SlotsOfSnapshotsDiffer
<1> QED
  BY <1>2, <1>4, <1>5

(***************************************************************************)
(* The message that arrives.                                               *)
(***************************************************************************)
LEMMA ArrivedParts ==
  ASSUME IInv, toClient # << >>, toClient' = Tail(toClient), UNCHANGED chan
  PROVE  LET m == Head(toClient)
         IN  /\ m \in ServerMessage /\ m = Line[1] /\ 1 \in 1 .. Len(Line)
             /\ NumberOf(m) \in Nat /\ NumberOf(m) < chan.outgoingSequence
             /\ cg.serverMessageSequence < NumberOf(m)
             /\ Snapshot(m) => Carries(m, built) /\ Since(New(m), cg.serverId)
             /\ Gamestate(m) =>
                   /\ cg.serverId <= MapOf(m) /\ MapOf(m) <= serverId
                   /\ LineMaps(Line', chan.queue, MapOf(m), serverId)
<1> DEFINE m == Head(toClient)
<1>1. /\ m \in ServerMessage /\ Line[1] = m /\ Cut(Line, Line')
  BY LineShortened DEF IInv
<1> HIDE DEF m
<1>2. /\ Len(Line) \in Nat /\ Len(Line') \in Nat /\ 1 \in 1 .. Len(Line)
      /\ \A i \in 1 .. Len(Line') : i + 1 \in 1 .. Len(Line) /\ Line'[i] = Line[i + 1]
  BY <1>1 DEF Cut
<1>3. /\ NumberOf(m) \in Nat /\ cg.serverMessageSequence < NumberOf(m) /\ NumberOf(m) < NextNumber
  BY <1>1, <1>2, MessageParts DEF IInv, NumberInv, LineNumbers
<1>4. NumberOf(m) < chan.outgoingSequence
  <2>1. CASE chan.sending = NoMessage
    BY <1>3, <2>1 DEF NextNumber
  <2>2. CASE chan.sending # NoMessage
    <3>1. toClient \in Seq(ServerMessage) /\ chan.sending \in ServerMessage
      BY <2>2, Types DEF IInv, ChanType
    <3>2. Line = Append(toClient, chan.sending)
      BY <2>2 DEF Line
    <3>3. Len(toClient) \in Nat /\ Len(toClient) >= 1
      BY <3>1
    <3> HIDE DEF Line
    <3>4. Len(Line) = Len(toClient) + 1 /\ Line[Len(toClient) + 1] = chan.sending
      BY <3>1, <3>2, Appended
    <3>5. Len(Line) \in 1 .. Len(Line) /\ 1 < Len(Line) /\ Line[Len(Line)] = chan.sending
      BY <3>3, <3>4
    <3>6. NumberOf(Line[1]) < NumberOf(chan.sending)
      BY <1>2, <3>5 DEF IInv, NumberInv, LineNumbers
    <3>7. NumberOf(chan.sending) = chan.outgoingSequence
      BY <2>2 DEF IInv, NumberInv, SendingNumbered, NumberOf
    <3> QED
      BY <1>1, <3>6, <3>7
  <2> QED
    BY <2>1, <2>2
<1>5. Snapshot(m) => Carries(m, built) /\ Since(New(m), cg.serverId)
  BY <1>1, <1>2 DEF IInv, SnapshotsInv, LineSnapshots
<1>6. ASSUME Gamestate(m)
      PROVE  /\ cg.serverId <= MapOf(m) /\ MapOf(m) <= serverId
             /\ LineMaps(Line', chan.queue, MapOf(m), serverId)
  <2>1. LineMaps(Line, chan.queue, cg.serverId, serverId)
    BY DEF IInv, MapInv
  <2>2. cg.serverId <= MapOf(m) /\ MapOf(m) <= serverId
    BY <1>1, <1>2, <1>6, <2>1 DEF LineMaps
  <2>3. LineMaps(Line', chan.queue, cg.serverId, serverId)
    BY <1>1, <2>1, LineCut
  <2>4. /\ \A i \in 1 .. Len(Line') : Gamestate(Line'[i]) => MapOf(m) <= MapOf(Line'[i])
        /\ \A i \in 1 .. Len(chan.queue) : MapOf(m) <= MapOf(chan.queue[i])
    <3>1. \A i \in 1 .. Len(Line') : 1 < i + 1
      BY <1>2
    <3> QED
      BY <1>1, <1>2, <1>6, <2>1, <3>1 DEF LineMaps
  <2> QED
    BY <2>2, <2>3, <2>4 DEF LineMaps
<1> QED
  BY <1>1, <1>2, <1>3, <1>4, <1>5, <1>6 DEF m

(***************************************************************************)
(* What reading a snapshot does to the client: if it can be used, it is    *)
(* the one that was built.                                                 *)
(***************************************************************************)
Read(c, d, n, valid, newSnap) ==
    /\ d \in ClientType
    /\ d.serverId = c.serverId /\ d.serverMessageSequence = n
    /\ \E k \in 0 .. MAX_GENTITIES : d.parseEntitiesNum = c.parseEntitiesNum + k
    /\ RingKept(c, d)
    /\ IF valid
       THEN /\ d.snap = newSnap /\ newSnap.valid /\ newSnap.messageNum = n
            /\ newSnap.numEntities <= MAX_GENTITIES
            /\ newSnap.parseEntitiesNum = c.parseEntitiesNum
            /\ newSnap.parseEntitiesNum + newSnap.numEntities = d.parseEntitiesNum
            /\ ClientContent(d, newSnap) = built[n]
            /\ d.snapshots = [i \in 0 .. PACKET_BACKUP - 1 |->
                                IF i = Slot(n) THEN newSnap
                                ELSE IF i \in Skipped(c, n) THEN [c.snapshots[i] EXCEPT !.valid = FALSE]
                                ELSE c.snapshots[i]]
       ELSE d.snap = c.snap /\ d.snapshots = c.snapshots

(***************************************************************************)
(* CL_ParseSnapshot does so.                                               *)
(***************************************************************************)
LEMMA ReadEffect ==
  ASSUME IInv, NEW m \in ServerMessage, Snapshot(m), Carries(m, built), NEW d,
         d = [CL_ParseSnapshot(cg, m) EXCEPT !.serverMessageSequence = m.sequence]
  PROVE  \E valid \in BOOLEAN : \E newSnap : Read(cg, d, NumberOf(m), valid, newSnap)
<1> DEFINE n == NumberOf(m)
           deltaNum == IF m.lastframe = 0 THEN -1 ELSE m.sequence - m.lastframe
           old == IF deltaNum <= 0 THEN NoSnap ELSE cg.snapshots[Slot(deltaNum)]
           valid == deltaNum <= 0 \/ DeltaUsable(cg, deltaNum)
           dec == Decoded(cg, old, m)
           p == Parsed(cg, dec)
           newSnap == [valid |-> TRUE, messageNum |-> m.sequence, ps |-> dec.ps,
                       parseEntitiesNum |-> cg.parseEntitiesNum, numEntities |-> Len(dec.ents)]
           snapshots == [i \in DOMAIN p.snapshots |->
                           IF i = Slot(m.sequence) THEN newSnap
                           ELSE IF i \in Skipped(cg, m.sequence) THEN [p.snapshots[i] EXCEPT !.valid = FALSE]
                           ELSE p.snapshots[i]]
<1>1. /\ cg \in ClientType /\ cg.parseEntitiesNum \in Nat /\ cg.serverMessageSequence \in Nat
      /\ cg.snapshots \in [0 .. PACKET_BACKUP - 1 -> ClientSnap]
      /\ built \in [1 .. MaxSequence -> Content] /\ n \in Nat /\ m.sequence = n
  BY Types, MessageParts DEF IInv, ClientType, NumberOf
<1>2. /\ m.new \in Content /\ m.base \in Content /\ m.lastframe \in Nat
  BY MessageParts DEF New
<1>3. /\ Built(built, n) /\ m.new = built[n]
      /\ Delta(m) => Built(built, OldNumber(m)) /\ m.base = built[OldNumber(m)]
      /\ ~Delta(m) => m.base.ents = << >>
  BY DEF Carries
<1>4. Len(m.new.ents) <= MAX_GENTITIES /\ Len(m.base.ents) <= MAX_GENTITIES
  <2>1. \A k : Built(built, k) => Len(built[k].ents) <= MAX_GENTITIES
    BY DEF IInv, BuiltInv, Built
  <2>2. Len(<< >>) <= MAX_GENTITIES
    BY StorageSizes
  <2> QED
    BY <1>3, <2>1, <2>2
<1>5. /\ deltaNum <= 0 <=> ~Delta(m)
      /\ Delta(m) => deltaNum = OldNumber(m) /\ OldNumber(m) \in Nat /\ OldNumber(m) > 0
  <2>1. Delta(m) => OldNumber(m) \in Nat /\ OldNumber(m) > 0
    BY <1>3, Numbers DEF Built
  <2> QED
    BY <2>1 DEF Delta, OldNumber
<1>6. old \in ClientSnap /\ old.numEntities <= MAX_GENTITIES
  <2>1. CASE Delta(m)
    <3>1. Slot(deltaNum) \in 0 .. PACKET_BACKUP - 1 /\ old = cg.snapshots[Slot(deltaNum)]
      BY <1>5, <2>1, SlotIn
    <3> QED
      BY <1>1, <3>1 DEF IInv, ClientInv
  <2>2. CASE ~Delta(m)
    <3>1. old = NoSnap
      BY <1>5, <2>2
    <3> QED
      <4>1. NoSnap \in ClientSnap /\ NoSnap.numEntities = 0
        BY DEF NoSnap, ClientSnap
      <4> QED
        BY <3>1, <4>1, StorageSizes
  <2> QED
    BY <2>1, <2>2
<1>7. ASSUME valid, Delta(m) PROVE ClientContent(cg, old) = m.base
  <2>1. /\ Slot(OldNumber(m)) \in 0 .. PACKET_BACKUP - 1
        /\ old = cg.snapshots[Slot(OldNumber(m))] /\ DeltaUsable(cg, OldNumber(m))
    BY <1>5, <1>7, SlotIn
  <2>2. /\ old.valid /\ old.messageNum = OldNumber(m)
        /\ cg.parseEntitiesNum - old.parseEntitiesNum <= MAX_PARSE_ENTITIES - MAX_SNAPSHOT_ENTITIES
    BY <2>1 DEF DeltaUsable
  <2>3. SnapInv(old, Slot(OldNumber(m)), cg, built)
    BY <2>1, <2>2 DEF IInv, ClientInv
  <2>4. cg.parseEntitiesNum - old.parseEntitiesNum < MAX_PARSE_ENTITIES
    <3>1. old.parseEntitiesNum \in Nat
      BY <1>6 DEF ClientSnap
    <3> HIDE DEF old
    <3> QED
      BY <1>1, <2>2, <3>1, ParseSizes
  <2> QED
    BY <1>3, <1>7, <2>2, <2>3, <2>4 DEF SnapInv
<1> HIDE DEF old, deltaNum
<1>8. /\ dec.ents \in Seq(EntityState \cup {Garbage}) /\ dec.ps \in Int /\ dec.removal \in BOOLEAN
      /\ Len(dec.ents) <= MAX_GENTITIES
      /\ Len(dec.ents) + (IF dec.removal THEN 1 ELSE 0) <= MAX_GENTITIES
      /\ valid => dec.ents = m.new.ents /\ dec.ps = m.new.ps
  <2>1. valid => ~Delta(m) \/ ClientContent(cg, old) = m.base
    BY <1>7
  <2> QED
    BY <1>1, <1>4, <1>6, <2>1, DecodedParts
<1> HIDE DEF dec, valid
<1>9. /\ p \in ClientType
      /\ p.serverId = cg.serverId /\ p.snap = cg.snap /\ p.snapshots = cg.snapshots
      /\ p.parseEntitiesNum = cg.parseEntitiesNum + Len(dec.ents)
      /\ \A k \in 1 .. Len(dec.ents) :
            p.parseEntities[ParseSlot(cg.parseEntitiesNum + k - 1)] = dec.ents[k]
      /\ \A q \in Nat :
            q < cg.parseEntitiesNum
            /\ cg.parseEntitiesNum + Len(dec.ents) - q < MAX_PARSE_ENTITIES
               => p.parseEntities[ParseSlot(q)] = cg.parseEntities[ParseSlot(q)]
  <2>1. Len(dec.ents) + (IF dec.removal THEN 1 ELSE 0) <= MAX_PARSE_ENTITIES
    <3> DEFINE one == IF dec.removal THEN 1 ELSE 0
    <3>1. Len(dec.ents) \in Nat /\ one \in {0, 1} /\ Len(dec.ents) + one <= MAX_GENTITIES
      <4>1. one \in {0, 1}
        OBVIOUS
      <4>2. Len(dec.ents) + one <= MAX_GENTITIES
        BY <1>8
      <4> HIDE DEF one
      <4> QED
        BY <1>8, <4>1, <4>2
    <3>2. MAX_GENTITIES <= MAX_SNAPSHOT_ENTITIES /\ MAX_SNAPSHOT_ENTITIES <= MAX_PARSE_ENTITIES
          /\ MAX_GENTITIES \in Nat /\ MAX_SNAPSHOT_ENTITIES \in Nat /\ MAX_PARSE_ENTITIES \in Nat
      BY Numbers, ParseSizes, StorageSizes
    <3> HIDE DEF one
    <3>3. Len(dec.ents) + one <= MAX_PARSE_ENTITIES
      BY <3>1, <3>2
    <3> QED
      BY <3>3 DEF one
  <2>2. /\ cg \in ClientType /\ dec.ents \in Seq(EntityState \cup {Garbage})
        /\ dec.removal \in BOOLEAN
    BY <1>1, <1>8
  <2> QED
    <3>1. p = Parsed(cg, dec)
      OBVIOUS
    <3> HIDE DEF p
    <3>2. Fits(dec)
      BY Zenon, <2>1, <2>2 DEF Fits
    <3>3. ParsesTo(cg, dec, p)
      BY Zenon, <2>2, <3>1, <3>2, ParsedInto
    <3> QED
      BY Zenon, <3>3 DEF ParsesTo
<1> HIDE DEF p
<1>10. Len(dec.ents) \in 0 .. MAX_GENTITIES
  BY <1>8, StorageSizes
<1>11. newSnap \in ClientSnap
  BY <1>1, <1>8, <1>10 DEF ClientSnap
<1>12. CASE valid
  <2>1. d = [[p EXCEPT !.snap = newSnap, !.snapshots = snapshots] EXCEPT !.serverMessageSequence = m.sequence]
    BY <1>12 DEF CL_ParseSnapshot, valid, p, dec, old, deltaNum
  <2>2. snapshots \in [0 .. PACKET_BACKUP - 1 -> ClientSnap]
    <3> HIDE DEF newSnap
    <3>1. \A i \in 0 .. PACKET_BACKUP - 1 : [cg.snapshots[i] EXCEPT !.valid = FALSE] \in ClientSnap
      BY <1>1 DEF ClientSnap
    <3> QED
      BY <1>1, <1>9, <1>11, <3>1
  <2>3. snapshots = [i \in 0 .. PACKET_BACKUP - 1 |->
                       IF i = Slot(n) THEN newSnap
                       ELSE IF i \in Skipped(cg, n) THEN [cg.snapshots[i] EXCEPT !.valid = FALSE]
                       ELSE cg.snapshots[i]]
    <3> HIDE DEF newSnap, n
    <3> QED
      BY <1>1, <1>9
  <2>4. /\ newSnap.valid /\ newSnap.messageNum = n /\ newSnap.numEntities = Len(dec.ents)
        /\ newSnap.parseEntitiesNum = cg.parseEntitiesNum /\ newSnap.ps = dec.ps
    BY <1>1
  <2> HIDE DEF snapshots, newSnap, n
  <2>5. /\ d \in ClientType
        /\ d.serverId = p.serverId /\ d.serverMessageSequence = n
        /\ d.snap = newSnap /\ d.snapshots = snapshots
        /\ d.parseEntitiesNum = p.parseEntitiesNum /\ d.parseEntities = p.parseEntities
    BY <1>1, <1>9, <1>11, <2>1, <2>2 DEF ClientType
  <2>6. EntitiesOf(d, newSnap) = m.new.ents
    <3>1. m.new.ents = [k \in 1 .. Len(m.new.ents) |-> m.new.ents[k]]
      BY <1>2 DEF Content
    <3>2. \A k \in 1 .. newSnap.numEntities :
             d.parseEntities[ParseSlot(newSnap.parseEntitiesNum + k - 1)] = m.new.ents[k]
      BY <1>8, <1>9, <1>12, <2>4, <2>5
    <3> QED
      BY <1>8, <1>12, <2>4, <3>1, <3>2 DEF EntitiesOf
  <2>7. ClientContent(d, newSnap) = built[n]
    <3>1. m.new = [ps |-> m.new.ps, ents |-> m.new.ents]
      BY <1>2 DEF Content
    <3> QED
      BY <1>3, <1>8, <1>12, <2>4, <2>6, <3>1 DEF ClientContent
  <2>8. RingKept(cg, d)
    <3>1. d.parseEntitiesNum = cg.parseEntitiesNum + Len(dec.ents)
      BY <1>9, <2>5
    <3>2. ASSUME NEW q \in Nat, q < cg.parseEntitiesNum,
                 d.parseEntitiesNum - q < MAX_PARSE_ENTITIES
          PROVE  d.parseEntities[ParseSlot(q)] = cg.parseEntities[ParseSlot(q)]
      <4>1. cg.parseEntitiesNum + Len(dec.ents) - q < MAX_PARSE_ENTITIES
        <5>1. (cg.parseEntitiesNum + Len(dec.ents)) - q < MAX_PARSE_ENTITIES
          BY <3>1, <3>2, Zenon
        <5>2. cg.parseEntitiesNum \in Nat /\ Len(dec.ents) \in Nat /\ MAX_PARSE_ENTITIES \in Nat
          BY <1>1, <1>8, ParseSizes
        <5> QED
          BY <5>1, <5>2
      <4>2. p.parseEntities[ParseSlot(q)] = cg.parseEntities[ParseSlot(q)]
        BY <1>9, <3>2, <4>1
      <4> QED
        BY <2>5, <4>2
    <3> QED
      BY <3>2 DEF RingKept
  <2>9. Read(cg, d, n, TRUE, newSnap)
    BY <1>8, <1>9, <1>10, <2>3, <2>4, <2>5, <2>7, <2>8 DEF Read
  <2> QED
    BY <2>9 DEF n
<1>13. CASE ~valid
  <2>1. d = [p EXCEPT !.serverMessageSequence = m.sequence]
    BY <1>13 DEF CL_ParseSnapshot, valid, p, dec, old, deltaNum
  <2> HIDE DEF n
  <2>2. /\ d \in ClientType
        /\ d.serverId = p.serverId /\ d.serverMessageSequence = n
        /\ d.snap = p.snap /\ d.snapshots = p.snapshots
        /\ d.parseEntitiesNum = p.parseEntitiesNum /\ d.parseEntities = p.parseEntities
    BY <1>1, <1>9, <2>1 DEF ClientType
  <2>3. RingKept(cg, d)
    <3>1. d.parseEntitiesNum = cg.parseEntitiesNum + Len(dec.ents)
      BY <1>9, <2>2
    <3>2. ASSUME NEW q \in Nat, q < cg.parseEntitiesNum,
                 d.parseEntitiesNum - q < MAX_PARSE_ENTITIES
          PROVE  d.parseEntities[ParseSlot(q)] = cg.parseEntities[ParseSlot(q)]
      <4>1. cg.parseEntitiesNum + Len(dec.ents) - q < MAX_PARSE_ENTITIES
        <5>1. (cg.parseEntitiesNum + Len(dec.ents)) - q < MAX_PARSE_ENTITIES
          BY <3>1, <3>2, Zenon
        <5>2. cg.parseEntitiesNum \in Nat /\ Len(dec.ents) \in Nat /\ MAX_PARSE_ENTITIES \in Nat
          BY <1>1, <1>8, ParseSizes
        <5> QED
          BY <5>1, <5>2
      <4>2. p.parseEntities[ParseSlot(q)] = cg.parseEntities[ParseSlot(q)]
        BY <1>9, <3>2, <4>1
      <4> QED
        BY <2>2, <4>2
    <3> QED
      BY <3>2 DEF RingKept
  <2>4. Read(cg, d, n, FALSE, NoSnap)
    BY <1>9, <1>10, <2>2, <2>3 DEF Read
  <2> QED
    BY <2>4 DEF n
<1> QED
  BY <1>12, <1>13

(***************************************************************************)
(* The client's snapshots stay what was built, and those within reach      *)
(* stay.                                                                   *)
(***************************************************************************)
LEMMA ReadKeeps ==
  ASSUME IInv, UNCHANGED built, NEW n \in Nat, NEW valid \in BOOLEAN, NEW newSnap,
         Read(cg, cg', n, valid, newSnap),
         cg.serverMessageSequence < n, Built(built, n), Since(built[n], cg.serverId)
  PROVE  ClientInv' /\ \A k \in Int : Kept(cg, k) => Kept(cg', k)
<1> DEFINE c == cg
           d == cg'
<1>1. /\ c \in ClientType /\ d \in ClientType
      /\ d.serverId = c.serverId /\ d.serverMessageSequence = n
      /\ RingKept(c, d)
  BY Types DEF IInv, Read
<1>2. PICK k \in 0 .. MAX_GENTITIES : d.parseEntitiesNum = c.parseEntitiesNum + k
  BY DEF Read
<1>3. /\ c.snapshots \in [0 .. PACKET_BACKUP - 1 -> ClientSnap] /\ c.snap.messageNum \in Nat
      /\ c.parseEntitiesNum \in Nat /\ c.serverMessageSequence \in Nat
      /\ d.parseEntitiesNum \in Nat
      /\ MAX_GENTITIES \in Nat /\ MAX_GENTITIES <= MAX_SNAPSHOT_ENTITIES
      /\ MAX_SNAPSHOT_ENTITIES \in Nat /\ PACKET_BACKUP \in Nat \ {0}
  BY <1>1, Numbers, StorageSizes DEF ClientType, ClientSnap
<1>4. /\ \A i \in 0 .. PACKET_BACKUP - 1 :
            /\ c.snapshots[i].numEntities <= MAX_GENTITIES
            /\ c.snapshots[i].valid => SnapInv(c.snapshots[i], i, c, built)
      /\ c.snap.messageNum <= c.serverMessageSequence
      /\ c.snap.valid => Has(c, c.snap.messageNum)
  BY DEF IInv, ClientInv
<1>5. c.snap.messageNum < n
  BY <1>3, <1>4
<1>6. ASSUME NEW i \in 0 .. PACKET_BACKUP - 1, c.snapshots[i].valid,
             c.snapshots[i].messageNum <= d.snap.messageNum,
             d.snap.messageNum - c.snapshots[i].messageNum < PACKET_BACKUP
      PROVE  SnapInv(c.snapshots[i], i, d, built)
  <2>1. c.snapshots[i] \in ClientSnap /\ SnapInv(c.snapshots[i], i, c, built)
    BY <1>3, <1>4, <1>6
  <2>2. c.serverMessageSequence < d.serverMessageSequence
    BY <1>1
  <2> HIDE DEF c, d
  <2> QED
    BY <1>1, <1>2, <1>4, <1>6, <2>1, <2>2, SnapKept
<1>7. CASE ~valid
  <2>1. d.snap = c.snap /\ d.snapshots = c.snapshots
    BY <1>7 DEF Read
  <2>2. ASSUME NEW i \in 0 .. PACKET_BACKUP - 1, c.snapshots[i].valid
        PROVE  SnapInv(c.snapshots[i], i, d, built)
    <3>1. /\ c.snapshots[i].messageNum <= d.snap.messageNum
          /\ d.snap.messageNum - c.snapshots[i].messageNum < PACKET_BACKUP
      <4>1. SnapInv(c.snapshots[i], i, c, built)
        BY <1>4, <2>2
      <4> QED
        BY <2>1, <4>1 DEF SnapInv
    <3> QED
      BY <1>6, <2>2, <3>1
  <2>3. d.snap.messageNum <= d.serverMessageSequence
    BY <1>1, <1>3, <1>5, <2>1
  <2>4. ClientInv'
    BY <1>4, <2>1, <2>2, <2>3 DEF ClientInv, Has
  <2>5. \A j \in Int : Kept(c, j) => Kept(d, j)
    BY <2>1 DEF Kept, Has
  <2> QED
    BY <2>4, <2>5
<1>8. CASE valid
  <2>1. /\ d.snap = newSnap /\ newSnap.valid /\ newSnap.messageNum = n
        /\ newSnap.numEntities <= MAX_GENTITIES
        /\ newSnap.parseEntitiesNum = c.parseEntitiesNum
        /\ newSnap.parseEntitiesNum + newSnap.numEntities = d.parseEntitiesNum
        /\ ClientContent(d, newSnap) = built[n]
        /\ d.snapshots = [i \in 0 .. PACKET_BACKUP - 1 |->
                            IF i = Slot(n) THEN newSnap
                            ELSE IF i \in Skipped(c, n) THEN [c.snapshots[i] EXCEPT !.valid = FALSE]
                            ELSE c.snapshots[i]]
    BY <1>8 DEF Read
  <2>2. newSnap \in ClientSnap /\ newSnap.numEntities \in Nat
    <3>1. newSnap \in ClientSnap
      BY <1>1, <2>1 DEF ClientType
    <3> QED
      BY <3>1 DEF ClientSnap
  <2>3. Slot(n) \in 0 .. PACKET_BACKUP - 1
    BY SlotIn
  <2>4. SnapInv(newSnap, Slot(n), d, built)
    <3>1. d.parseEntitiesNum - newSnap.parseEntitiesNum <= MAX_SNAPSHOT_ENTITIES
      BY <1>3, <2>1, <2>2
    <3>2. (n - n + 1) * MAX_SNAPSHOT_ENTITIES = MAX_SNAPSHOT_ENTITIES /\ n <= n /\ n - n < PACKET_BACKUP
      BY <1>3
    <3>3. d.parseEntitiesNum <= d.parseEntitiesNum
      BY <1>3
    <3> HIDE DEF d
    <3> QED
      BY <1>1, <2>1, <3>1, <3>2, <3>3 DEF SnapInv
  <2>5. ASSUME NEW i \in 0 .. PACKET_BACKUP - 1
        PROVE  /\ d.snapshots[i].numEntities <= MAX_GENTITIES
               /\ d.snapshots[i].valid => SnapInv(d.snapshots[i], i, d, built)
    <3>1. CASE i = Slot(n)
      BY <2>1, <2>3, <2>4, <3>1
    <3>2. CASE i # Slot(n) /\ i \in Skipped(c, n)
      <4>1. d.snapshots[i] = [c.snapshots[i] EXCEPT !.valid = FALSE]
        BY <2>1, <3>2
      <4>2. c.snapshots[i] \in ClientSnap
        BY <1>3
      <4>3. ~d.snapshots[i].valid /\ d.snapshots[i].numEntities = c.snapshots[i].numEntities
        BY <4>1, <4>2 DEF ClientSnap
      <4> QED
        BY <1>4, <4>3
    <3>3. CASE i # Slot(n) /\ i \notin Skipped(c, n)
      <4>1. d.snapshots[i] = c.snapshots[i]
        BY <2>1, <3>3
      <4>2. ASSUME c.snapshots[i].valid
            PROVE  /\ c.snapshots[i].messageNum <= d.snap.messageNum
                   /\ d.snap.messageNum - c.snapshots[i].messageNum < PACKET_BACKUP
        <5> DEFINE k1 == c.snapshots[i].messageNum
        <5>1. SnapInv(c.snapshots[i], i, c, built) /\ c.snapshots[i] \in ClientSnap
          BY <1>3, <1>4, <4>2
        <5>2. k1 \in Nat /\ Slot(k1) = i /\ k1 <= c.snap.messageNum
              /\ c.snap.messageNum - k1 < PACKET_BACKUP
          BY <5>1 DEF SnapInv, ClientSnap
        <5> HIDE DEF k1
        <5>3. n - k1 < PACKET_BACKUP
          BY <1>3, <1>5, <3>3, <5>2, SkippedCovers
        <5>4. k1 <= n
          BY <1>3, <1>5, <5>2
        <5> QED
          BY <2>1, <5>3, <5>4 DEF k1
      <4> QED
        BY <1>4, <1>6, <4>1, <4>2
    <3> QED
      BY <3>1, <3>2, <3>3
  <2>6. Has(d, n)
    BY <2>1, <2>3 DEF Has
  <2>7. ClientInv'
    <3>1. d.snap.messageNum <= d.serverMessageSequence
      BY <1>1, <2>1
    <3> QED
      BY <2>1, <2>5, <2>6, <3>1 DEF ClientInv
  <2>8. ASSUME NEW j \in Int, Kept(c, j) PROVE Kept(d, j)
    <3> SUFFICES ASSUME n - j < PACKET_BACKUP PROVE Has(d, j)
      BY <2>1 DEF Kept
    <3>1. Has(c, j)
      <4>1. c.snap.messageNum - j < PACKET_BACKUP
        BY <1>3, <1>5
      <4> QED
        BY <2>8, <4>1 DEF Kept
    <3>2. Slot(j) \in 0 .. PACKET_BACKUP - 1
      BY SlotIn
    <3>3. c.snapshots[Slot(j)].valid /\ c.snapshots[Slot(j)].messageNum = j
      BY <3>1 DEF Has
    <3>4. j \in Nat /\ j <= c.snap.messageNum
      <4>1. SnapInv(c.snapshots[Slot(j)], Slot(j), c, built) /\ c.snapshots[Slot(j)] \in ClientSnap
        BY <1>3, <1>4, <3>2, <3>3
      <4> QED
        BY <3>3, <4>1 DEF SnapInv, ClientSnap
    <3>5. Slot(j) # Slot(n) /\ Slot(j) \notin Skipped(c, n)
      BY <1>3, <1>5, <3>4, NotSkipped
    <3>6. d.snapshots[Slot(j)] = c.snapshots[Slot(j)]
      BY <2>1, <3>2, <3>5
    <3> QED
      BY <3>3, <3>6 DEF Has
  <2> QED
    BY <2>7, <2>8
<1> QED
  BY <1>7, <1>8

(***************************************************************************)
(* A message arrives: what is so for a gamestate and for a snapshot.       *)
(***************************************************************************)
LEMMA ArrivalKeeps ==
  ASSUME IInv, UNCHANGED <<svs, serverId, cl, chan, toServer, built, queued>>,
         toClient # << >>, toClient' = Tail(toClient),
         cg' \in ClientType, cg'.serverMessageSequence = NumberOf(Head(toClient))
  PROVE  /\ TypeOK' /\ StorageInv(svs, serverId)' /\ NumberInv' /\ BuiltInv' /\ FramesInv'
         /\ AcknowledgedInv'
         /\ Reset' = Reset
<1> DEFINE m == Head(toClient)
<1>1. /\ m \in ServerMessage /\ m = Line[1] /\ NumberOf(m) \in Nat
      /\ NumberOf(m) < chan.outgoingSequence /\ cg.serverMessageSequence < NumberOf(m)
  BY ArrivedParts
<1>2. toClient' \in Seq(ServerMessage) /\ NextNumber' = NextNumber /\ Cut(Line, Line')
  BY LineShortened DEF IInv
<1> HIDE DEF m
<1>3. /\ UNCHANGED <<svs, serverId, cl, chan, toServer>>
      /\ UNCHANGED <<built, queued>>
      /\ cg' \in ClientType /\ cg'.serverMessageSequence = NumberOf(m)
  BY DEF m
<1>4. TypeOK'
  BY <1>2, <1>3, Types DEF IInv, TypeOK, ClientType
<1>5. StorageInv(svs, serverId)' /\ Reset' = Reset
  BY <1>3 DEF IInv, Reset
<1>6. NextNumber \in Nat /\ serverId \in Nat /\ cg.serverMessageSequence \in Nat
      /\ toServer \in Seq(ReplyType)
  BY LineParts, Types DEF IInv, ClientType
<1>7. BuiltInv' /\ FramesInv' /\ AcknowledgedInv'
  BY <1>2, <1>3, <1>6, BuiltKept, FramesKept, AcknowledgedKept DEF IInv
<1>8. ReplyNumbers(toServer, NumberOf(m))
  <2>1. \A i \in 1 .. Len(toServer) : Acks(toServer[i]) \in Nat
    BY <1>6, ReplyParts
  <2>2. ReplyNumbers(toServer, cg.serverMessageSequence)
    BY DEF IInv, NumberInv
  <2>3. \A i \in 1 .. Len(toServer) : Acks(toServer[i]) <= cg.serverMessageSequence
    BY <2>2 DEF ReplyNumbers
  <2> DEFINE n == NumberOf(m)
  <2>4. n \in Nat /\ cg.serverMessageSequence < n
    BY <1>1
  <2> HIDE DEF n
  <2>5. \A i \in 1 .. Len(toServer) : Acks(toServer[i]) <= n
    BY <1>6, <2>1, <2>3, <2>4
  <2>6. ReplyNumbers(toServer, n)
    BY <2>2, <2>5 DEF ReplyNumbers
  <2> QED
    BY <2>6 DEF n
<1>9. LineNumbers(Line', NumberOf(m), NextNumber)
  BY <1>1, <1>2, LineCut DEF IInv, NumberInv
<1>10. NumberInv'
  BY <1>1, <1>2, <1>3, <1>8, <1>9 DEF IInv, NumberInv, SendingNumbered
<1> QED
  BY <1>4, <1>5, <1>7, <1>10

(***************************************************************************)
(* CL_ClearState leaves the client no snapshot.                            *)
(***************************************************************************)
LEMMA ClearedParts ==
  /\ Cleared \in ClientType /\ Cleared.serverId = 0 /\ Cleared.serverMessageSequence = 0
  /\ Cleared.snap.messageNum = 0 /\ ~Cleared.snap.valid
  /\ \A i \in 0 .. PACKET_BACKUP - 1 :
        ~Cleared.snapshots[i].valid /\ Cleared.snapshots[i].numEntities = 0
<1>1. NoSnap \in ClientSnap /\ ~NoSnap.valid /\ NoSnap.messageNum = 0 /\ NoSnap.numEntities = 0
  BY DEF NoSnap, ClientSnap
<1> DEFINE snapshots == [i \in 0 .. PACKET_BACKUP - 1 |-> NoSnap]
           entities == [i \in 0 .. MAX_PARSE_ENTITIES - 1 |-> NoEntity]
<1>2. /\ snapshots \in [0 .. PACKET_BACKUP - 1 -> ClientSnap]
      /\ \A i \in 0 .. PACKET_BACKUP - 1 : snapshots[i] = NoSnap
  BY <1>1
<1>3. entities \in [0 .. MAX_PARSE_ENTITIES - 1 -> EntityState \cup {Garbage}]
  <2>1. NoEntity \in EntityState \cup {Garbage}
    BY DEF NoEntity, EntityState
  <2> HIDE DEF NoEntity
  <2> QED
    BY <2>1
<1>4. Cleared = [serverId |-> 0, serverMessageSequence |-> 0, snap |-> NoSnap,
                 snapshots |-> snapshots, parseEntities |-> entities, parseEntitiesNum |-> 0]
  BY DEF Cleared
<1> HIDE DEF snapshots, entities, NoSnap
<1>5. /\ Cleared \in ClientType /\ Cleared.serverId = 0 /\ Cleared.serverMessageSequence = 0
      /\ Cleared.snap = NoSnap /\ Cleared.snapshots = snapshots
  BY <1>1, <1>2, <1>3, <1>4 DEF ClientType
<1> QED
  BY <1>1, <1>2, <1>5

(***************************************************************************)
(* CL_ParseGamestate keeps the invariant.                                  *)
(***************************************************************************)
LEMMA ParseGamestateKeeps ==
  ASSUME IInv, CL_ParseServerMessage, Gamestate(Head(toClient))
  PROVE  IInv'
<1> DEFINE m == Head(toClient)
<1>1. /\ m \in ServerMessage /\ m = Line[1] /\ 1 \in 1 .. Len(Line) /\ NumberOf(m) \in Nat
      /\ NumberOf(m) < chan.outgoingSequence /\ cg.serverMessageSequence < NumberOf(m)
      /\ Gamestate(m) /\ cg.serverId <= MapOf(m) /\ MapOf(m) <= serverId
      /\ LineMaps(Line', chan.queue, MapOf(m), serverId)
      /\ MapOf(m) \in Nat /\ m.sequence = NumberOf(m) /\ m.serverId = MapOf(m)
  <2>1. m \in ServerMessage
    BY ArrivedParts DEF CL_ParseServerMessage
  <2> QED
    BY <2>1, ArrivedParts, MessageParts DEF CL_ParseServerMessage, NumberOf, MapOf
<1>2. /\ UNCHANGED <<svs, serverId, cl, chan, toServer>>
      /\ UNCHANGED <<built, queued>>
      /\ toClient # << >> /\ toClient' = Tail(toClient)
      /\ cg' = [CL_ParseGamestate(m) EXCEPT !.serverMessageSequence = m.sequence]
  BY DEF CL_ParseServerMessage, Gamestate
<1>3. Cut(Line, Line')
  BY <1>2, LineShortened DEF IInv
<1> DEFINE n == NumberOf(m)
           map == MapOf(m)
<1>4. /\ cg' \in ClientType /\ cg'.serverId = map /\ cg'.serverMessageSequence = n
      /\ cg'.snap.messageNum = 0 /\ ~cg'.snap.valid
      /\ \A i \in 0 .. PACKET_BACKUP - 1 : ~cg'.snapshots[i].valid /\ cg'.snapshots[i].numEntities = 0
  <2>1. cg' = [[Cleared EXCEPT !.serverId = map] EXCEPT !.serverMessageSequence = n]
    BY <1>1, <1>2 DEF CL_ParseGamestate
  <2>2. map \in Nat /\ n \in Nat
    BY <1>1
  <2> HIDE DEF map, n
  <2>3. /\ cg' \in ClientType /\ cg'.serverId = map /\ cg'.serverMessageSequence = n
        /\ cg'.snap = Cleared.snap /\ cg'.snapshots = Cleared.snapshots
    BY <2>1, <2>2, ClearedParts DEF ClientType
  <2> QED
    BY <2>3, ClearedParts
<1>5. /\ TypeOK' /\ StorageInv(svs, serverId)' /\ NumberInv' /\ BuiltInv' /\ FramesInv'
      /\ AcknowledgedInv'
      /\ Reset' = Reset
  BY <1>2, <1>4, ArrivalKeeps
<1>6. cg.serverId \in Nat /\ cg.serverMessageSequence \in Nat /\ serverId \in Nat
      /\ cl.gamestateMessageNum \in Int /\ toServer \in Seq(ReplyType)
  BY Types DEF IInv, ClientType, SlotType
<1> HIDE DEF m, n, map
<1>7. \A i \in 1 .. Len(toServer) : Acks(toServer[i]) \in Nat /\ MapOf(toServer[i]) \in Nat
  BY <1>6, ReplyParts
<1>8. MapInv'
  <2>1. ReplyMaps(toServer, map)
    BY <1>1, <1>6, <1>7 DEF IInv, MapInv, ReplyMaps, map
  <2>2. cl.gamestateAck = "acked" => map = serverId /\ RepliesOf(toServer, serverId)
    BY <1>1, <1>6 DEF IInv, MapInv, map
  <2> QED
    BY <1>1, <1>2, <1>4, <2>1, <2>2 DEF IInv, MapInv, map
<1>9. SnapshotsInv'
  BY <1>1, <1>2, <1>3, <1>4, SnapshotsCut DEF IInv, SnapshotsInv, map
<1>10. ClientInv'
  <2>1. 0 <= n /\ 0 <= MAX_GENTITIES
    BY <1>1, StorageSizes DEF n
  <2> QED
    BY <1>4, <2>1 DEF ClientInv
<1>11. KeptInv'
  <2> SUFFICES ASSUME ~queued
               PROVE  /\ chan.queue = << >>
                      /\ LineGamestates(Line', cl.gamestateMessageNum)
                      /\ LineKept(Line', cg')
                      /\ cl.gamestateAck # "acked" /\ cl.state # "active"
                      /\ RepliesKept(toServer, cg', cl.gamestateMessageNum)
    BY <1>2 DEF KeptInv
  <2>1. /\ chan.queue = << >>
        /\ LineGamestates(Line, cl.gamestateMessageNum) /\ LineKept(Line, cg)
        /\ cl.gamestateAck = "acked" => cl.gamestateMessageNum <= cg.serverMessageSequence
    BY DEF IInv, KeptInv
  <2>2. n <= cl.gamestateMessageNum
    BY <1>1, <2>1 DEF LineGamestates, n
  <2>3. cl.gamestateAck # "acked" /\ cl.state # "active"
    <3>1. cl.gamestateAck # "acked"
      BY <1>1, <1>6, <2>1, <2>2 DEF n
    <3> QED
      BY <3>1 DEF IInv, MapInv
  <2>4. RepliesKept(toServer, cg', cl.gamestateMessageNum)
    <3>1. \A i \in 1 .. Len(toServer) : Acks(toServer[i]) < cl.gamestateMessageNum
      <4>1. \A i \in 1 .. Len(toServer) : Acks(toServer[i]) <= cg.serverMessageSequence
        BY DEF IInv, NumberInv, ReplyNumbers
      <4> QED
        BY <1>1, <1>6, <1>7, <2>2, <4>1 DEF n
    <3> QED
      BY <3>1 DEF RepliesKept
  <2>5. LineGamestates(Line', cl.gamestateMessageNum) /\ LineKept(Line', cg')
    BY <1>1, <1>3, <2>1, LineCut, SnapshotsCut
  <2> QED
    BY <2>1, <2>3, <2>4, <2>5
<1> QED
  BY <1>5, <1>8, <1>9, <1>10, <1>11 DEF IInv

(***************************************************************************)
(* CL_ParseSnapshot keeps the invariant.                                   *)
(***************************************************************************)
LEMMA ParseSnapshotKeeps ==
  ASSUME IInv, CL_ParseServerMessage, Snapshot(Head(toClient))
  PROVE  IInv'
<1> DEFINE m == Head(toClient)
           n == NumberOf(m)
<1>1. /\ m \in ServerMessage /\ m = Line[1] /\ 1 \in 1 .. Len(Line) /\ n \in Nat
      /\ cg.serverMessageSequence < n /\ Snapshot(m)
      /\ Carries(m, built) /\ Since(New(m), cg.serverId)
  BY ArrivedParts DEF CL_ParseServerMessage
<1>2. /\ UNCHANGED <<svs, serverId, cl, chan, toServer>>
      /\ UNCHANGED <<built, queued>>
      /\ toClient # << >> /\ toClient' = Tail(toClient)
      /\ cg' = [CL_ParseSnapshot(cg, m) EXCEPT !.serverMessageSequence = m.sequence]
  BY DEF CL_ParseServerMessage, Snapshot
<1>3. Cut(Line, Line')
  BY <1>2, LineShortened DEF IInv
<1> HIDE DEF m, n
<1>4. PICK valid \in BOOLEAN : \E newSnap : Read(cg, cg', n, valid, newSnap)
  BY <1>1, <1>2, ReadEffect DEF n
<1>11. PICK newSnap : Read(cg, cg', n, valid, newSnap)
  BY <1>4
<1>5. cg' \in ClientType /\ cg'.serverId = cg.serverId /\ cg'.serverMessageSequence = n
  BY <1>11 DEF Read
<1>6. /\ TypeOK' /\ StorageInv(svs, serverId)' /\ NumberInv' /\ BuiltInv' /\ FramesInv'
      /\ AcknowledgedInv'
      /\ Reset' = Reset
  BY <1>2, <1>5, ArrivalKeeps DEF m, n
<1>7. ClientInv' /\ \A k \in Int : Kept(cg, k) => Kept(cg', k)
  <2>1. Built(built, n) /\ Since(built[n], cg.serverId)
    BY <1>1 DEF Carries, New, n
  <2> QED
    BY <1>1, <1>2, <1>11, <2>1, ReadKeeps
<1>8. MapInv'
  BY <1>2, <1>3, <1>5, LineCut DEF IInv, MapInv
<1>9. SnapshotsInv'
  BY <1>2, <1>3, <1>5, SnapshotsCut DEF IInv, SnapshotsInv
<1>10. KeptInv'
  <2> SUFFICES ASSUME ~queued
               PROVE  /\ chan.queue = << >>
                      /\ LineGamestates(Line', cl.gamestateMessageNum)
                      /\ LineKept(Line', cg')
                      /\ cl.gamestateAck = "acked" =>
                            /\ cl.gamestateMessageNum <= n
                            /\ RepliesFrom(toServer, cl.gamestateMessageNum)
                      /\ RepliesKept(toServer, cg', cl.gamestateMessageNum)
                      /\ cl.state = "active" => Reset \/ Kept(cg', cl.deltaMessage)
    BY <1>2, <1>5, <1>6 DEF KeptInv
  <2>1. /\ chan.queue = << >>
        /\ LineGamestates(Line, cl.gamestateMessageNum) /\ LineKept(Line, cg)
        /\ cl.gamestateAck = "acked" =>
              /\ cl.gamestateMessageNum <= cg.serverMessageSequence
              /\ RepliesFrom(toServer, cl.gamestateMessageNum)
        /\ RepliesKept(toServer, cg, cl.gamestateMessageNum)
        /\ cl.state = "active" => Reset \/ Kept(cg, cl.deltaMessage)
    BY DEF IInv, KeptInv
  <2>2. cg.serverMessageSequence \in Nat /\ cl.gamestateMessageNum \in Int /\ cl.deltaMessage \in Int
        /\ toServer \in Seq(ReplyType)
    BY Types DEF IInv, ClientType, SlotType
  <2>3. LineGamestates(Line', cl.gamestateMessageNum) /\ LineKept(Line', cg)
    BY <1>3, <2>1, LineCut, SnapshotsCut
  <2>4. LineKept(Line', cg')
    <3>1. \A i \in 1 .. Len(Line') : Snapshot(Line'[i]) /\ Delta(Line'[i]) => OldNumber(Line'[i]) \in Int
      BY <1>9, Numbers DEF SnapshotsInv, LineSnapshots, Carries, Built
    <3> QED
      BY <1>7, <2>3, <3>1 DEF LineKept
  <2>5. RepliesKept(toServer, cg', cl.gamestateMessageNum)
    <3>1. \A i \in 1 .. Len(toServer) : Acks(toServer[i]) \in Int
      BY <2>2, ReplyParts
    <3> QED
      BY <1>7, <2>1, <3>1 DEF RepliesKept
  <2>6. cl.gamestateAck = "acked" => cl.gamestateMessageNum <= n
    BY <1>1, <2>1, <2>2
  <2> QED
    BY <1>7, <2>1, <2>2, <2>3, <2>4, <2>5, <2>6
<1> QED
  BY <1>6, <1>7, <1>8, <1>9, <1>10 DEF IInv

(***************************************************************************)
(* Init has nothing built, nothing sent and nothing received.              *)
(***************************************************************************)
LEMMA InitLemma == Init => IInv
<1> SUFFICES ASSUME Init PROVE IInv
  OBVIOUS
<1>1. /\ svs = SV_InitSnapshotStorage /\ serverId = 1
      /\ cl.state = "connected" /\ cl.gamestateAck = "init" /\ cl.gamestateMessageNum = -1
      /\ \A i \in 0 .. PACKET_BACKUP - 1 : cl.frames[i] = NoFrame
      /\ cl \in SlotType
  <2> DEFINE frames == [i \in 0 .. PACKET_BACKUP - 1 |-> NoFrame]
  <2>1. NoFrame \in FrameType
    BY DEF NoFrame, FrameType
  <2>2. frames \in [0 .. PACKET_BACKUP - 1 -> FrameType]
        /\ \A i \in 0 .. PACKET_BACKUP - 1 : frames[i] = NoFrame
    BY <2>1
  <2>3. cl = [state |-> "connected", gamestateAck |-> "init", gamestateMessageNum |-> -1,
              deltaMessage |-> 0, frames |-> frames]
    BY DEF Init
  <2> HIDE DEF frames, NoFrame
  <2> QED
    BY <2>2, <2>3 DEF Init, SlotType
<1>2. /\ chan \in ChanType /\ toClient = << >> /\ chan.sending = NoMessage /\ chan.queue = << >>
      /\ chan.outgoingSequence = 1
  BY DEF Init, ChannelInit, ChanType
<1>3. Line = << >> /\ NextNumber = 1 /\ toServer = << >> /\ queued = FALSE
  BY <1>2 DEF Line, NextNumber, Init
<1>4. /\ cg \in ClientType /\ cg.serverId = 0 /\ cg.serverMessageSequence = 0
      /\ cg.snap.messageNum = 0 /\ ~cg.snap.valid
      /\ \A i \in 0 .. PACKET_BACKUP - 1 : ~cg.snapshots[i].valid /\ cg.snapshots[i].numEntities = 0
  BY ClearedParts DEF Init
<1>5. /\ built \in [1 .. MaxSequence -> Content]
      /\ \A n \in 1 .. MaxSequence : built[n].ps = 0 /\ built[n].ents = << >>
  <2>1. NoContent \in Content /\ NoContent.ps = 0 /\ NoContent.ents = << >>
    BY DEF NoContent, Content
  <2>2. built = [n \in 1 .. MaxSequence |-> NoContent]
    BY DEF Init
  <2> HIDE DEF NoContent
  <2> QED
    BY <2>1, <2>2
<1>6. StorageInv(svs, serverId)
  BY <1>1, NewStorageSound
<1>7. TypeOK
  <2>1. Len(Entities) \in Nat /\ 1 \in 1 .. Len(Entities)
    BY SnapshotsAssumption
  <2>2. svs \in StorageType
    BY <1>6 DEF StorageInv, StorageShape
  <2>3. toClient \in Seq(ServerMessage) /\ toServer \in Seq(ReplyType)
    <3>1. \A S : << >> \in Seq(S)
      OBVIOUS
    <3> QED
      BY <1>2, <1>3, <3>1
  <2>4. queued \in BOOLEAN
    BY <1>3
  <2> QED
    BY <1>1, <1>2, <1>4, <1>5, <2>1, <2>2, <2>3, <2>4, Types
<1>8. NumberInv /\ MapInv
  BY <1>1, <1>2, <1>3, <1>4 DEF NumberInv, SendingNumbered, LineNumbers, ReplyNumbers, MapInv,
                               LineMaps, ReplyMaps, RepliesOf
<1>9. BuiltInv /\ FramesInv
  <2>1. BuiltInv
    BY <1>1, <1>5, StorageSizes DEF BuiltInv
  <2>2. FramesInv
    <3>1. \A n : ~Built(built, n)
      BY <1>5, Numbers DEF Built
    <3>2. \A i \in 0 .. PACKET_BACKUP - 1 : cl.frames[i].ps = 0
      BY <1>1 DEF NoFrame
    <3> QED
      BY <3>1, <3>2 DEF FramesInv
  <2> QED
    BY <2>1, <2>2
<1>10. AcknowledgedInv /\ SnapshotsInv
  BY <1>1, <1>3 DEF AcknowledgedInv, SnapshotsInv, RepliesBuilt, LineSnapshots
<1>11. ClientInv
  BY <1>4, StorageSizes DEF ClientInv
<1>12. KeptInv
  BY <1>1, <1>2, <1>3 DEF KeptInv, LineGamestates, LineKept, RepliesKept
<1> QED
  BY <1>6, <1>7, <1>8, <1>9, <1>10, <1>11, <1>12 DEF IInv

(***************************************************************************)
(* Every step keeps the invariant.                                         *)
(***************************************************************************)
LEMMA StepLemma == IInv /\ [Next]_vars => IInv'
<1> SUFFICES ASSUME IInv, [Next]_vars PROVE IInv'
  OBVIOUS
<1>1. CASE SV_SendOthersSnapshots
  BY <1>1, SendOthersKeeps
<1>2. CASE \E size \in Sizes : SV_SendClientSnapshot(size)
  BY <1>2, SendSnapshotKeeps
<1>3. CASE SV_TransmitNextFragment
  BY <1>3, FragmentKeeps
<1>4. CASE SV_SpawnServer
  BY <1>4, SpawnServerKeeps
<1>5. CASE \E limited, csUpdated \in BOOLEAN, size \in Sizes :
              SV_ExecuteClientMessage(limited, size, csUpdated)
  BY <1>5, ExecuteKeeps
<1>6. CASE CL_ParseServerMessage
  <2>1. Head(toClient) \in ServerMessage
    BY <1>6, ArrivedParts DEF CL_ParseServerMessage
  <2>2. Gamestate(Head(toClient)) \/ Snapshot(Head(toClient))
    BY <2>1, MessageParts
  <2> QED
    BY <1>6, <2>2, ParseGamestateKeeps, ParseSnapshotKeeps
<1>7. CASE \E move \in BOOLEAN : CL_WritePacket(move)
  BY <1>7, WritePacketKeeps
<1>8. CASE LoseToClient
  BY <1>8, LoseToClientKeeps
<1>9. CASE LoseToServer
  BY <1>9, LoseToServerKeeps
<1>10. CASE UNCHANGED vars
  BY <1>10, StutterKeeps
<1> QED
  BY <1>1, <1>2, <1>3, <1>4, <1>5, <1>6, <1>7, <1>8, <1>9, <1>10 DEF Next

-----------------------------------------------------------------------------

(***************************************************************************)
(* The inductive invariant holds of every reachable state.                 *)
(***************************************************************************)
THEOREM Inductive == Spec => []IInv
<1>1. Init => IInv
  BY InitLemma
<1>2. IInv /\ [Next]_vars => IInv'
  BY StepLemma
<1> QED
  BY <1>1, <1>2, PTL DEF Spec

(***************************************************************************)
(* Every variable has its type: no slot, place or count of svs, cl and cg  *)
(* is ever out of its range.                                               *)
(***************************************************************************)
THEOREM TypeCorrect == Spec => []TypeOK
<1>1. IInv => TypeOK
  BY DEF IInv
<1> QED
  BY <1>1, Inductive, PTL

(***************************************************************************)
(* SV_BuildCommonSnapshot never overwrites a frame that still counts as    *)
(* valid, and loses or counts twice no place of the ring.                  *)
(***************************************************************************)
THEOREM StorageIsSound == Spec => []StorageSound
<1>1. IInv => StorageSound
  BY DEF IInv, StorageInv, StorageSound
<1> QED
  BY <1>1, Inductive, PTL

(***************************************************************************)
(* cgame gets what was built: the slot for a number within reach holds the *)
(* snapshot of just that number.                                           *)
(***************************************************************************)
LEMMA BuiltForCgame == IInv => SnapshotsAsBuilt
<1> SUFFICES ASSUME IInv, NEW n \in 1 .. cg.snap.messageNum, CL_GetSnapshot(n)
             PROVE  ClientContent(cg, cg.snapshots[Slot(n)]) = built[n]
  BY DEF SnapshotsAsBuilt
<1> DEFINE snap == cg.snapshots[Slot(n)]
           newest == cg.snap.messageNum
<1>1. newest \in Nat /\ n \in Int /\ n <= newest /\ Slot(n) \in 0 .. PACKET_BACKUP - 1
  <2>1. newest \in Nat
    BY Types DEF IInv, ClientType, ClientSnap
  <2> QED
    BY <2>1, SlotIn
<1>2. snap \in ClientSnap
  BY <1>1, Types DEF IInv, ClientType
<1>3. /\ newest - n < PACKET_BACKUP /\ snap.valid
      /\ cg.parseEntitiesNum - snap.parseEntitiesNum < MAX_PARSE_ENTITIES
  BY DEF CL_GetSnapshot
<1>4. SnapInv(snap, Slot(n), cg, built)
  BY <1>1, <1>3 DEF IInv, ClientInv
<1> HIDE DEF snap, newest
<1>5. /\ Slot(snap.messageNum) = Slot(n)
      /\ snap.messageNum <= newest /\ newest - snap.messageNum < PACKET_BACKUP
      /\ ClientContent(cg, snap) = built[snap.messageNum]
  BY <1>3, <1>4 DEF SnapInv, newest
<1>6. snap.messageNum = n
  <2> DEFINE k == snap.messageNum
  <2>1. k \in Nat
    BY <1>2 DEF ClientSnap
  <2> HIDE DEF k
  <2>2. Slot(k) = Slot(n) /\ k <= newest /\ newest - k < PACKET_BACKUP
    BY <1>5 DEF k
  <2>3. ~(k < n) /\ ~(n < k)
    <3>1. k < n => n - k < PACKET_BACKUP
      BY <1>1, <2>1, <2>2, Numbers
    <3>2. n < k => k - n < PACKET_BACKUP
      BY <1>1, <1>3, <2>1, <2>2, Numbers
    <3> QED
      BY <1>1, <2>1, <2>2, <3>1, <3>2, SlotsOfSnapshotsDiffer
  <2> QED
    BY <1>1, <2>1, <2>3 DEF k
<1> QED
  BY <1>5, <1>6 DEF snap

(***************************************************************************)
(* The entities parsed since a snapshot that a delta may be from leave     *)
(* room for one more.                                                      *)
(***************************************************************************)
LEMMA RoomForOneMore ==
  ASSUME NEW k \in Nat, k < PACKET_BACKUP
  PROVE  k * MAX_SNAPSHOT_ENTITIES <= MAX_PARSE_ENTITIES - MAX_SNAPSHOT_ENTITIES
<1>1. k * MAX_SNAPSHOT_ENTITIES + MAX_SNAPSHOT_ENTITIES <= MAX_PARSE_ENTITIES
  BY Numbers, Longer DEF MAX_PARSE_ENTITIES
<1>2. k * MAX_SNAPSHOT_ENTITIES \in Nat
  BY Numbers
<1> QED
  BY <1>1, <1>2, ParseSizes, Numbers

(***************************************************************************)
(* A delta that arrives is from a snapshot the client has, as long as no   *)
(* gamestate was queued.                                                   *)
(***************************************************************************)
LEMMA ArrivingUsable == IInv => DeltasUsable
<1> SUFFICES ASSUME IInv, toClient # << >>, Snapshot(Head(toClient)), Delta(Head(toClient)), ~queued
             PROVE  DeltaUsable(cg, OldNumber(Head(toClient)))
  BY DEF DeltasUsable, Snapshot, Delta, OldNumber
<1> DEFINE m == Head(toClient)
           old == OldNumber(m)
           back == m.lastframe
           last == cg.serverMessageSequence
<1>1. m = Line[1] /\ 1 \in 1 .. Len(Line) /\ m \in ServerMessage
  <2>1. toClient \in Seq(ServerMessage)
    BY Types DEF IInv
  <2>2. m = toClient[1] /\ 1 \in 1 .. Len(toClient) /\ m \in ServerMessage
    BY <2>1
  <2> QED
    BY <2>2, LineParts DEF IInv
<1> HIDE DEF m
<1>2. Snapshot(m) /\ Delta(m)
  BY DEF m
<1>3. Carries(m, built) /\ Kept(cg, old)
  BY <1>1, <1>2 DEF IInv, SnapshotsInv, LineSnapshots, KeptInv, LineKept
<1>4. last < NumberOf(m)
  BY <1>1 DEF IInv, NumberInv, LineNumbers
<1>5. /\ NumberOf(m) \in Nat /\ back \in Nat /\ back < PACKET_BACKUP - 3
      /\ old = NumberOf(m) - back /\ Built(built, old)
  BY <1>1, <1>2, <1>3, MessageParts DEF Carries, NumberOf, OldNumber
<1>6. /\ cg.snap.messageNum \in Nat /\ last \in Nat /\ cg.snap.messageNum <= last
      /\ cg.parseEntitiesNum \in Nat
  BY Types DEF IInv, ClientType, ClientSnap, ClientInv
<1>7. old \in Nat
  BY <1>5, Numbers DEF Built
<1> DEFINE number == NumberOf(m)
<1> HIDE DEF old, back, last, number
<1>8. number \in Nat /\ last < number /\ old = number - back
      /\ back \in Nat /\ back < PACKET_BACKUP - 3
  BY <1>4, <1>5 DEF number
<1>9. cg.snap.messageNum - old < PACKET_BACKUP
  BY <1>6, <1>7, <1>8, Numbers
<1>10. Has(cg, old) /\ Slot(old) \in 0 .. PACKET_BACKUP - 1
  BY <1>3, <1>7, <1>9, SlotIn DEF Kept
<1> DEFINE snap == cg.snapshots[Slot(old)]
<1>11. /\ snap \in ClientSnap /\ snap.valid /\ snap.messageNum = old
       /\ SnapInv(snap, Slot(old), cg, built)
  BY <1>10, Types DEF IInv, ClientType, ClientInv, Has
<1>12. snap.parseEntitiesNum \in Nat
  BY <1>11 DEF ClientSnap
<1>13. /\ old <= cg.snap.messageNum
       /\ cg.parseEntitiesNum - snap.parseEntitiesNum <= (last - old + 1) * MAX_SNAPSHOT_ENTITIES
  BY <1>11 DEF SnapInv, last
<1>14. last - old + 1 \in Nat /\ last - old + 1 < PACKET_BACKUP
  BY <1>6, <1>7, <1>8, <1>13, Numbers
<1> DEFINE k == last - old + 1
           parsed == snap.parseEntitiesNum
<1>15. k * MAX_SNAPSHOT_ENTITIES <= MAX_PARSE_ENTITIES - MAX_SNAPSHOT_ENTITIES
  BY <1>14, RoomForOneMore
<1>16. k * MAX_SNAPSHOT_ENTITIES \in Int
  BY <1>14, Numbers
<1> HIDE DEF k
<1>17. cg.parseEntitiesNum - parsed <= MAX_PARSE_ENTITIES - MAX_SNAPSHOT_ENTITIES
  <2> DEFINE p == k * MAX_SNAPSHOT_ENTITIES
  <2>1. cg.parseEntitiesNum - parsed <= p /\ p \in Int
    BY <1>13, <1>16 DEF k
  <2>2. p <= MAX_PARSE_ENTITIES - MAX_SNAPSHOT_ENTITIES
    BY <1>15
  <2> HIDE DEF p, parsed
  <2>3. parsed \in Nat
    BY <1>12 DEF parsed
  <2> QED
    BY <1>6, <2>1, <2>2, <2>3, ParseSizes
<1> QED
  BY <1>11, <1>17 DEF DeltaUsable, old, m

(***************************************************************************)
(* CL_GetSnapshot hands cgame only what SV_BuildClientSnapshot built,      *)
(* whatever was lost, queued, overwritten or wiped at either end.          *)
(***************************************************************************)
THEOREM AsBuilt == Spec => []SnapshotsAsBuilt
  BY BuiltForCgame, Inductive, PTL

(***************************************************************************)
(* CL_ParseSnapshot never meets a delta from a frame the client does not   *)
(* have, unless a gamestate had to wait in the queue.                      *)
(***************************************************************************)
THEOREM Usable == Spec => []DeltasUsable
  BY ArrivingUsable, Inductive, PTL
=============================================================================
