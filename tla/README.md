# Verification of threecore

threecore is a Quake III engine (a fork of Quake3e) in C: a game server, a
client, and the layers both stand on.  Its own hard logic is how a server and
its clients stay in step over datagrams: a sequenced channel with
fragmentation, reliable commands in rings on top of it, the gamestate
handshake, delta-compressed snapshots, and a table of client slots whose
members can drop each other.  This directory holds TLA+ modules of that logic,
the TLC configurations that check them and proofs that TLAPS checks.

All paths below are relative to `src/code/`.

## 1. Inventory

| component | state | operations | talks to |
|---|---|---|---|
| sequenced channel (`qcommon/net_chan.c`, `server/sv_net_chan.c`, `client/cl_net_chan.c`) | `netchan_t` at both ends, per-client send queue, delayed packets, loopback rings | setup, transmit, transmit next fragment, enqueue, process | everything below |
| reliable server commands (`server/sv_main.c`, `sv_snapshot.c`, `client/cl_parse.c`, `cl_cgame.c`) | ring, `reliableSequence`, `reliableAcknowledge`; at the client `serverCommands`, `serverCommandSequence`, `lastExecutedServerCommand` | add, (re)send, parse, execute, acknowledge, overflow | snapshots carry them; drops issue them |
| reliable client commands (`client/cl_main.c`, `cl_input.c`, `server/sv_client.c`) | the mirror image | add, write, execute, flood protection | carried by every client message |
| client slots (`server/sv_client.c`, `sv_main.c`, `sv_init.c`, `sv_bot.c`) | `svs.clients`: `CS_FREE/ZOMBIE/CONNECTED/PRIMED/ACTIVE` | connect, drop, timeouts, bots, map change, shutdown | game VM callbacks, server commands |
| gamestate and configstrings (`server/sv_client.c`, `sv_init.c`, `client/cl_parse.c`) | `gamestateAck`, `gamestateMessageNum`, `csUpdated` | send, repeat, acknowledge, enter world, set configstring | channel, server commands |
| snapshots (`server/sv_snapshot.c`, `client/cl_parse.c`) | per-client frames, shared storage ring, client frame ring | build, choose the delta frame, write, parse | channel acknowledgements |
| rate limiting and challenges (`server/sv_main.c`, `sv_client.c`) | leaky buckets in hash chains, time-windowed challenges | limit, drop, restore; get, verify | connectionless packets |
| client connection (`client/cl_main.c`) | `cls.state` (`CA_*`), retry timers | connect, challenge, response, disconnect, timeouts | channel, gamestate |
| command buffer and events (`qcommon/cmd.c`, `common.c`) | `cmd_text`, event queue | add, insert, execute, wait; queue, get | all of it, each frame |
| zone and hunk memory (`qcommon/common.c`) | ring of blocks, two hunk ends | malloc, free, clear, mark | everywhere |
| message coding (`qcommon/msg.c`, `huffman*.c`) | none | read and write bits, deltas | all messages |
| others | VM, file system, cvars, collision, filters, world, renderer, sound, botlib, platform code, vendored code | | |

Everything runs in one thread (`Com_Frame`): what interleaves is the two ends
of a connection, the datagrams between them, timers, and callbacks into the
game VM that come back into the engine.

What is hard to get right, and what makes each component correct:

- *Channel.*  Datagrams are lost, duplicated, reordered, in the middle of a
  message too; a message handed over while another is being fragmented has to
  wait.  Correct when what is delivered is whole, in order, at most once, and
  the queue drains.
- *Server commands.*  Each message repeats what is unacknowledged, and either
  side's messages get lost.  Correct when the client executes what was issued,
  in order, before any snapshot built later, and nothing is overwritten before
  it is acknowledged.
- *Slots.*  A departure is broadcast, the broadcast can overflow another
  client's ring, which is a departure.  Correct when the recursion ends, the
  game hears of each arrival and departure once, and nobody in the game lives
  beyond its ring.
- *Gamestate.*  Gamestates are repeated, and acknowledgements of other messages
  arrive around them.  Correct when a client enters only the map it has loaded,
  and then has all configstrings.
- *Snapshots.*  A delta refers to an old frame that both sides must still hold:
  the server in a storage that all clients share and that runs full, the client
  in rings that a gamestate wipes.  Correct when cgame gets what was built.
- *Client commands.*  Commands are repeated until acknowledged, moves a few
  times and never acknowledged; the flood protection stalls in between.
  Correct when commands are received as given and before later moves, and only
  what the flood protection may ignore is ignored.
- *Connecting.*  The answer to a request may be late, doubled or lost, the
  challenge expires, and a server that punishes silence sees silence when
  messages are lost.  Correct when a client that is heard gets in in time and
  nothing that arrives late harms a standing connection.
- *Command buffer.*  Lines add and insert lines while they run, and wait.
  Correct when every line runs once, in order, unless an overflow that is
  reported loses it, or an error, which drops them all.
- *Rate limiting.*  Intrusive lists that are relinked while walked; a shared
  fallback bucket.

## 2. Modules

| module | models | composed of |
|---|---|---|
| `Netchan` | both halves of a `netchan_t` as operators: `Netchan_TransmitNextFragment`, `Netchan_Transmit`, `Netchan_Process` | |
| `LossyChannel` | what a channel promises: messages come out whole, in order, at most once | |
| `ServerNetchan` | the server-to-client direction: `SV_Netchan_Transmit`, its queue, the network, `CL_Netchan_Process` | `Netchan`; implements `LossyChannel` |
| `MCServerNetchan` | the code's constants and the lengths worth trying | `ServerNetchan` |
| `ServerNetchanProofs` | theorems about `ServerNetchan` | `ServerNetchan` |
| `ServerCommands` | reliable server commands of one connection, from `SV_AddServerCommand` to `CL_GetServerCommand` | uses what `LossyChannel` promises |
| `RingLemmas` | facts about rings and messages in flight that several proofs need | |
| `ServerCommandsProofs` | theorems about `ServerCommands` | `ServerCommands`, `RingLemmas` |
| `ClientSlots` | `svs.clients`: connect, drop and its cascades, timeouts, bots, map change, shutdown | |
| `MessageChannel` | the server's messages to one client as whole messages: under way, queued, in flight | uses what `LossyChannel` promises |
| `GamestateAck` | the gamestate, its acknowledgement, configstrings | `MessageChannel` |
| `GamestateAckProofs` | theorems about `GamestateAck` | `GamestateAck`, `RingLemmas` |
| `SnapshotStorage` | the common snapshots that all clients share, as operators on the storage | |
| `Snapshots` | delta-compressed snapshots of one client, from `SV_BuildClientSnapshot` to `CL_GetSnapshot` | `MessageChannel`, `SnapshotStorage` |
| `MCSnapshots` | the numbers of entities in each frame of two maps | `Snapshots` |
| `SnapshotsProofs` | theorems about `Snapshots` and `SnapshotStorage` | `Snapshots`, `RingLemmas` |
| `ClientRequests` | what a client is promised: commands received as given, moves at most once and never before an earlier command | |
| `ClientCommands` | reliable commands and moves of one client, flood protection, overflow, disconnect | implements `ClientRequests` |
| `ClientCommandsProofs` | theorems about `ClientCommands` | `ClientCommands`, `RingLemmas` |
| `Connection` | the handshake of one address with one slot: challenges, retransmissions, reconnect limit, silent drops, leaky bucket | |
| `AdmissionProofs` | theorems about `ClientSlots` and `Connection` | `ClientSlots`, `Connection`, `RingLemmas` |
| `CommandStream` | what the command buffer promises: lines run once, in order, after waits | |
| `CommandBuffer` | `cmd_text`, `cmd_wait` and the order of `Com_Frame` | implements `CommandStream` |
| `CommandBufferProofs` | theorems about `CommandBuffer` | `CommandBuffer`, `RingLemmas` |

### Netchan and ServerNetchan

A message is its identity and its length; a datagram carries the chunk
`[msg, start, len]` and the header fields the receiver reads, after the 16-bit
conversion of the offset and the length (`Short`, from `MSG_WriteShort` and the
sign extension of `MSG_ReadShort`).  `out` is the sending half
(`outgoingSequence`, `unsentFragments`, `unsentFragmentStart`, and for
`unsentBuffer` and `unsentLength` the message), `in` the receiving half
(`incomingSequence`, `fragmentSequence`, `fragmentLength`, and for
`fragmentBuffer` the sequence of chunks copied into it), `queue` is
`netchan_start_queue`.  `net` only grows: any datagram ever sent may arrive at
any time, any number of times, or never, which covers loss, duplication and
reordering.  `accepted`, `sent` and `delivered` are history.

The refinement mapping to `LossyChannel` is the identity on `accepted` and
`delivered`; sending, queueing and receiving without delivering are stutters.

### ServerCommands

`cl` is the `client_t`, `clc` the client's side; `toClient` and `toServer` are
messages in flight.  Taking message *i* discards the ones before it, which is
the channel's loss (`LossyChannel` allows exactly this).  A snapshot message
carries the pending commands read from the ring at the time, so a ring slot
overwritten too early shows.  `Overflows` is the `==` test of `sv_main.c:87`;
the command that overflows takes a sequence number but no slot, and the two
commands `SV_DropClient` adds go beyond the limit, as in the code.

### ClientSlots

Each slot has its state, whether a bot holds it, the number of outstanding
commands, the kind of the last command stored, whether the game knows of its
holder (`joined`), and how many times the game was told of its going in the last
step (`disconnects`); a step finds the table as `Found`, with these counts at
nothing.  `SV_AddServerCommand`, `SV_SendServerCommand` and
`SV_DropClient` call each other as in the code, so one step is a whole cascade:
each is an operator from one table to the next, with what an overflow does as its
parameter `drop`, and `Overflow` is the one that drops, defined by recursion on
how deep drops may nest.  That is no deeper than there are slots, since a ring
that has overflowed does not overflow again before its client acknowledges
something.  `speaks` is the game's choice to broadcast something when told of a
departure.  A client that connects again while its slot is connected is such a
departure too (`Reconnected`): the game is told before the slot is zeroed, and
what it broadcasts may drop the slot's old holder first, so the count of that
step is kept when the slot is overwritten.

### GamestateAck

One configstring stands for all, as the number of its latest change.  A message
is `small` (leaves at once) or `large` (stays under way until its last
fragment), so a gamestate can be queued behind another message as in
`SV_Netchan_Transmit`.  A message's number is the channel's at the moment it
begins to leave; `gamestateMessageNum` is the channel's at the moment the
gamestate is built.  The channel itself is `MessageChannel`, which `Snapshots`
shares.

### SnapshotStorage and Snapshots

`svs` is the storage: `snapFrames` (start and count; the pointers `ents` follow
from them), `snapshotEntities`, `freeStorageEntities`,
`currentStoragePosition`, `snapshotFrame`, `lastValidFrame`.  An entity state is
the map, frame and number it was written for, so that an overwritten one shows.
`cl.frames` hold places in the storage, as the code's pointers do: what they
lead to may change under them, and after a map change it does.

A snapshot message carries what a decoder can recover from its bits: which
message back it was taken from, the content encoded (`new`), and the content it
was encoded against (`base`).  Applied to that content it gives `new`; applied
to another, `Garbage`.  `cg` is the client's `clientActive_t`: `snap`,
`snapshots`, the ring `parseEntities`, all wiped by a gamestate.

A client gets snapshots with entities from its gamestate on, since that sets its
`gentity` (`sv_client.c:636`); until it is in the game they are full ones, no
deltas (`sv_snapshot.c:130`).  One whose gamestate was lost gets those of the new
map and reads them as of the old.  Other clients are the common snapshots they
cause.

### ClientRequests and ClientCommands

`clc` is the client, with the ring of commands and `outPackets`; `cl` the
`client_t`.  One step of `SV_ExecuteClientMessage` reads a whole message:
acknowledgement, commands up to the first that stalls or disconnects, then the
moves, which are read only if nothing before them ended the message.  Where the
flood protection stalls is a choice, and so is which game commands it ignores: of
a client that has just moved, it may count one as received and do nothing
(`Ignorable`, `sv_client.c:1050`).  The refinement mapping to `ClientRequests` is
the identity on five histories: the commands given, those received and those of
them ignored, the moves made and those carried out.  Moves are numbered; two
that get the same, clamped `serverTime`, of which the server carries out one, are
outside the model.

### Connection

One tick is a second.  A frame lasts milliseconds, so what is due is done before
the next tick, and every other order of events within a second is explored.
Datagrams carry the time they were sent; they arrive while they are no older
than `MaxDelay`, or are lost; requests may be doubled.  A challenge is the pair
of window number (16 bits) and parity, the server keeps none.  The bucket loses
one request a second, in `Tick`, where `SVC_RateLimit` works it out when asked.

### CommandStream and CommandBuffer

Text is a sequence of commands, each the number of its bytes, and newlines, so
the limit of the buffer is counted in bytes and a line may be cut between its
text and its newline.  `phase` is the place in `Com_Frame`; `calls` the calls of
`Cbuf_Execute` and of commands within each other, the innermost first.  A command
may add, insert, wait, run another command at once (`EXEC_NOW`, rcon,
`console.cmd`) or the buffer itself (`Com_ExecuteCfg` under `game_restart`; also
`EXEC_NOW` without text, which nothing calls), or end the frame with an error,
which empties the buffer (`Cbuf_Init`) and keeps the wait.  `ran`, `reported` and
`failed` only tell what the last step did.  The refinement mapping takes the lines
of the text (`LinesOf`) for `pending` and a missing last newline (`Unended`) for
`open`.  Commands that are run at once are none of the stream's lines: it only
sees that they may end a wait.

## 3. What the runs check

| run | bounds | shows |
|---|---|---|
| `ServerNetchan` | 4 messages of 100, 22300, 22301, 66901 bytes | integrity, order, complete sending, refinement, draining, readability of short messages |
| `ServerNetchanLong` | 1 message of 44599 or 44600 bytes | *violated*: 44600 bytes cannot be reassembled |
| `ServerCommands` | ring of 3, 6 commands, 2 messages in flight each way | exactly what was issued is executed, in order, before later snapshots, eventually |
| `ClientSlots` | 2 slots, ring of 3, at most 6 outstanding when a step begins | the game's view, who is told what, how far drops nest, players stay within the ring |
| `ClientSlotsBots` | the same | *violated*: a bot inherits its slot's outstanding commands |
| `ClientSlotsKick` | the same, no bots | *violated*: a client dropped at a full ring is disconnected twice |
| `GamestateAck` | 6 server messages, 3 configstring changes, 2 maps, 2 in flight | entry only on the loaded map; configstrings current unless a gamestate was queued |
| `GamestateAckLost` | 8 server messages, 3 changes, 1 map | *violated*: a queued gamestate that is lost counts as acknowledged |
| `Snapshots` | 8 server messages, 6 frames kept at either end, storage of 2 frames and 3 entities, 2 maps with 4 and 2 common snapshots, 1 message in flight each way | the storage loses nothing and overwrites nothing valid; cgame gets only what was built; deltas refer to snapshots the client has |
| `ClientCommands` | ring of 2, 3 commands and the disconnect, 3 moves, 2 moves a message, 1 repetition, 1 message in flight each way | refinement of `ClientRequests`, ignored commands included; neither side gives up on the other; moves survive `cl_packetdup` losses; a full ring drains |
| `Connection` | 18 seconds around the change of a window of 16, the code's limits (3 s retransmission, 4 s silence, 10 requests), delays up to 1 s, requests doubled, 2 connects of the user, reconnect limit 3 s | connects in time unless something is lost; late and doubled connects reset nothing; the score of silent drops stays bounded |
| `CommandBuffer` | 12 bytes, commands of 2 and 3 bytes, waits up to 2 frames, 4 calls within each other (a line that runs the buffer, and its line) | refinement of `CommandStream`; the text never outgrows the buffer |

Why these bounds are enough.  The lengths are the ones at which the code
branches: below a fragment, exactly one (an empty last fragment), just over,
and past 16 bits.  Four messages let two wait in the queue behind one under way
while an old one's datagrams still arrive.  A ring of three with six commands
wraps twice and overflows; the two-slot table has a slot that departs and a
bystander, and a third slot (checked separately with a ring of two) shows
nothing new.  Two maps and three changes give a gamestate of the old map, one
before and one after a change.  In `Snapshots` the first map fills the ring of
frames before the storage and the second the storage before the ring; six
frames kept are the fewest at which a delta may be taken from more than one
message back, and eight messages wrap them.  In `ClientCommands` three commands
overflow and wrap the ring, the second of them can stall, and three moves do not
fit into one message.  `Connection` starts 3 seconds before a challenge window
ends and runs for 18: time for two attempts, for a silent drop and for its bucket
to run dry, and 7 seconds more than `ConnectsInTime` grants an attempt.  In
`CommandBuffer` lines of three and four bytes fill the buffer and leave any
remainder from none to two bytes.  `CHECK_DEADLOCK FALSE` is set where the bounds, time or
a shutdown stop the system.

The findings are in `PROJECT.json`; in short:

1. Messages of 2 * FRAGMENT_SIZE = 44600 bytes or more never arrive: the offset
   of the third fragment is negative when read back (`net_chan.c:360`), though
   `MAX_MSGLEN` is 262140.  `SV_SendClientGameState` may build such messages;
   the client then asks for the gamestate over and over.
2. A bot that takes over a free slot starts with the outstanding commands of
   its last holder, whether a player or a bot that was refused at a change of
   map (the run's trace) (`sv_bot.c:63`), possibly already beyond the point at
   which the `==` overflow test can fire.
3. A drop for any reason but an overflow (in the run's trace, by the new game at
   a change of map), at a ring that its own commands overflow, is entered a
   second time from these and calls `GAME_CLIENT_DISCONNECT` twice.  So does a
   reconnect (`sv_client.c:306`), if the game answers it with a broadcast that
   finds the client's ring full.  `DropsNested` states what does hold: it happens
   to no one else, a bystander or a client that overflows, and never three times.
4. A gamestate that is queued behind fragments is noted under the number of an
   earlier message (`sv_client.c:641`); the acknowledgement of that message
   then counts for it, and if it is lost the changes it carried stay unknown
   to the client.

Read but not run: `SV_FinalMessage` says "send it twice" and its first pass
makes every client a zombie, which the second pass skips; it then flushes the
delayed packets with `NET_FlushPacketQueue( 99999 )`, which by `net_chan.c:613`
flushes only packets that are 99999 ms overdue.

Also shown, without a run of their own; three of them contradict comments
(`cl_main.c:111`, `sv_main.c:1023`, `qcommon.h:459`):

- `DeltasUsable` needs the exception `queued`, for the reason of finding 4: the
  server takes the client to have read a gamestate it is yet to read, and
  encodes against snapshots that the gamestate then wipes.  The client asks for
  a full snapshot then, as it should (`cl_parse.c:239`), and `SnapshotsAsBuilt`
  holds all the same.
- "Also leave one slot open for the disconnect command" (`cl_main.c:111`): the
  test leaves none.  With MAX_RELIABLE_COMMANDS commands unacknowledged the
  disconnect overwrites the oldest, whose place in the message then repeats the
  disconnect.  `ClientRequests!LeaveEarly` allows what the
  code does, not what the comment says: the server leaves early, and the commands
  before are not carried out.
- `EstablishedKept` needs a reconnect limit longer than twice the time a
  datagram may be under way.  A connect that arrives later than
  `sv_reconnectlimit`, but in the window of its challenge or the next, zeroes the
  slot of a client in the game, which ignores the answer ("Dup connect").
- A client whose challenge has expired while it sends connects is refused for
  ever: `CL_CheckForResend` never goes back to asking for a challenge.  Only the
  user's next connect does.  `ConnectsInTime` counts no attempt of which a
  datagram was lost altogether.
- The bound of `ConnectsInTime` is tight: with one delay less it is violated.  The
  user disconnects while his first connect is under way and tries again at once;
  the old connect takes the slot, the next one comes too soon after it, the one
  after that finds the bucket full, because the slot was dropped as silent a
  moment before, and only the fourth is accepted.
- The "progressive multiplier" for silent clients (`sv_main.c:1023`) cannot
  progress: every silent drop is preceded by an accepted connect, which takes
  one off, so it never exceeds the number of slots the address holds.
- `qcommon.h:459` calls the command buffer one "that will grow as needed"; it has
  131072 bytes and drops what does not fit.  When only the newline of a console
  line does not fit, the next text runs into that line (`CommandStream` says so:
  a reported overflow leaves the line open).
- A frame that ends in ERR_DROP does not count for `wait` (`Cbuf_Wait` is at the
  end of `Com_Frame`), and though the error drops every pending line, the wait
  goes on and holds back what is typed next (`Cbuf_Init` leaves `cmd_wait`).

## 4. Fairness

`ServerNetchan` assumes weak fairness of the two halves of
`SV_Netchan_TransmitNextFragment`: `SV_SendQueuedMessages` walks all clients
whenever the server is idle and sends as soon as `SV_RateMsec` is 0, which it
becomes by the passing of time.  Nothing is assumed of the network there.
`ServerCommands` assumes that both ends keep sending (`SV_Frame`,
`CL_SendCmd`), that cgame works off commands each frame, and that not all
messages are lost for ever (a message in flight, or a later one, is received).
`ClientCommands` assumes weak fairness of sending at both ends (`CL_SendCmd`
every frame, `SV_Frame`), strong fairness of receiving at both ends (not every
message is lost), and at the server of receiving while the flood protection does
not stall: its bucket leaks with time, and a stalled command is repeated until it
is taken.  `ConnectsInTime` is a bound on time and needs no fairness, only that
what is due is done before a second passes.

## 5. What is proved

Every theorem is about the specification that the runs check, for all values of
its constants that the module's assumption admits.  But for the
command buffer, whose `TypeOK` is enough for both of its theorems, none of the
goals is inductive; each proofs module defines the inductive invariant `IInv` it
needs, shows that `Init` implies it and every action keeps it (a lemma per action
or group of actions), and draws the goals from it.  The invariants were checked by
TLC on the instances of the runs before they were proved.  `Spec => []TypeOK` is
the theorem `TypeCorrect` of each.  `AdmissionProofs` is about two specifications:
`IInv` and `SlotsTypeCorrect` are about `ClientSlots`, `HandshakeInv` and
`HandshakeTypeCorrect` about `Connection`.

| module | theorems |
|---|---|
| `ServerNetchanProofs` | `Integrity`, `Order`, `QueueOrder`, `Completeness`, `ShortMessagesReadable`, `Refinement` (`Spec => ImplementsLossyChannel`) |
| `ServerCommandsProofs` | `PendingIsKept`, `OrderKept`, `SnapshotsWait`, `NeverGivesUp`, `NoFalseAcknowledge`, `AcknowledgeGrows` |
| `AdmissionProofs` | `PlayersKeepWithinRing`, `GameKnows`, `EveryoneToldLast`, `OnlyDroppedTwice`; `ScoreBounded`, `NoReset`, `InTime` |
| `GamestateAckProofs` | `AcknowledgedMap`, `UpToDate` |
| `ClientCommandsProofs` | `NeverGivesUp`, `NoMoveLeftOut`, `CommandsAsGiven` (`Spec => ImplementsClientRequests`) |
| `SnapshotsProofs` | `StorageIsSound`, `AsBuilt`, `Usable` |
| `CommandBufferProofs` | `RunsAsGiven` (`Spec => ImplementsCommandStream`) |

*Channel.*  Assumed: `FRAGMENT_SIZE` in 1..32767, `MaxFragments` is the number of
full fragments in `MAX_MSGLEN`, the lengths are at most `MAX_MSGLEN`, and
`OffsetAssumption`: two fragment offsets that are the same after the 16-bit
conversion are the same offset.  TLC evaluates all of them for the code's
numbers.  The last is what makes finding 1 a loss of messages and not of their
integrity: with another FRAGMENT_SIZE (a divisor of 65536, say) a fragment could
be copied to the wrong place.  `IInv` adds to the goals: every datagram in `net`
is a fragment, of the right length and offset, of the message `sent` under its
sequence number, or of the message under way; the reassembly buffer holds
consecutive chunks of the one message sent as `fragmentSequence`, from offset 0
to `fragmentLength`; sequence numbers below `outgoingSequence` are those of
`sent`, whose identities increase, and the queue continues that order; what was
delivered has identities at most that of the message sent as `incomingSequence`.
The refinement adds that a delivery appends an accepted message with an identity
above the last one delivered.  `ShortMessagesReadable` needs the converse of
`Completeness` as well (`OnlyInv`: every datagram is one of its message's
packets): then the packets of a short message are known, one, or two with offsets
0 and `FRAGMENT_SIZE`, which fit in 16 bits, and reading them is followed step by
step.

*Server commands.*  Assumed: a ring of at least one slot.  Until an overflow both
rings hold the newest commands of the history, as many as they have slots
(`RingHolds`); this, and not the number pending, is what survives a slot being
written again.  Every message begins no later than the client expects and ends
with the last command issued when it was built (`Covers`), which is why a
snapshot never overtakes a command; acknowledgements in flight grow, from what
the server has seen to what the client has received.

*Client commands.*  The same for the other direction, with the one exception the
code makes: a message's first command may be the disconnect that found the ring
full (`AsGiven`).  `IgnoredInv` says that what was ignored was received, and that
a client in the game has moved: whoever has not is ignored nothing.  Of moves, `RepeatInv` says how far back `outPackets` leads and
that each message in flight goes on where any of the `cl_packetdup + 1` messages
before it ended, unless it is full.  The refinement goes action by action:
giving, making a move and what a message carries out, of which the last is a
sequence of steps of the model and one of `ClientRequests`.

*Client slots.*  Assumed: at least one slot, and a ring of at least one place.
The invariant says that players in the game have no more commands outstanding
than a ring holds, and that the game knows who is connected; bots are exempt from
the first (finding 2).  The work is in the cascades.  Seen from one
slot, any number of nested drops does one of two things (`Moves`): it leaves the
slot as it was but for more commands, or the slot's ring overflows, once, and the
slot leaves, told last (`Leaves`).  That a drop does this (`DropDeparts`) needs it
of the drops nested in it, so `Handles(drop, n)` says it of tables in which fewer
than `n` rings are still to overflow (`Live`), and `OverflowHandles` is by
induction on the depth of nesting: a ring that has overflowed is no longer live,
which is also why `maxclients` levels are enough and nothing is cut off.  The
loops over the slots, in broadcasts, at a change of map and at shutdown, go by
`LoopKeeps`.  A bystander's ring may be brought to its limit but not beyond it
without its being dropped, and a slot that has left is in no later cascade of the
step.  So only a slot that is dropped for a reason of its own, or disconnected by
its holder's reconnect (`ReconnectedSound`), can overflow while the game is being
told of it, and be disconnected twice (`AtMostTwice`).

*Connection.*  Assumed: the limits are positive, and time starts no later than it
ends.  `ScoreBounded` holds for all of them.  `NoReset` (`EstablishedKept`) has
the hypothesis `sv_reconnectlimit > 2 * MaxDelay`, without which it is false (see
section 3); it rests on `DelayInv`: a connect under way was sent no more than
`MaxDelay` before the connection it would reset.  `InTime` (`ConnectsInTime`) has
the hypotheses `TimeLimits`, which the code's 3, 3, 4 and 16 seconds and bucket of
10 meet for datagrams that take a second and arrive twice, the run's numbers; how
often the user tries, when, and for how long is free.  An invariant bounds a time
only if it tells how far an attempt has come: `CourseInv` does, phase by phase,
each phase being what was sent last and whether it is still under way (`Untaken`)
or has been answered.  A getchallenge that finds the bucket full can only be one
of the first two: the requests of earlier attempts are gone after one delay, and
the silent drop of a slot that an old connect took fills the bucket by the second
retransmission at the latest, since that connect was sent before the attempt
began.  From then on so little is under way that the bucket cannot fill again
(`Few`), the reconnect limit has passed, and a challenge made since the attempt
began is still valid (`FreshValid`): a connect sent after the second
retransmission is accepted.

*Gamestate.*  What is under way is in order of maps and of commands, from the
client's messages back to the server's queue (`MapInv`, `CommandInv`), numbers
are in order too (`NumberInv`), and unless a gamestate was queued, the client has
loaded the commands, and the configstrings but for what `csUpdated` stands for,
once an acknowledgement counts (`PrimedInv`), before it is in the game.

*Snapshots.*  Assumed: a single frame fits into the storage, a snapshot holds the
entities of any frame, and there is a map.  `StorageInv` sees the storage as a
ring: from `currentStoragePosition` on there is first the free room, then the
valid frames, the oldest first, each where the room that its release would leave
ends (`Room`).  That is why frames released from the oldest on leave one stretch
of room, and why what is written into it touches no valid frame.  Upon it,
`FramesInv` says that a client's frame leads to what was built for it as long as
its common snapshot is valid and of this map; `AcknowledgedInv` that what the
server takes a delta from was built for this map or is too old to be used;
`SnapshotsInv` that each snapshot on its way carries what was built and is of no
earlier map than the gamestates before it lead to (of a later one, if that map's
gamestate was lost and the client is only to enter it); `ClientInv` that the client's
snapshots are the last `PACKET_BACKUP`, and that `MAX_SNAPSHOT_ENTITIES` entities
per message were parsed since, at most, so the ring of entities has not gone
round for one that a delta may refer to.  `KeptInv` is for `Usable`: unless a
gamestate was queued, a client that counts as having acknowledged one will get no
other on this map, so what it acknowledges it keeps.

*Command buffer.*  Assumed: a buffer of at least one byte, commands of at least
one.  The size of a text and its lines are told element by element from its
beginning (`SizeTo`, `LinesTo`), so what they are of two texts behind each other
is proved by `Induction`: the sizes add up, and the lines are those of the first
and then those of the second, unless the first lacks its last newline and the
second goes on with a command (`SizeJoined`, `LinesJoined`).  Adding, inserting
and taking out are then steps of `CommandStream`, because a text is its first
line, newlines and what is left (`TextParts`); an empty first line, which a
newline without its text leaves behind, is a step that runs nothing.

`RingLemmas` has what these share: remainders of numbers less than a ring apart
differ, and a ring that goes on from any place goes once round; a sequence that
grows or is cut; and `Induction` on the natural numbers, for sets, from the
library's theorem that every non-empty set of numbers has a least element.  With
it sums (`IsSum`) exist and are unique, which is how `Room`, a recursive function,
is reasoned about.

Only model-checked: liveness (`QueueDrains`, `FragmentsFinish`,
`EventuallyExecuted`, `RingDrains`), which needs ENABLED.

## 6. What is not modelled, and the plan

The runs cover the protocol from the handshake to cgame and the command buffer,
and all their invariants and action properties are proved.

Parts of modelled components that are left out: the client's own use of the
channel (`CL_Netchan_Transmit`, `CL_Netchan_Enqueue`), the delayed packet queue
and the loopback rings, which do no more than lose, delay and double messages;
`map_restart`; snapshots that overflow their buffer, and those of zombies;
visibility; the table of leaky buckets with its hash chains; what happens to
several connecting addresses at once (the table is in `ClientSlots`); the general
timeout `sv_timeout`, 999999 seconds by default; the gamestates that reset a
client's `cmdNumber`; quotes, comments and nested insertions in the command
buffer; the event queue, in which only console lines carry data, queued when it
is empty.

Not modelled at all: zone and hunk memory, pointer structures that nothing above
depends on; geometry and everything over floating point (collision, world
sectors, botlib, renderer, sound), bytecode and its compilers, text (filters,
info strings, cvars), files and sockets, vendored code (Duktape, puff, unzip,
libsdl).  Huffman coding and delta encoding of fields are pure conversions over
data whose correctness the models do not depend on, except for the 16-bit short,
which is modelled.  These parts are nearly all of the lines of this
repository: most are vendored, generated or system headers.
