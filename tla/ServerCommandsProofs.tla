------------------------ MODULE ServerCommandsProofs ------------------------
(***************************************************************************)
(* Proofs about ServerCommands, for every ring size and every bound on the *)
(* commands and messages.  The inductive invariant says that both rings    *)
(* hold the newest commands of the history until an overflow, that every   *)
(* server message covers the history up to the commands issued when it was *)
(* built, and that acknowledgements in flight grow.                        *)
(***************************************************************************)
EXTENDS ServerCommands, RingLemmas

ClientType ==
    [state : {"active", "zombie"}, reliableSequence : Nat,
     reliableAcknowledge : Nat, reliableCommands : [Slot -> Command]]

MessageType == [first : Nat, commands : Seq(Command), issued : Nat]

(***************************************************************************)
(* A ring holds the newest commands of log, as many as it has slots.       *)
(***************************************************************************)
RingHolds(ring, log, last) ==
    \A n \in 1 .. last : last - n < MAX_RELIABLE_COMMANDS => ring[SlotOf(n)] = log[n]

(***************************************************************************)
(* The server's record c of a client: it counts the commands of log that   *)
(* were issued to it, and until an overflow its ring holds those that are  *)
(* pending.                                                                *)
(***************************************************************************)
Counts(c, log) ==
    /\ c \in ClientType
    /\ log \in Seq(Command)
    /\ Len(log) = c.reliableSequence
    /\ c.reliableAcknowledge <= c.reliableSequence

Holds(c, log) ==
    /\ Pending(c) <= MAX_RELIABLE_COMMANDS
    /\ RingHolds(c.reliableCommands, log, c.reliableSequence)

ServerInv ==
    /\ Counts(cl, issued)
    /\ InGame(cl) => ~overflowed
    /\ ~overflowed => Holds(cl, issued)

(***************************************************************************)
(* A server message starts with a command the client expects at the        *)
(* latest, ends with the last one issued and leaves none out.              *)
(***************************************************************************)
Covers(m) ==
    /\ m.first >= 1
    /\ m.first <= cl.reliableAcknowledge + 1
    /\ m.first + Len(m.commands) - 1 = m.issued
    /\ m.issued <= Len(issued)
    /\ ~overflowed => \A n \in m.first .. m.issued : m.commands[n - m.first + 1] = issued[n]

ToClientInv == \A i \in 1 .. Len(toClient) : Covers(toClient[i])

(***************************************************************************)
(* Acknowledgements in flight grow, from the last one the server has seen  *)
(* to what the client has received.                                        *)
(***************************************************************************)
ToServerInv ==
    /\ AcknowledgedReceived
    /\ \A i \in 1 .. Len(toServer) :
          /\ cl.reliableAcknowledge <= toServer[i]
          /\ toServer[i] <= clc.serverCommandSequence
    /\ \A i, j \in 1 .. Len(toServer) : i < j => toServer[i] <= toServer[j]

(***************************************************************************)
(* The client: what it has received was issued, and cgame is not ahead.    *)
(***************************************************************************)
ReceivedInv ==
    /\ clc.serverCommandSequence <= Len(issued)
    /\ clc.serverCommandNum <= clc.serverCommandSequence
    /\ clc.lastExecutedServerCommand <= clc.serverCommandNum
    /\ snapIssued <= clc.serverCommandNum
    /\ ~overflowed => RingHolds(clc.serverCommands, issued, clc.serverCommandSequence)

ExecutedInv ==
    /\ Len(executed) = clc.lastExecutedServerCommand
    /\ ~overflowed => \A n \in 1 .. Len(executed) : executed[n] = issued[n]

IInv ==
    /\ TypeOK
    /\ ServerInv
    /\ ToClientInv
    /\ ToServerInv
    /\ ReceivedInv
    /\ ExecutedInv
-----------------------------------------------------------------------------
(***************************************************************************)
(* The ring has at least one slot.                                         *)
(***************************************************************************)
LEMMA RingSize == MAX_RELIABLE_COMMANDS \in Nat /\ MAX_RELIABLE_COMMANDS >= 1
  BY ServerCommandsAssumption

(***************************************************************************)
(* Every command has a slot.                                               *)
(***************************************************************************)
LEMMA SlotType == ASSUME NEW n \in Int PROVE SlotOf(n) \in Slot
  BY ServerCommandsAssumption, SlotInRing DEF SlotOf, Slot

(***************************************************************************)
(* Commands less than a ring apart have different slots.                   *)
(***************************************************************************)
LEMMA OtherSlot ==
  ASSUME NEW a \in Int, NEW b \in Int, a < b, b - a < MAX_RELIABLE_COMMANDS
  PROVE  SlotOf(a) # SlotOf(b)
  BY ServerCommandsAssumption, SlotsDiffer DEF SlotOf

(***************************************************************************)
(* longer agrees with log on the commands up to last; new is ring with     *)
(* command n of log written to its slot.                                   *)
(***************************************************************************)
Agrees(longer, log, last) == \A n \in 1 .. last : longer[n] = log[n]

Wrote(new, ring, log, n) ==
    \A s \in Slot : new[s] = IF s = SlotOf(n) THEN log[n] ELSE ring[s]

(***************************************************************************)
(* Writing the next command to its slot loses only the one a ring ago.     *)
(***************************************************************************)
LEMMA RingGrows ==
  ASSUME NEW ring, NEW new, NEW log, NEW longer,
         NEW last \in Nat, NEW next \in Nat, next = last + 1,
         RingHolds(ring, log, last),
         Agrees(longer, log, last), Wrote(new, ring, longer, next)
  PROVE  RingHolds(new, longer, next)
<1> SUFFICES ASSUME NEW n \in 1 .. next, next - n < MAX_RELIABLE_COMMANDS
             PROVE  new[SlotOf(n)] = longer[n]
  BY DEF RingHolds
<1>1. SlotOf(n) \in Slot /\ SlotOf(next) \in Slot
  BY SlotType
<1>2. CASE n = next
  BY <1>1, <1>2 DEF Wrote
<1>3. CASE n # next
  <2>1. n \in 1 .. last /\ last - n < MAX_RELIABLE_COMMANDS
    BY <1>3, RingSize
  <2>2. SlotOf(n) # SlotOf(next)
    BY <1>3, OtherSlot
  <2>3. ring[SlotOf(n)] = log[n]
    BY <2>1 DEF RingHolds
  <2> QED
    BY <1>1, <2>1, <2>2, <2>3 DEF Agrees, Wrote
<1> QED
  BY <1>2, <1>3

(***************************************************************************)
(* The command of a kind with sequence number n.                           *)
(***************************************************************************)
Numbered(n, kind) == [kind |-> kind, id |-> n]

(***************************************************************************)
(* Store: the command gets the next number and its slot.                   *)
(***************************************************************************)
LEMMA StoreNext ==
  ASSUME NEW c \in ClientType, NEW kind \in Kind, NEW d, d = Store(c, kind)
  PROVE  /\ d \in ClientType
         /\ d.state = c.state
         /\ d.reliableSequence = c.reliableSequence + 1
         /\ d.reliableAcknowledge = c.reliableAcknowledge
         /\ \A s \in Slot :
               d.reliableCommands[s] = IF s = SlotOf(c.reliableSequence + 1)
                                       THEN Numbered(c.reliableSequence + 1, kind)
                                       ELSE c.reliableCommands[s]
<1> DEFINE n == c.reliableSequence + 1
           ring == [c.reliableCommands EXCEPT ![SlotOf(n)] = [kind |-> kind, id |-> n]]
<1>1. c.reliableSequence \in Nat /\ n \in Nat
  BY DEF ClientType
<1>2. d = [c EXCEPT !.reliableSequence = n, !.reliableCommands = ring]
  BY DEF Store, ClientType
<1>3. ring \in [Slot -> Command]
  BY <1>1, SlotType DEF ClientType, Command
<1>4. d \in ClientType
  <2> HIDE DEF n, ring
  <2> QED
    BY <1>1, <1>2, <1>3 DEF ClientType
<1> QED
  BY <1>2, <1>4 DEF ClientType, Numbered
-----------------------------------------------------------------------------
(***************************************************************************)
(* The history log, some more commands later.                              *)
(***************************************************************************)
Extends(log, longer) ==
    /\ Len(log) <= Len(longer)
    /\ \A n \in 1 .. Len(log) : longer[n] = log[n]

(***************************************************************************)
(* A command that does not overflow the ring.                              *)
(***************************************************************************)
LEMMA StoreSound ==
  ASSUME NEW c, NEW log, Counts(c, log), Holds(c, log), InGame(c), ~Overflows(c), NEW kind \in Kind,
         NEW d, d = AddServerCommand(c, kind),
         NEW longer, longer = log \o IssuedBy(c, kind)
  PROVE  /\ Counts(d, longer) /\ Holds(d, longer)
         /\ InGame(d)
         /\ d.reliableAcknowledge = c.reliableAcknowledge
         /\ Extends(log, longer)
<1>1. PICK last \in Nat : last = c.reliableSequence
  BY DEF Counts, Holds, ClientType
<1>2. PICK command : command = Numbered(last + 1, kind)
  OBVIOUS
<1>3. d = Store(c, kind) /\ longer = log \o << command >>
  BY <1>1, <1>2 DEF AddServerCommand, IssuedBy, Numbered
<1>4. /\ c \in ClientType /\ log \in Seq(Command) /\ Len(log) = last
      /\ c.reliableAcknowledge \in Nat
      /\ c.reliableAcknowledge <= last
      /\ last - c.reliableAcknowledge <= MAX_RELIABLE_COMMANDS
      /\ last - c.reliableAcknowledge + 1 # MAX_RELIABLE_COMMANDS + 1
      /\ RingHolds(c.reliableCommands, log, last)
      /\ c.reliableCommands \in [Slot -> Command]
  BY <1>1 DEF Counts, Holds, ClientType, Pending, Overflows
<1>5. /\ d \in ClientType /\ command \in Command
      /\ d.state = c.state
      /\ d.reliableSequence = last + 1
      /\ d.reliableAcknowledge = c.reliableAcknowledge
      /\ \A s \in Slot : d.reliableCommands[s] = IF s = SlotOf(last + 1) THEN command
                                               ELSE c.reliableCommands[s]
  <2>1. command \in Command
    BY <1>2 DEF Command, Numbered
  <2> QED
    BY <1>1, <1>2, <1>3, <1>4, <2>1, StoreNext
<1>6. /\ longer \in Seq(Command) /\ Len(longer) = last + 1
      /\ longer[last + 1] = command
      /\ \A n \in 1 .. last : longer[n] = log[n]
  <2>1. << command >> \in Seq(Command) /\ Len(<< command >>) = 1
        /\ << command >>[1] = command
    BY <1>5
  <2> QED
    BY <1>3, <1>4, <2>1, ConcatProperties
<1>7. RingHolds(d.reliableCommands, longer, last + 1)
  <2>1. PICK next \in Nat : next = last + 1
    OBVIOUS
  <2>2. PICK ring, new : ring = c.reliableCommands /\ new = d.reliableCommands
    OBVIOUS
  <2>3. Wrote(new, ring, longer, next)
    BY <1>5, <1>6, <2>1, <2>2 DEF Wrote
  <2>4. RingHolds(ring, log, last) /\ Agrees(longer, log, last)
    BY <1>4, <1>6, <2>2 DEF Agrees
  <2>5. RingHolds(new, longer, next)
    BY <2>1, <2>3, <2>4, RingGrows
  <2> QED
    BY <2>1, <2>2, <2>5
<1>8. Pending(d) <= MAX_RELIABLE_COMMANDS
  BY <1>4, <1>5, RingSize DEF Pending
<1>9. Counts(d, longer) /\ Holds(d, longer) /\ InGame(d)
  BY <1>4, <1>5, <1>6, <1>7, <1>8 DEF Counts, Holds, InGame
<1> QED
  BY <1>4, <1>5, <1>6, <1>9 DEF Extends

(***************************************************************************)
(* A client that becomes a zombie.                                         *)
(***************************************************************************)
LEMMA ZombieSound ==
  ASSUME NEW c, NEW log, Counts(c, log)
  PROVE  /\ Counts(Zombie(c), log)
         /\ Holds(c, log) => Holds(Zombie(c), log)
         /\ Zombie(c).reliableAcknowledge = c.reliableAcknowledge
         /\ ~InGame(Zombie(c))
  BY DEF Counts, Holds, Zombie, ClientType, InGame, Pending

(***************************************************************************)
(* A command that overflows the ring, and the two of the drop it causes.   *)
(***************************************************************************)
LEMMA OverflowSound ==
  ASSUME NEW c, NEW log, Counts(c, log), Holds(c, log), InGame(c), Overflows(c), NEW kind \in Kind,
         NEW d, d = AddServerCommand(c, kind),
         NEW longer, longer = log \o IssuedBy(c, kind)
  PROVE  /\ Counts(d, longer)
         /\ ~InGame(d)
         /\ d.reliableAcknowledge = c.reliableAcknowledge
         /\ Extends(log, longer)
<1>1. PICK last \in Nat : last = c.reliableSequence
  BY DEF Counts, Holds, ClientType
<1>2. PICK counted : counted = [c EXCEPT !.reliableSequence = last + 1]
  OBVIOUS
<1>3. PICK print \in Kind, disconnect \in Kind : print = "print" /\ disconnect = "disconnect"
  BY DEF Kind
<1>4. PICK printed : printed = Store(counted, print)
  OBVIOUS
<1>5. PICK said : said = Store(printed, disconnect)
  OBVIOUS
<1>6. d = Zombie(said) /\ longer = log \o Overflow(c, kind)
  BY <1>1, <1>2, <1>3, <1>4, <1>5 DEF AddServerCommand, IssuedBy, OverflowDrop
<1>7. /\ c \in ClientType /\ log \in Seq(Command) /\ Len(log) = last
      /\ c.reliableAcknowledge \in Nat
      /\ c.reliableAcknowledge <= last
  BY <1>1 DEF Counts, Holds, ClientType
<1>8. /\ counted \in ClientType
      /\ counted.reliableSequence = last + 1
      /\ counted.reliableAcknowledge = c.reliableAcknowledge
  BY <1>2, <1>7 DEF ClientType
<1>9. /\ printed \in ClientType
      /\ printed.reliableSequence = (last + 1) + 1
      /\ printed.reliableAcknowledge = c.reliableAcknowledge
  BY SMTT(20), <1>4, <1>8, StoreNext
<1>10. /\ said \in ClientType
       /\ said.reliableSequence = ((last + 1) + 1) + 1
       /\ said.reliableAcknowledge = c.reliableAcknowledge
  BY SMTT(20), <1>5, <1>9, StoreNext
<1>11. PICK three : three = Overflow(c, kind)
  OBVIOUS
<1>12. three \in Seq(Command) /\ Len(three) = 3
  <2>1. /\ [kind |-> kind, id |-> last + 1] \in Command
        /\ [kind |-> "print", id |-> last + 2] \in Command
        /\ [kind |-> "disconnect", id |-> last + 3] \in Command
    BY DEF Command, Kind
  <2> QED
    BY <1>1, <1>11, <2>1 DEF Overflow
<1>13. /\ longer \in Seq(Command) /\ Len(longer) = last + 3
       /\ \A n \in 1 .. last : longer[n] = log[n]
  <2>1. /\ log \o three \in Seq(Command)
        /\ Len(log \o three) = Len(log) + Len(three)
        /\ \A n \in 1 .. Len(log) + Len(three) :
               (log \o three)[n] = IF n <= Len(log) THEN log[n] ELSE three[n - Len(log)]
    BY <1>7, <1>12, ConcatProperties, Zenon
  <2>2. /\ longer \in Seq(Command)
        /\ Len(longer) = Len(log) + Len(three)
        /\ \A n \in 1 .. Len(log) + Len(three) :
               longer[n] = IF n <= Len(log) THEN log[n] ELSE three[n - Len(log)]
    BY <1>6, <1>11, <2>1, Zenon
  <2> QED
    BY <1>7, <1>12, <2>2
<1>14. /\ d \in ClientType
       /\ d.reliableSequence = last + 3
       /\ d.reliableAcknowledge = c.reliableAcknowledge
       /\ ~InGame(d)
  BY <1>6, <1>10 DEF Zombie, ClientType, InGame
<1> QED
  BY <1>7, <1>13, <1>14 DEF Counts, Holds, Extends

(***************************************************************************)
(* What SV_AddServerCommand issues is a sequence of commands.              *)
(***************************************************************************)
LEMMA IssuedByType ==
  ASSUME NEW c \in ClientType, NEW kind \in Kind
  PROVE  IssuedBy(c, kind) \in Seq(Command)
<1>1. PICK last \in Nat : last = c.reliableSequence
  BY DEF ClientType
<1>2. /\ [kind |-> kind, id |-> last + 1] \in Command
      /\ [kind |-> "print", id |-> last + 2] \in Command
      /\ [kind |-> "disconnect", id |-> last + 3] \in Command
  BY DEF Command, Kind
<1>3. Overflow(c, kind) \in Seq(Command)
  BY <1>1, <1>2 DEF Overflow
<1>4. << [kind |-> kind, id |-> c.reliableSequence + 1] >> \in Seq(Command)
  BY <1>1, <1>2
<1> QED
  BY <1>3, <1>4 DEF IssuedBy

(***************************************************************************)
(* The history only grows.                                                 *)
(***************************************************************************)
LEMMA ExtendsTransitive ==
  ASSUME NEW a, NEW b, NEW c, Len(a) \in Nat, Len(b) \in Nat, Len(c) \in Nat,
         Extends(a, b), Extends(b, c)
  PROVE  Extends(a, c)
  BY DEF Extends

(***************************************************************************)
(* SV_AddServerCommand to a client in the game.                            *)
(***************************************************************************)
LEMMA AddSound ==
  ASSUME NEW c, NEW log, Counts(c, log), Holds(c, log), InGame(c), NEW kind \in Kind,
         NEW d, d = AddServerCommand(c, kind),
         NEW longer, longer = log \o IssuedBy(c, kind)
  PROVE  /\ Counts(d, longer)
         /\ d.reliableAcknowledge = c.reliableAcknowledge
         /\ Extends(log, longer)
         /\ IF Overflows(c) THEN ~InGame(d) ELSE InGame(d) /\ Holds(d, longer)
<1>1. CASE Overflows(c)
  BY <1>1, OverflowSound
<1>2. CASE ~Overflows(c)
  BY <1>2, StoreSound
<1> QED
  BY <1>1, <1>2

(***************************************************************************)
(* SV_DropClient: the print and the disconnect, either of which may        *)
(* overflow the ring.                                                      *)
(***************************************************************************)
LEMMA DropSound ==
  ASSUME NEW c, NEW log, Counts(c, log), Holds(c, log), InGame(c),
         NEW d, d = DropClient(c),
         NEW longer, longer = log \o IssuedByDrop(c)
  PROVE  /\ Counts(d, longer)
         /\ ~InGame(d)
         /\ d.reliableAcknowledge = c.reliableAcknowledge
         /\ Extends(log, longer)
         /\ ~Overflows(c) /\ ~Overflows(AddServerCommand(c, "print")) => Holds(d, longer)
<1>1. PICK print \in Kind, disconnect \in Kind : print = "print" /\ disconnect = "disconnect"
  BY DEF Kind
<1>2. PICK printed, after : /\ printed = AddServerCommand(c, print)
                            /\ after = log \o IssuedBy(c, print)
  OBVIOUS
<1>3. /\ Counts(printed, after)
      /\ printed.reliableAcknowledge = c.reliableAcknowledge
      /\ Extends(log, after)
      /\ IF Overflows(c) THEN ~InGame(printed) ELSE InGame(printed) /\ Holds(printed, after)
  BY <1>2, AddSound
<1>4. c \in ClientType /\ log \in Seq(Command) /\ printed \in ClientType /\ after \in Seq(Command)
  BY <1>3 DEF Counts
<1>5. IssuedBy(c, print) \in Seq(Command)
  BY <1>4, IssuedByType
<1>6. CASE Overflows(c)
  <2>1. ~InGame(printed)
    BY <1>3, <1>6
  <2>2. d = Zombie(printed)
    BY <1>1, <1>2, <2>1 DEF DropClient, AddServerCommand
  <2>3. longer = after
    <3>1. IssuedByDrop(c) = IssuedBy(c, print) \o << >>
      BY <1>1, <1>2, <2>1 DEF IssuedByDrop
    <3>2. IssuedBy(c, print) \o << >> = IssuedBy(c, print)
      BY <1>5, ConcatEmptySeq
    <3> QED
      BY <1>2, <3>1, <3>2
  <2> QED
    BY <1>3, <1>6, <2>2, <2>3, ZombieSound
<1>7. CASE ~Overflows(c)
  <2>1. InGame(printed) /\ Holds(printed, after)
    BY <1>3, <1>7
  <2>2. PICK said, all : /\ said = AddServerCommand(printed, disconnect)
                         /\ all = after \o IssuedBy(printed, disconnect)
    OBVIOUS
  <2>3. /\ Counts(said, all)
        /\ said.reliableAcknowledge = printed.reliableAcknowledge
        /\ Extends(after, all)
        /\ ~Overflows(printed) => Holds(said, all)
    BY <1>3, <2>1, <2>2, AddSound
  <2>4. d = Zombie(said)
    BY <1>1, <1>2, <2>2 DEF DropClient
  <2>5. longer = all
    <3>1. IssuedByDrop(c) = IssuedBy(c, print) \o IssuedBy(printed, disconnect)
      BY <1>1, <1>2, <2>1 DEF IssuedByDrop
    <3>2. IssuedBy(printed, disconnect) \in Seq(Command)
      BY <1>4, IssuedByType
    <3>3. PICK one, two \in Seq(Command) : /\ one = IssuedBy(c, print)
                                           /\ two = IssuedBy(printed, disconnect)
      BY <1>5, <3>2
    <3>4. (log \o one) \o two = log \o (one \o two)
      <4>1. log \in Seq(Command)
        BY <1>4
      <4>2. \A s, t, u \in Seq(Command) : (s \o t) \o u = s \o (t \o u)
        BY SMTT(20), ConcatAssociative
      <4> QED
        BY <3>3, <4>1, <4>2, Zenon
    <3>5. all = (log \o one) \o two
      BY <1>2, <2>2, <3>3, Zenon
    <3>6. longer = log \o (one \o two)
      BY <3>1, <3>3, Zenon
    <3> QED
      BY <3>4, <3>5, <3>6, Zenon
  <2>6. Extends(log, all)
    <3>1. Len(log) \in Nat /\ Len(after) \in Nat /\ Len(all) \in Nat
      BY <1>4, <2>3 DEF Counts
    <3> QED
      BY <1>3, <2>3, <3>1, ExtendsTransitive
  <2>7. ~Overflows(AddServerCommand(c, "print")) => Holds(said, all)
    BY <1>1, <1>2, <2>3
  <2> QED
    BY <1>3, <2>3, <2>4, <2>5, <2>6, <2>7, ZombieSound
<1> QED
  BY <1>6, <1>7
-----------------------------------------------------------------------------
(***************************************************************************)
(* Messages in flight still cover what they covered when the server has    *)
(* issued more commands or seen more acknowledgements.                     *)
(***************************************************************************)
LEMMA StillCovers ==
  ASSUME NEW m \in MessageType, Covers(m),
         cl.reliableAcknowledge \in Nat, cl'.reliableAcknowledge \in Nat,
         cl.reliableAcknowledge <= cl'.reliableAcknowledge,
         Len(issued) \in Nat, Len(issued') \in Nat, Extends(issued, issued'),
         ~overflowed' => ~overflowed
  PROVE  Covers(m)'
<1>1. /\ m.first >= 1
      /\ m.first <= cl'.reliableAcknowledge + 1
      /\ m.first + Len(m.commands) - 1 = m.issued
      /\ m.issued <= Len(issued')
  BY DEF Covers, MessageType, Extends
<1>2. ASSUME ~overflowed'
      PROVE  \A n \in m.first .. m.issued : m.commands[n - m.first + 1] = issued'[n]
  <2> TAKE n \in m.first .. m.issued
  <2>1. m.commands[n - m.first + 1] = issued[n]
    BY <1>2 DEF Covers
  <2>2. n \in 1 .. Len(issued)
    BY DEF Covers, MessageType
  <2> QED
    BY <2>1, <2>2 DEF Extends
<1> QED
  BY <1>1, <1>2 DEF Covers

(***************************************************************************)
(* The server has issued commands, and perhaps dropped the client.         *)
(***************************************************************************)
LEMMA IssueKeeps ==
  ASSUME IInv, InGame(cl),
         Counts(cl', issued'),
         cl'.reliableAcknowledge = cl.reliableAcknowledge,
         Extends(issued, issued'),
         overflowed' \in BOOLEAN,
         InGame(cl') => ~overflowed',
         ~overflowed' => Holds(cl', issued'),
         UNCHANGED <<clc, toClient, toServer, executed, snapIssued>>
  PROVE  IInv'
<1>1. ~overflowed
  BY DEF IInv, ServerInv
<1>2. /\ cl \in ClientType /\ cl' \in ClientType
      /\ cl.reliableAcknowledge \in Nat /\ cl'.reliableAcknowledge \in Nat
      /\ Len(issued) \in Nat /\ Len(issued') \in Nat
      /\ issued' \in Seq(Command)
      /\ Len(issued) <= Len(issued')
  BY DEF IInv, ServerInv, Counts, ClientType, Extends
<1>3. TypeOK'
  BY <1>2 DEF IInv, TypeOK, ClientType
<1>4. ServerInv'
  BY DEF ServerInv, Counts, Holds, RingHolds, Pending, InGame
<1>5. ToClientInv'
  <2> SUFFICES ASSUME NEW i \in 1 .. Len(toClient)
               PROVE  Covers(toClient[i])'
    BY DEF ToClientInv
  <2>1. toClient[i] \in MessageType /\ Covers(toClient[i])
    <3>1. toClient \in Seq(MessageType)
      BY DEF IInv, TypeOK, MessageType
    <3>2. Covers(toClient[i])
      BY DEF IInv, ToClientInv
    <3> QED
      BY <3>1, <3>2
  <2>2. PICK m \in MessageType : m = toClient[i] /\ Covers(m)
    BY <2>1
  <2>3. Covers(m)'
    BY <1>1, <1>2, <2>2, StillCovers
  <2> QED
    BY <2>2, <2>3 DEF Covers
<1>6. ToServerInv'
  BY DEF IInv, ToServerInv, AcknowledgedReceived
<1>7. ReceivedInv'
  <2>1. /\ clc.serverCommandSequence \in Nat
        /\ clc.serverCommandSequence <= Len(issued)
        /\ RingHolds(clc.serverCommands, issued, clc.serverCommandSequence)
    BY <1>1 DEF IInv, TypeOK, ReceivedInv
  <2>2. RingHolds(clc'.serverCommands, issued', clc'.serverCommandSequence)
    <3>1. \A n \in 1 .. clc.serverCommandSequence : issued'[n] = issued[n]
      BY <1>2, <2>1 DEF Extends
    <3> QED
      BY <2>1, <3>1 DEF RingHolds
  <2>3. clc.serverCommandSequence <= Len(issued')
    BY <1>2, <2>1
  <2> QED
    BY <2>2, <2>3 DEF IInv, ReceivedInv, RingHolds
<1>8. ExecutedInv'
  <2>1. Len(executed) \in Nat /\ Len(executed) <= Len(issued)
    BY <1>2 DEF IInv, TypeOK, ReceivedInv, ExecutedInv
  <2>2. \A n \in 1 .. Len(executed) : executed[n] = issued[n] /\ issued'[n] = issued[n]
    BY <1>1, <1>2, <2>1 DEF IInv, ExecutedInv, Extends
  <2> QED
    BY <2>2 DEF IInv, ExecutedInv
<1> QED
  BY <1>3, <1>4, <1>5, <1>6, <1>7, <1>8 DEF IInv

(***************************************************************************)
(* SV_AddServerCommand keeps the invariant, ...                            *)
(***************************************************************************)
LEMMA AddKeeps == ASSUME IInv, SV_AddServerCommand PROVE IInv'
<1>1. PICK game \in Kind : game = "game"
  BY DEF Kind
<1>2. /\ InGame(cl) /\ Counts(cl, issued) /\ Holds(cl, issued)
      /\ cl' = AddServerCommand(cl, game)
      /\ issued' = issued \o IssuedBy(cl, game)
      /\ overflowed' = Overflows(cl)
      /\ UNCHANGED <<clc, toClient, toServer, executed, snapIssued>>
  BY <1>1 DEF IInv, ServerInv, SV_AddServerCommand
<1>3. /\ Counts(cl', issued')
      /\ cl'.reliableAcknowledge = cl.reliableAcknowledge
      /\ Extends(issued, issued')
      /\ IF Overflows(cl) THEN ~InGame(cl') ELSE InGame(cl') /\ Holds(cl', issued')
  BY <1>2, AddSound
<1>4. overflowed' \in BOOLEAN /\ (overflowed' <=> Overflows(cl))
  BY <1>2 DEF Overflows
<1> QED
  BY <1>2, <1>3, <1>4, IssueKeeps

(***************************************************************************)
(* ... so does SV_DropClient.                                              *)
(***************************************************************************)
LEMMA DropKeeps == ASSUME IInv, SV_DropClient PROVE IInv'
<1>1. /\ InGame(cl) /\ Counts(cl, issued) /\ Holds(cl, issued)
      /\ cl' = DropClient(cl)
      /\ issued' = issued \o IssuedByDrop(cl)
      /\ overflowed' = (Overflows(cl) \/ Overflows(AddServerCommand(cl, "print")))
      /\ UNCHANGED <<clc, toClient, toServer, executed, snapIssued>>
  BY DEF IInv, ServerInv, SV_DropClient
<1>2. /\ Counts(cl', issued')
      /\ ~InGame(cl')
      /\ cl'.reliableAcknowledge = cl.reliableAcknowledge
      /\ Extends(issued, issued')
      /\ ~Overflows(cl) /\ ~Overflows(AddServerCommand(cl, "print")) => Holds(cl', issued')
  BY <1>1, DropSound
<1>3. overflowed' \in BOOLEAN
  BY <1>1
<1>4. ~overflowed' => Holds(cl', issued')
  BY <1>1, <1>2
<1> QED
  BY <1>1, <1>2, <1>3, <1>4, IssueKeeps
-----------------------------------------------------------------------------
(***************************************************************************)
(* SV_SendClientSnapshot: the pending commands are still in the ring.      *)
(***************************************************************************)
LEMMA SendKeeps == ASSUME IInv, SV_SendClientSnapshot PROVE IInv'
<1>1. PICK ack, last \in Nat : /\ ack = cl.reliableAcknowledge
                              /\ last = cl.reliableSequence
  BY DEF IInv, ServerInv, Counts, ClientType
<1>2. PICK commands, ring : /\ commands = SV_UpdateServerCommandsToClient(cl)
                            /\ ring = cl.reliableCommands
  OBVIOUS
<1>3. PICK m : m = [first |-> ack + 1, commands |-> commands, issued |-> Len(issued)]
  OBVIOUS
<1>4. /\ toClient' = Append(toClient, m)
      /\ UNCHANGED <<cl, clc, toServer, issued, executed, overflowed, snapIssued>>
  BY <1>1, <1>2, <1>3 DEF SV_SendClientSnapshot
<1>5. /\ ring \in [Slot -> Command]
      /\ issued \in Seq(Command) /\ Len(issued) = last
      /\ ack <= last
      /\ ~overflowed => /\ last - ack <= MAX_RELIABLE_COMMANDS
                        /\ RingHolds(ring, issued, last)
  BY <1>1, <1>2 DEF IInv, ServerInv, Counts, Holds, ClientType, Pending
<1>6. /\ commands \in Seq(Command) /\ Len(commands) = last - ack
      /\ \A n \in ack + 1 .. last : commands[n - ack] = ring[SlotOf(n)]
  <2>1. commands = [i \in 1 .. last - ack |-> ring[SlotOf(ack + i)]]
    BY <1>1, <1>2 DEF SV_UpdateServerCommandsToClient, Pending
  <2>2. \A i \in 1 .. last - ack : SlotOf(ack + i) \in Slot
    BY SlotType
  <2>3. \A i \in 1 .. last - ack : ring[SlotOf(ack + i)] \in Command
    BY <1>5, <2>2
  <2>4. last - ack \in Nat
    BY <1>5
  <2>5. commands \in [1 .. last - ack -> Command]
    BY <2>1, <2>3
  <2>6. commands \in Seq(Command) /\ Len(commands) = last - ack
    BY <2>4, <2>5
  <2>7. ASSUME NEW n \in ack + 1 .. last
        PROVE  commands[n - ack] = ring[SlotOf(n)]
    <3>1. n - ack \in 1 .. last - ack /\ ack + (n - ack) = n
      OBVIOUS
    <3> QED
      BY <2>1, <3>1
  <2> QED
    BY <2>6, <2>7
<1>7. m \in MessageType
  BY <1>3, <1>5, <1>6 DEF MessageType
<1>8. Covers(m)
  <2>1. ASSUME ~overflowed, NEW n \in ack + 1 .. last
        PROVE  commands[n - ack] = issued[n]
    <3>1. n \in 1 .. last /\ last - n < MAX_RELIABLE_COMMANDS
      BY <1>5, <2>1, RingSize
    <3> QED
      BY <1>5, <1>6, <2>1, <3>1 DEF RingHolds
  <2>2. m.first = ack + 1 /\ m.commands = commands /\ m.issued = last
    BY <1>3, <1>5
  <2>3. ASSUME ~overflowed, NEW n \in m.first .. m.issued
        PROVE  m.commands[n - m.first + 1] = issued[n]
    <3>1. n \in ack + 1 .. last /\ n - m.first + 1 = n - ack
      BY <2>2
    <3> QED
      BY <2>1, <2>2, <2>3, <3>1
  <2>4. m.first >= 1 /\ m.first <= cl.reliableAcknowledge + 1
    BY <1>1, <2>2
  <2>5. m.first + Len(m.commands) - 1 = m.issued
    BY <1>5, <1>6, <2>2
  <2>6. m.issued <= Len(issued)
    BY <1>5, <2>2
  <2> QED
    BY <2>3, <2>4, <2>5, <2>6 DEF Covers
<1>9. toClient \in Seq(MessageType)
  BY DEF IInv, TypeOK, MessageType
<1>10. TypeOK'
  <2>1. toClient' \in Seq(MessageType)
    BY <1>4, <1>7, <1>9, Appended
  <2> QED
    BY <1>4, <2>1 DEF IInv, TypeOK, MessageType
<1>11. ServerInv'
  BY <1>4 DEF IInv, ServerInv, Counts, Holds, RingHolds, Pending, InGame
<1>12. ToClientInv'
  <2> SUFFICES ASSUME NEW i \in 1 .. Len(toClient')
               PROVE  Covers(toClient'[i])
    BY <1>4 DEF ToClientInv, Covers
  <2>1. /\ Len(toClient') = Len(toClient) + 1
        /\ toClient'[Len(toClient) + 1] = m
        /\ \A j \in 1 .. Len(toClient) : toClient'[j] = toClient[j]
    BY <1>4, <1>7, <1>9, Appended
  <2>2. Len(toClient) \in Nat
    BY <1>9
  <2>3. CASE i \in 1 .. Len(toClient)
    BY <2>1, <2>3 DEF IInv, ToClientInv
  <2>4. CASE i = Len(toClient) + 1
    BY <1>8, <2>1, <2>4
  <2> QED
    BY <2>1, <2>2, <2>3, <2>4
<1>13. ToServerInv' /\ ReceivedInv' /\ ExecutedInv'
  BY <1>4 DEF IInv, ToServerInv, AcknowledgedReceived, ReceivedInv, ExecutedInv, RingHolds
<1> QED
  BY <1>10, <1>11, <1>12, <1>13 DEF IInv

(***************************************************************************)
(* CL_WritePacket: the acknowledgement is the newest in flight.            *)
(***************************************************************************)
LEMMA WriteKeeps == ASSUME IInv, CL_WritePacket PROVE IInv'
<1>1. PICK seen \in Nat : seen = clc.serverCommandSequence
  BY DEF IInv, TypeOK
<1>2. /\ toServer' = Append(toServer, seen)
      /\ UNCHANGED <<cl, clc, toClient, issued, executed, overflowed, snapIssued>>
  BY <1>1 DEF CL_WritePacket
<1>3. toServer \in Seq(Nat) /\ Len(toServer) \in Nat
  BY DEF IInv, TypeOK
<1>4. /\ toServer' \in Seq(Nat)
      /\ Len(toServer') = Len(toServer) + 1
      /\ toServer'[Len(toServer) + 1] = seen
      /\ \A j \in 1 .. Len(toServer) : toServer'[j] = toServer[j]
  BY <1>2, <1>3, Appended
<1>5. TypeOK'
  BY <1>2, <1>4 DEF IInv, TypeOK
<1>6. ServerInv'
  BY <1>2 DEF IInv, ServerInv, Counts, Holds, RingHolds, Pending, InGame
<1>7. ToClientInv'
  BY <1>2 DEF IInv, ToClientInv, Covers
<1>8. ToServerInv'
  <2>1. /\ cl.reliableAcknowledge <= seen
        /\ \A i \in 1 .. Len(toServer) : /\ cl.reliableAcknowledge <= toServer[i]
                                         /\ toServer[i] <= seen
        /\ \A i, j \in 1 .. Len(toServer) : i < j => toServer[i] <= toServer[j]
    BY <1>1 DEF IInv, ToServerInv, AcknowledgedReceived
  <2>2. \A i \in 1 .. Len(toServer') : /\ cl.reliableAcknowledge <= toServer'[i]
                                       /\ toServer'[i] <= seen
    BY SMTT(20), <1>1, <1>3, <1>4, <2>1
  <2>3. \A i, j \in 1 .. Len(toServer') : i < j => toServer'[i] <= toServer'[j]
    <3> SUFFICES ASSUME NEW i \in 1 .. Len(toServer'), NEW j \in 1 .. Len(toServer'), i < j
                 PROVE  toServer'[i] <= toServer'[j]
      OBVIOUS
    <3>1. i \in 1 .. Len(toServer) /\ toServer'[i] = toServer[i]
      BY <1>3, <1>4
    <3>2. CASE j \in 1 .. Len(toServer)
      BY <1>4, <2>1, <3>1, <3>2
    <3>3. CASE j = Len(toServer) + 1
      BY <1>4, <2>1, <3>1, <3>3
    <3>4. j \in 1 .. Len(toServer) \/ j = Len(toServer) + 1
      <4>1. Len(toServer) \in Nat /\ Len(toServer') = Len(toServer) + 1
        BY <1>3, <1>4
      <4> QED
        BY <4>1
    <3> QED
      BY <3>2, <3>3, <3>4
  <2> QED
    BY <1>1, <1>2, <2>1, <2>2, <2>3 DEF ToServerInv, AcknowledgedReceived
<1>9. ReceivedInv' /\ ExecutedInv'
  BY <1>2 DEF IInv, ReceivedInv, ExecutedInv, RingHolds
<1> QED
  BY <1>5, <1>6, <1>7, <1>8, <1>9 DEF IInv
-----------------------------------------------------------------------------
(***************************************************************************)
(* Of message m, the commands CL_ParseCommandString keeps in slot s, the   *)
(* newest of them, and the ring and the count after the message.           *)
(***************************************************************************)
Fresh(m, s) ==
    { n \in m.first .. LastIn(m) : n > clc.serverCommandSequence /\ SlotOf(n) = s }

Newest(m, s) == CHOOSE n \in Fresh(m, s) : \A k \in Fresh(m, s) : k <= n

Last(m) == IF LastIn(m) > clc.serverCommandSequence
           THEN LastIn(m) ELSE clc.serverCommandSequence

NewRing(m) ==
    [s \in Slot |-> IF Fresh(m, s) = {} THEN clc.serverCommands[s]
                    ELSE m.commands[Newest(m, s) - m.first + 1]]

(***************************************************************************)
(* If any command of a message goes to a slot, there is a newest one.      *)
(***************************************************************************)
LEMMA NewestExists ==
  ASSUME clc.serverCommandSequence \in Nat,
         NEW m \in MessageType, NEW s \in Slot, Fresh(m, s) # {}
  PROVE  /\ Newest(m, s) \in Fresh(m, s)
         /\ \A k \in Fresh(m, s) : k <= Newest(m, s)
<1>1. PICK last \in Int : last = LastIn(m)
  BY DEF MessageType, LastIn
<1>2. PICK n \in last - MAX_RELIABLE_COMMANDS + 1 .. last : SlotOf(n) = s
  BY <1>1, ServerCommandsAssumption, PlaceTaken DEF SlotOf, Slot
<1>3. ASSUME NEW k \in Fresh(m, s)
      PROVE  k <= n
  <2>1. /\ k \in m.first .. last /\ k > clc.serverCommandSequence /\ SlotOf(k) = s
        /\ k \in Int
    BY <1>1 DEF Fresh, MessageType
  <2>2. SUFFICES ASSUME n < k
                 PROVE  FALSE
    BY <1>2, <2>1, RingSize
  <2>3. k - n < MAX_RELIABLE_COMMANDS
    BY <1>1, <1>2, <2>1, RingSize
  <2>4. n \in Int
    BY <1>2, RingSize
  <2> QED
    BY <1>2, <2>1, <2>2, <2>3, <2>4, OtherSlot
<1>4. n \in Fresh(m, s)
  <2>1. PICK k \in Fresh(m, s) : TRUE
    OBVIOUS
  <2>2. k \in m.first .. last /\ k > clc.serverCommandSequence /\ k <= n
    BY <1>1, <1>3, <2>1 DEF Fresh
  <2>3. n \in m.first .. last /\ n > clc.serverCommandSequence
    BY <1>1, <1>2, <2>2, RingSize DEF MessageType
  <2> QED
    BY <1>1, <1>2, <2>3 DEF Fresh
<1> QED
  BY <1>3, <1>4 DEF Newest

(***************************************************************************)
(* CL_ParseServerMessage: every command between the last one received and  *)
(* the last one issued is in the message, and the newest of them end up in *)
(* the client's ring.                                                      *)
(***************************************************************************)
LEMMA ParsedSound ==
  ASSUME IInv, NEW m \in MessageType, Covers(m), NEW ring, ring = NewRing(m),
         NEW last, last = Last(m)
  PROVE  /\ last \in Nat /\ ring \in [Slot -> Command]
         /\ clc.serverCommandSequence <= last
         /\ m.issued <= last
         /\ last <= Len(issued)
         /\ ~overflowed => RingHolds(ring, issued, last)
<1>1. PICK seen \in Nat : seen = clc.serverCommandSequence
  BY DEF IInv, TypeOK
<1>2. PICK first \in Nat, end \in Nat : first = m.first /\ end = m.issued
  BY DEF MessageType
<1>3. /\ LastIn(m) = end
      /\ first >= 1 /\ first <= seen + 1
      /\ end <= Len(issued)
      /\ m.commands \in Seq(Command) /\ Len(m.commands) = end - first + 1
  <2>1. cl.reliableAcknowledge \in Nat /\ cl.reliableAcknowledge <= seen
    BY <1>1 DEF IInv, TypeOK, ToServerInv, AcknowledgedReceived
  <2>2. m.commands \in Seq(Command) /\ Len(m.commands) \in Nat
    BY DEF MessageType
  <2>3. /\ first >= 1 /\ first <= cl.reliableAcknowledge + 1
        /\ first + Len(m.commands) - 1 = end /\ end <= Len(issued)
    BY <1>2 DEF Covers
  <2>4. LastIn(m) = first + Len(m.commands) - 1
    BY <1>2 DEF LastIn
  <2> QED
    BY <2>1, <2>2, <2>3, <2>4
<1>4. /\ last \in Nat
      /\ seen <= last /\ end <= last /\ last <= Len(issued)
      /\ last = end \/ last = seen
  <2>1. Len(issued) \in Nat /\ seen <= Len(issued)
    BY <1>1 DEF IInv, TypeOK, ReceivedInv
  <2> QED
    BY <1>1, <1>3, <2>1 DEF Last
<1>5. /\ ring = [s \in Slot |-> IF Fresh(m, s) = {} THEN clc.serverCommands[s]
                                ELSE m.commands[Newest(m, s) - first + 1]]
      /\ clc.serverCommands \in [Slot -> Command]
  BY <1>2 DEF NewRing, IInv, TypeOK
<1>6. \A s : Fresh(m, s) = { n \in first .. end : n > seen /\ SlotOf(n) = s }
  BY <1>1, <1>2, <1>3 DEF Fresh
<1>7. \A s \in Slot : Fresh(m, s) # {} =>
         /\ Newest(m, s) \in Fresh(m, s)
         /\ \A k \in Fresh(m, s) : k <= Newest(m, s)
  BY <1>1, NewestExists
<1>8. ring \in [Slot -> Command]
  <2>1. ASSUME NEW s \in Slot, Fresh(m, s) # {}
        PROVE  m.commands[Newest(m, s) - first + 1] \in Command
    <3>1. PICK n : n = Newest(m, s) /\ n \in first .. end
      BY <1>6, <1>7, <2>1
    <3>2. n - first + 1 \in 1 .. Len(m.commands)
      BY <1>3, <3>1
    <3> QED
      BY <1>3, <3>1, <3>2
  <2>2. \A s \in Slot : ring[s] \in Command
    BY <1>5, <2>1
  <2> QED
    BY <1>5, <2>2
<1>9. ASSUME ~overflowed, NEW n \in 1 .. last, last - n < MAX_RELIABLE_COMMANDS
      PROVE  ring[SlotOf(n)] = issued[n]
  <2>1. SlotOf(n) \in Slot
    BY SlotType
  <2>2. CASE n > seen
    <3>1. n \in first .. end
      BY <1>3, <1>4, <2>2
    <3>2. n \in Fresh(m, SlotOf(n))
      BY <1>6, <2>2, <3>1
    <3>3. PICK k : /\ k = Newest(m, SlotOf(n)) /\ n <= k
                   /\ k \in first .. end /\ SlotOf(k) = SlotOf(n)
      BY <1>6, <1>7, <2>1, <3>2
    <3>4. k = n
      <4>1. n \in Int /\ k \in Int /\ k - n < MAX_RELIABLE_COMMANDS
        BY <1>4, <1>9, <3>3, RingSize
      <4>2. ~(n < k)
        BY <3>3, <4>1, OtherSlot
      <4> QED
        BY <3>3, <4>1, <4>2
    <3>5. ring[SlotOf(n)] = m.commands[n - first + 1]
      BY <1>5, <2>1, <3>2, <3>3, <3>4
    <3>6. m.commands[n - first + 1] = issued[n]
      BY <1>2, <1>9, <3>1 DEF Covers
    <3> QED
      BY <3>5, <3>6
  <2>3. CASE n <= seen
    <3>1. Fresh(m, SlotOf(n)) = {}
      <4> SUFFICES ASSUME NEW k \in Fresh(m, SlotOf(n))
                   PROVE  FALSE
        OBVIOUS
      <4>1. k \in first .. end /\ k > seen /\ SlotOf(k) = SlotOf(n)
        BY <1>6
      <4>2. n \in Int /\ k \in Int /\ n < k /\ k - n < MAX_RELIABLE_COMMANDS
        BY <1>4, <1>9, <2>3, <4>1, RingSize
      <4> QED
        BY <4>1, <4>2, OtherSlot
    <3>2. ring[SlotOf(n)] = clc.serverCommands[SlotOf(n)]
      BY <1>5, <2>1, <3>1
    <3>3. n \in 1 .. seen /\ seen - n < MAX_RELIABLE_COMMANDS
      BY <1>4, <1>9, <2>3, RingSize
    <3>4. clc.serverCommands[SlotOf(n)] = issued[n]
      BY <1>1, <1>9, <3>3 DEF IInv, ReceivedInv, RingHolds
    <3> QED
      BY <3>2, <3>4
  <2> QED
    BY <2>2, <2>3
<1> QED
  BY <1>1, <1>2, <1>4, <1>8, <1>9 DEF RingHolds

(***************************************************************************)
(* The messages left in flight when message i has been received.           *)
(***************************************************************************)
LEMMA LaterCover ==
  ASSUME toClient \in Seq(MessageType), ToClientInv, NEW i \in 1 .. Len(toClient),
         NEW rest, rest = SubSeq(toClient, i + 1, Len(toClient))
  PROVE  /\ rest \in Seq(MessageType)
         /\ \A j \in 1 .. Len(rest) : Covers(rest[j])
<1>1. /\ rest \in Seq(MessageType)
      /\ \A j \in 1 .. Len(rest) : i + j \in 1 .. Len(toClient) /\ rest[j] = toClient[i + j]
  BY Suffix
<1> QED
  BY <1>1 DEF ToClientInv

(***************************************************************************)
(* CL_ParseServerMessage keeps the invariant.                              *)
(***************************************************************************)
LEMMA ParseKeeps ==
  ASSUME IInv, NEW i \in 1 .. Len(toClient), CL_ParseServerMessage(i) PROVE IInv'
<1>1. toClient \in Seq(MessageType)
  BY DEF IInv, TypeOK, MessageType
<1>2. PICK m \in MessageType : m = toClient[i] /\ Covers(m)
  BY <1>1 DEF IInv, ToClientInv
<1>3. PICK ring, last : ring = NewRing(m) /\ last = Last(m)
  OBVIOUS
<1>4. /\ last \in Nat /\ ring \in [Slot -> Command]
      /\ clc.serverCommandSequence <= last
      /\ m.issued <= last
      /\ last <= Len(issued)
      /\ ~overflowed => RingHolds(ring, issued, last)
  BY <1>2, <1>3, ParsedSound
<1>5. /\ clc' = [clc EXCEPT !.serverCommandSequence = last, !.serverCommands = ring,
                            !.serverCommandNum = last]
      /\ snapIssued' = m.issued
      /\ toClient' = SubSeq(toClient, i + 1, Len(toClient))
      /\ UNCHANGED <<cl, toServer, issued, executed, overflowed>>
  <2>1. Parsed(m) = [clc EXCEPT !.serverCommandSequence = Last(m),
                                !.serverCommands = NewRing(m),
                                !.serverCommandNum = Last(m)]
    BY DEF Parsed, NewRing, Newest, Fresh, Last, IInv, TypeOK
  <2> QED
    BY <1>2, <1>3, <2>1 DEF CL_ParseServerMessage
<1>6. /\ clc'.serverCommandSequence = last /\ clc'.serverCommands = ring
      /\ clc'.serverCommandNum = last
      /\ clc'.lastExecutedServerCommand = clc.lastExecutedServerCommand
      /\ clc'.state = clc.state
  BY <1>5 DEF IInv, TypeOK
<1>7. /\ toClient' \in Seq(MessageType)
      /\ \A j \in 1 .. Len(toClient') : Covers(toClient'[j])
  BY <1>1, <1>5, LaterCover DEF IInv
<1>8. TypeOK'
  <2>1. clc' \in [state : {"active", "cycledOut", "disconnected"},
                  serverCommandSequence : Nat, serverCommands : [Slot -> Command],
                  lastExecutedServerCommand : Nat, serverCommandNum : Nat]
    BY <1>4, <1>5 DEF IInv, TypeOK
  <2>2. snapIssued' \in Nat
    BY <1>2, <1>5 DEF MessageType
  <2> QED
    BY <1>5, <1>7, <2>1, <2>2 DEF IInv, TypeOK, MessageType
<1>9. ServerInv'
  BY <1>5 DEF IInv, ServerInv, Counts, Holds, RingHolds, Pending, InGame
<1>10. ToClientInv'
  BY <1>5, <1>7 DEF ToClientInv, Covers
<1>11. ToServerInv'
  <2>1. /\ toServer \in Seq(Nat) /\ clc.serverCommandSequence \in Nat
        /\ cl.reliableAcknowledge \in Nat
    BY DEF IInv, TypeOK
  <2>2. \A j \in 1 .. Len(toServer) : toServer[j] <= last
    <3> SUFFICES ASSUME NEW j \in 1 .. Len(toServer)
                 PROVE  toServer[j] <= last
      OBVIOUS
    <3>1. toServer[j] \in Nat /\ toServer[j] <= clc.serverCommandSequence
      BY <2>1 DEF IInv, ToServerInv
    <3> QED
      BY <1>4, <2>1, <3>1
  <2>3. cl.reliableAcknowledge <= last
    BY <1>4, <2>1 DEF IInv, ToServerInv, AcknowledgedReceived
  <2> QED
    BY <1>5, <1>6, <2>2, <2>3 DEF IInv, ToServerInv, AcknowledgedReceived
<1>12. ReceivedInv'
  <2>1. clc.lastExecutedServerCommand <= last
    BY <1>4 DEF IInv, TypeOK, ReceivedInv
  <2>2. snapIssued' <= last
    BY <1>4, <1>5
  <2> QED
    BY <1>4, <1>5, <1>6, <2>1, <2>2 DEF ReceivedInv, RingHolds
<1>13. ExecutedInv'
  BY <1>5, <1>6 DEF IInv, ExecutedInv
<1> QED
  BY <1>8, <1>9, <1>10, <1>11, <1>12, <1>13 DEF IInv
-----------------------------------------------------------------------------
(***************************************************************************)
(* An acknowledgement in flight acknowledges commands that were issued     *)
(* and, while the client is in the game, no more than a ring of them is    *)
(* pending.                                                                *)
(***************************************************************************)
LEMMA AckSound ==
  ASSUME IInv, NEW ack \in Nat, cl.reliableAcknowledge <= ack, ack <= clc.serverCommandSequence
  PROVE  /\ ack <= cl.reliableSequence
         /\ InGame(cl) => cl.reliableSequence - ack \in 0 .. MAX_RELIABLE_COMMANDS
<1>1. /\ cl.reliableSequence \in Nat /\ cl.reliableAcknowledge \in Nat
      /\ clc.serverCommandSequence \in Nat
      /\ Len(issued) = cl.reliableSequence
      /\ clc.serverCommandSequence <= Len(issued)
  BY DEF IInv, TypeOK, ServerInv, Counts, ReceivedInv
<1>2. ack <= cl.reliableSequence
  BY <1>1
<1>3. ASSUME InGame(cl)
      PROVE  cl.reliableSequence - cl.reliableAcknowledge <= MAX_RELIABLE_COMMANDS
  BY <1>3 DEF IInv, ServerInv, Holds, Pending
<1> QED
  BY <1>1, <1>2, <1>3, RingSize

(***************************************************************************)
(* SV_ExecuteClientMessage: only the acknowledgement changes, it never     *)
(* goes back, and what is in flight behind it is no older.                 *)
(***************************************************************************)
LEMMA ExecuteKeeps ==
  ASSUME IInv, NEW i \in 1 .. Len(toServer), SV_ExecuteClientMessage(i) PROVE IInv'
<1>1. toServer \in Seq(Nat)
  BY DEF IInv, TypeOK
<1>2. PICK ack \in Nat : /\ ack = toServer[i]
                         /\ cl.reliableAcknowledge <= ack
                         /\ ack <= clc.serverCommandSequence
  BY <1>1 DEF IInv, ToServerInv
<1>3. /\ cl' = Acknowledged(ack)
      /\ toServer' = SubSeq(toServer, i + 1, Len(toServer))
      /\ UNCHANGED <<clc, toClient, issued, executed, overflowed, snapIssued>>
  BY <1>2 DEF SV_ExecuteClientMessage
<1>4. /\ cl \in ClientType
      /\ cl.reliableAcknowledge \in Nat /\ cl.reliableSequence \in Nat
      /\ cl.reliableAcknowledge <= cl.reliableSequence
      /\ clc.serverCommandSequence \in Nat
      /\ cl.reliableAcknowledge <= clc.serverCommandSequence
  BY DEF IInv, TypeOK, ServerInv, Counts, ClientType, ToServerInv, AcknowledgedReceived
<1>5. /\ ack <= cl.reliableSequence
      /\ InGame(cl) => cl.reliableSequence - ack \in 0 .. MAX_RELIABLE_COMMANDS
  BY <1>2, AckSound
<1>6. cl' = cl \/ cl' = [cl EXCEPT !.reliableAcknowledge = ack]
  <2>1. CASE InGame(cl)
    BY <1>3, <1>5, <2>1, RingSize DEF Acknowledged
  <2>2. CASE ~InGame(cl)
    BY <1>3, <2>2 DEF Acknowledged
  <2> QED
    BY <2>1, <2>2
<1>7. /\ cl' \in ClientType
      /\ cl'.state = cl.state
      /\ cl'.reliableSequence = cl.reliableSequence
      /\ cl'.reliableCommands = cl.reliableCommands
      /\ cl'.reliableAcknowledge \in {cl.reliableAcknowledge, ack}
  BY <1>2, <1>4, <1>6 DEF ClientType
<1>8. /\ cl'.reliableAcknowledge \in Nat
      /\ cl.reliableAcknowledge <= cl'.reliableAcknowledge
      /\ cl'.reliableAcknowledge <= ack
      /\ cl'.reliableAcknowledge <= cl.reliableSequence
      /\ cl'.reliableAcknowledge <= clc.serverCommandSequence
  BY <1>2, <1>4, <1>5, <1>7
<1>9. /\ toServer' \in Seq(Nat)
      /\ \A j \in 1 .. Len(toServer') : i + j \in 1 .. Len(toServer) /\ toServer'[j] = toServer[i + j]
  BY <1>1, <1>3, Suffix
<1>10. TypeOK'
  BY <1>3, <1>7, <1>9 DEF IInv, TypeOK, ClientType
<1>11. ServerInv'
  <2>1. Counts(cl, issued)'
    BY <1>3, <1>7, <1>8 DEF IInv, ServerInv, Counts
  <2>2. Holds(cl, issued) => Holds(cl, issued)'
    <3>1. Pending(cl)' <= Pending(cl) /\ Pending(cl) \in Int /\ Pending(cl)' \in Int
      BY <1>4, <1>7, <1>8 DEF Pending
    <3> QED
      BY <1>3, <1>7, <3>1, RingSize DEF Holds, RingHolds
  <2> QED
    BY <1>3, <1>7, <2>1, <2>2 DEF IInv, ServerInv, InGame
<1>12. ToClientInv'
  <2> SUFFICES ASSUME NEW j \in 1 .. Len(toClient)
               PROVE  Covers(toClient[j])'
    BY <1>3 DEF ToClientInv
  <2>1. PICK m \in MessageType : m = toClient[j] /\ Covers(m)
    <3>1. toClient \in Seq(MessageType)
      BY DEF IInv, TypeOK, MessageType
    <3> QED
      BY <3>1 DEF IInv, ToClientInv
  <2>2. Len(issued) \in Nat /\ Len(issued') \in Nat /\ Extends(issued, issued')
    BY <1>3 DEF IInv, TypeOK, Extends
  <2>3. Covers(m)'
    BY <1>3, <1>4, <1>8, <2>1, <2>2, StillCovers
  <2> QED
    BY <1>3, <2>1, <2>3 DEF Covers
<1>13. ToServerInv'
  <2>1. \A j \in 1 .. Len(toServer') : /\ cl'.reliableAcknowledge <= toServer'[j]
                                       /\ toServer'[j] <= clc.serverCommandSequence
    <3> SUFFICES ASSUME NEW j \in 1 .. Len(toServer')
                 PROVE  /\ cl'.reliableAcknowledge <= toServer'[j]
                        /\ toServer'[j] <= clc.serverCommandSequence
      OBVIOUS
    <3>1. PICK k \in 1 .. Len(toServer) : i < k /\ toServer'[j] = toServer[k]
      <4>1. i + j \in 1 .. Len(toServer) /\ i < i + j
        BY <1>9
      <4> QED
        BY <1>9, <4>1
    <3>2. /\ toServer[k] \in Nat /\ ack <= toServer[k]
          /\ toServer[k] <= clc.serverCommandSequence
      BY <1>1, <1>2, <3>1 DEF IInv, ToServerInv
    <3> QED
      BY <1>8, <3>1, <3>2
  <2>2. ASSUME NEW j \in 1 .. Len(toServer'), NEW k \in 1 .. Len(toServer'), j < k
        PROVE  toServer'[j] <= toServer'[k]
    <3>1. PICK p \in 1 .. Len(toServer), q \in 1 .. Len(toServer) : p = i + j /\ q = i + k
      BY <1>9
    <3>2. p < q
      BY <2>2, <3>1
    <3>3. toServer[p] <= toServer[q]
      BY <3>2 DEF IInv, ToServerInv
    <3> QED
      BY <1>9, <3>1, <3>3
  <2> QED
    BY <1>3, <1>8, <2>1, <2>2 DEF ToServerInv, AcknowledgedReceived
<1>14. ReceivedInv' /\ ExecutedInv'
  BY <1>3 DEF IInv, ReceivedInv, ExecutedInv, RingHolds
<1> QED
  BY <1>10, <1>11, <1>12, <1>13, <1>14 DEF IInv

(***************************************************************************)
(* CL_GetServerCommand: what is not cycled out is still the command that   *)
(* was issued.                                                             *)
(***************************************************************************)
LEMMA GetKeeps == ASSUME IInv, CL_GetServerCommand PROVE IInv'
<1>1. PICK n \in Nat : n = clc.lastExecutedServerCommand + 1
  BY DEF IInv, TypeOK
<1>2. PICK command : command = clc.serverCommands[SlotOf(n)]
  OBVIOUS
<1>3. UNCHANGED <<cl, toClient, toServer, issued, overflowed, snapIssued>>
  BY DEF CL_GetServerCommand
<1>4. PICK seen \in Nat, num \in Nat :
         /\ seen = clc.serverCommandSequence /\ num = clc.serverCommandNum
         /\ n <= num /\ num <= seen /\ seen <= Len(issued)
  BY <1>1 DEF CL_GetServerCommand, IInv, TypeOK, ReceivedInv
<1>5. ServerInv' /\ ToClientInv'
  BY <1>3 DEF IInv, ServerInv, Counts, Holds, RingHolds, Pending, InGame, ToClientInv, Covers
<1>6. CASE CycledOut(n)
  <2>1. clc' = [clc EXCEPT !.state = "cycledOut"] /\ executed' = executed
    BY <1>1, <1>6 DEF CL_GetServerCommand
  <2>2. /\ clc'.serverCommandSequence = clc.serverCommandSequence
        /\ clc'.serverCommandNum = clc.serverCommandNum
        /\ clc'.serverCommands = clc.serverCommands
        /\ clc'.lastExecutedServerCommand = clc.lastExecutedServerCommand
    BY <2>1 DEF IInv, TypeOK
  <2>3. TypeOK'
    BY <1>3, <2>1 DEF IInv, TypeOK
  <2>4. ToServerInv' /\ ReceivedInv' /\ ExecutedInv'
    BY <1>3, <2>1, <2>2
    DEF IInv, ToServerInv, AcknowledgedReceived, ReceivedInv, ExecutedInv, RingHolds
  <2> QED
    BY <1>5, <2>3, <2>4 DEF IInv
<1>7. CASE ~CycledOut(n)
  <2>1. PICK state \in {"active", "cycledOut", "disconnected"} :
           clc' = [clc EXCEPT !.lastExecutedServerCommand = n, !.state = state]
    BY <1>1, <1>7 DEF CL_GetServerCommand, IInv, TypeOK
  <2>2. executed' = Append(executed, command)
    BY <1>1, <1>2, <1>7 DEF CL_GetServerCommand
  <2>3. /\ clc'.serverCommandSequence = seen
        /\ clc'.serverCommandNum = num
        /\ clc'.serverCommands = clc.serverCommands
        /\ clc'.lastExecutedServerCommand = n
    BY <1>4, <2>1 DEF IInv, TypeOK
  <2>4. command \in Command
    BY <1>2, SlotType DEF IInv, TypeOK
  <2>5. executed \in Seq(Command) /\ Len(executed) \in Nat /\ Len(executed) + 1 = n
    BY <1>1 DEF IInv, TypeOK, ExecutedInv
  <2>6. /\ executed' \in Seq(Command) /\ Len(executed') = n /\ executed'[n] = command
        /\ \A j \in 1 .. Len(executed) : executed'[j] = executed[j]
    BY <2>2, <2>4, <2>5, Appended
  <2>7. TypeOK'
    <3>1. clc' \in [state : {"active", "cycledOut", "disconnected"},
                    serverCommandSequence : Nat, serverCommands : [Slot -> Command],
                    lastExecutedServerCommand : Nat, serverCommandNum : Nat]
      BY <2>1 DEF IInv, TypeOK
    <3> QED
      BY <1>3, <2>6, <3>1 DEF IInv, TypeOK
  <2>8. ToServerInv'
    BY <1>3, <1>4, <2>3 DEF IInv, ToServerInv, AcknowledgedReceived
  <2>9. ReceivedInv'
    BY <1>3, <1>4, <2>3 DEF IInv, ReceivedInv, RingHolds
  <2>10. ASSUME ~overflowed, NEW j \in 1 .. n
         PROVE  executed'[j] = issued[j]
    <3>1. CASE j = n
      <4>1. n \in 1 .. seen /\ seen - n < MAX_RELIABLE_COMMANDS
        BY <1>4, <1>7, <2>5, RingSize DEF CycledOut
      <4>2. clc.serverCommands[SlotOf(n)] = issued[n]
        BY <1>4, <2>10, <4>1 DEF IInv, ReceivedInv, RingHolds
      <4> QED
        BY <1>2, <2>6, <3>1, <4>2
    <3>2. CASE j # n
      <4>1. j \in 1 .. Len(executed)
        BY <2>5, <3>2
      <4> QED
        BY <2>6, <2>10, <4>1 DEF IInv, ExecutedInv
    <3> QED
      BY <3>1, <3>2
  <2>11. ExecutedInv'
    BY <1>3, <2>3, <2>6, <2>10 DEF ExecutedInv
  <2> QED
    BY <1>5, <2>7, <2>8, <2>9, <2>11 DEF IInv
<1> QED
  BY <1>6, <1>7
-----------------------------------------------------------------------------
(***************************************************************************)
(* A new connection: nothing issued, received or executed.                 *)
(***************************************************************************)
LEMMA InitSound == ASSUME Init PROVE IInv
<1>1. [s \in Slot |-> NoCommand] \in [Slot -> Command]
  BY DEF NoCommand, Command, Kind
<1>2. PICK ring \in [Slot -> Command] :
         /\ cl = [state |-> "active", reliableSequence |-> 0, reliableAcknowledge |-> 0,
                  reliableCommands |-> ring]
         /\ clc = [state |-> "active", serverCommandSequence |-> 0,
                   serverCommands |-> ring,
                   lastExecutedServerCommand |-> 0, serverCommandNum |-> 0]
  BY <1>1 DEF Init
<1>3. /\ toClient = << >> /\ toServer = << >> /\ issued = << >> /\ executed = << >>
      /\ overflowed = FALSE /\ snapIssued = 0
  BY DEF Init
<1>4. TypeOK
  <2>1. /\ cl \in ClientType
        /\ clc \in [state : {"active", "cycledOut", "disconnected"},
                    serverCommandSequence : Nat, serverCommands : [Slot -> Command],
                    lastExecutedServerCommand : Nat, serverCommandNum : Nat]
    BY <1>2 DEF ClientType
  <2>2. /\ toClient \in Seq(MessageType) /\ toServer \in Seq(Nat)
        /\ issued \in Seq(Command) /\ executed \in Seq(Command)
    BY <1>3
  <2> QED
    BY <1>3, <2>1, <2>2 DEF TypeOK, ClientType, MessageType
<1>5. ServerInv
  BY <1>2, <1>3, RingSize DEF ServerInv, Counts, Holds, ClientType, RingHolds, Pending
<1>6. ToClientInv /\ ToServerInv
  BY <1>2, <1>3 DEF ToClientInv, ToServerInv, AcknowledgedReceived
<1>7. ReceivedInv /\ ExecutedInv
  BY <1>2, <1>3 DEF ReceivedInv, ExecutedInv, RingHolds
<1> QED
  BY <1>4, <1>5, <1>6, <1>7 DEF IInv

(***************************************************************************)
(* Nothing happens.                                                        *)
(***************************************************************************)
LEMMA StutterKeeps == ASSUME IInv, UNCHANGED vars PROVE IInv'
<1>1. UNCHANGED <<cl, clc, toClient, toServer, issued, executed, overflowed, snapIssued>>
  BY DEF vars
<1>2. TypeOK'
  BY <1>1 DEF IInv, TypeOK
<1>3. ServerInv'
  <2>1. ServerInv
    BY DEF IInv
  <2>2. InGame(cl)' = InGame(cl) /\ Counts(cl, issued)' = Counts(cl, issued)
    BY <1>1 DEF InGame, Counts
  <2>3. Holds(cl, issued)' = Holds(cl, issued)
    BY <1>1 DEF Holds, RingHolds, Pending
  <2> QED
    BY <1>1, <2>1, <2>2, <2>3 DEF ServerInv
<1>4. ToClientInv'
  <2>1. ToClientInv /\ toClient' = toClient
    BY <1>1 DEF IInv
  <2>2. ASSUME NEW m PROVE Covers(m)' = Covers(m)
    BY <1>1 DEF Covers
  <2> QED
    BY <2>1, <2>2 DEF ToClientInv
<1>5. ToServerInv' /\ ReceivedInv' /\ ExecutedInv'
  BY <1>1 DEF IInv, ToServerInv, AcknowledgedReceived, ReceivedInv, ExecutedInv, RingHolds
<1> QED
  BY <1>2, <1>3, <1>4, <1>5 DEF IInv

(***************************************************************************)
(* The invariant is inductive: every step of the server, the client and    *)
(* the network keeps it.                                                   *)
(***************************************************************************)
THEOREM Inductive == Spec => []IInv
<1>1. Init => IInv
  BY InitSound
<1>2. IInv /\ [Next]_vars => IInv'
  <2> SUFFICES ASSUME IInv, [Next]_vars
               PROVE  IInv'
    OBVIOUS
  <2>1. CASE SV_AddServerCommand
    BY <2>1, AddKeeps
  <2>2. CASE SV_DropClient
    BY <2>2, DropKeeps
  <2>3. CASE SV_SendClientSnapshot
    BY <2>3, SendKeeps
  <2>4. CASE ClientReceives
    BY <2>4, ParseKeeps DEF ClientReceives
  <2>5. CASE CL_WritePacket
    BY <2>5, WriteKeeps
  <2>6. CASE ServerReceives
    BY <2>6, ExecuteKeeps DEF ServerReceives
  <2>7. CASE CL_GetServerCommand
    BY <2>7, GetKeeps
  <2>8. CASE UNCHANGED vars
    BY <2>8, StutterKeeps
  <2> QED
    BY <2>1, <2>2, <2>3, <2>4, <2>5, <2>6, <2>7, <2>8 DEF Next
<1> QED
  BY <1>1, <1>2, PTL DEF Spec

(***************************************************************************)
(* The rings, counters and messages keep their types.                      *)
(***************************************************************************)
THEOREM TypeCorrect == Spec => []TypeOK
<1>1. IInv => TypeOK
  BY DEF IInv
<1> QED
  BY <1>1, Inductive, PTL

(***************************************************************************)
(* SV_AddServerCommand never overwrites a pending command of a client in   *)
(* the game, for any ring size.                                            *)
(***************************************************************************)
THEOREM PendingIsKept == Spec => []PendingKept
<1>1. IInv => PendingKept
  <2> SUFFICES ASSUME IInv, InGame(cl)
               PROVE  /\ Pending(cl) \in 0 .. MAX_RELIABLE_COMMANDS
                      /\ \A n \in cl.reliableAcknowledge + 1 .. cl.reliableSequence :
                             cl.reliableCommands[SlotOf(n)] = issued[n]
    BY DEF PendingKept
  <2>1. PICK ack \in Nat, last \in Nat :
           ack = cl.reliableAcknowledge /\ last = cl.reliableSequence
    BY DEF IInv, TypeOK
  <2>2. /\ ack <= last /\ last - ack <= MAX_RELIABLE_COMMANDS
        /\ RingHolds(cl.reliableCommands, issued, last)
    BY <2>1 DEF IInv, ServerInv, Counts, Holds, Pending
  <2>3. \A n \in ack + 1 .. last : n \in 1 .. last /\ last - n < MAX_RELIABLE_COMMANDS
    BY <2>2, RingSize
  <2>4. \A n \in ack + 1 .. last : cl.reliableCommands[SlotOf(n)] = issued[n]
    BY <2>2, <2>3 DEF RingHolds
  <2>5. Pending(cl) \in 0 .. MAX_RELIABLE_COMMANDS
    BY <2>1, <2>2, RingSize DEF Pending
  <2> QED
    BY <2>1, <2>4, <2>5
<1> QED
  BY <1>1, Inductive, PTL

(***************************************************************************)
(* CL_GetServerCommand gives cgame exactly the commands that               *)
(* SV_AddServerCommand issued, in their order, until an overflow.          *)
(***************************************************************************)
THEOREM OrderKept == Spec => []ExecutedAsIssued
<1>1. IInv => ExecutedAsIssued
  <2> SUFFICES ASSUME IInv, ~overflowed
               PROVE  /\ Len(executed) <= Len(issued)
                      /\ \A n \in 1 .. Len(executed) : executed[n] = issued[n]
    BY DEF ExecutedAsIssued
  <2>1. \A n \in 1 .. Len(executed) : executed[n] = issued[n]
    BY DEF IInv, ExecutedInv
  <2>2. Len(executed) <= Len(issued)
    BY DEF IInv, TypeOK, ReceivedInv, ExecutedInv
  <2> QED
    BY <2>1, <2>2
<1> QED
  BY <1>1, Inductive, PTL

(***************************************************************************)
(* A snapshot never reaches cgame before the commands issued ahead of it:  *)
(* every message repeats all that the client may have missed.              *)
(***************************************************************************)
THEOREM SnapshotsWait == Spec => []SnapshotAfterCommands
<1>1. IInv => SnapshotAfterCommands
  BY DEF IInv, TypeOK, ReceivedInv, SnapshotAfterCommands
<1> QED
  BY <1>1, Inductive, PTL

(***************************************************************************)
(* SV_ExecuteClientMessage never finds an acknowledgement more than a ring *)
(* behind, whatever is lost or late.                                       *)
(***************************************************************************)
THEOREM NeverGivesUp == Spec => []NothingGivenUp
<1>1. IInv => NothingGivenUp
  <2> SUFFICES ASSUME IInv, InGame(cl), NEW i \in 1 .. Len(toServer)
               PROVE  cl.reliableSequence - toServer[i] \in 0 .. MAX_RELIABLE_COMMANDS
    BY DEF NothingGivenUp
  <2>1. toServer \in Seq(Nat)
    BY DEF IInv, TypeOK
  <2>2. PICK ack \in Nat : /\ ack = toServer[i]
                           /\ cl.reliableAcknowledge <= ack
                           /\ ack <= clc.serverCommandSequence
    BY <2>1 DEF IInv, ToServerInv
  <2> QED
    BY <2>2, AckSound
<1> QED
  BY <1>1, Inductive, PTL

(***************************************************************************)
(* The server's reliableAcknowledge never passes what the client has.      *)
(***************************************************************************)
THEOREM NoFalseAcknowledge == Spec => []AcknowledgedReceived
<1>1. IInv => AcknowledgedReceived
  BY DEF IInv, ToServerInv
<1> QED
  BY <1>1, Inductive, PTL

(***************************************************************************)
(* No step of the server takes an acknowledgement back.                    *)
(***************************************************************************)
THEOREM AcknowledgeGrows == Spec => AcknowledgeMonotone
<1>1. ASSUME IInv, [Next]_vars
      PROVE  [cl'.reliableAcknowledge >= cl.reliableAcknowledge]_vars
  <2>1. cl.reliableAcknowledge \in Nat
    BY <1>1 DEF IInv, TypeOK
  <2>2. CASE SV_AddServerCommand
    <3>1. PICK game \in Kind : game = "game"
      BY DEF Kind
    <3>2. PICK log : log = issued \o IssuedBy(cl, game)
      OBVIOUS
    <3>3. /\ InGame(cl) /\ Counts(cl, issued) /\ Holds(cl, issued)
          /\ cl' = AddServerCommand(cl, game)
      BY <1>1, <2>2, <3>1 DEF IInv, ServerInv, SV_AddServerCommand
    <3>4. cl'.reliableAcknowledge = cl.reliableAcknowledge
      BY <3>2, <3>3, AddSound
    <3> QED
      BY <2>1, <3>4
  <2>3. CASE SV_DropClient
    <3>1. PICK log : log = issued \o IssuedByDrop(cl)
      OBVIOUS
    <3>2. /\ InGame(cl) /\ Counts(cl, issued) /\ Holds(cl, issued)
          /\ cl' = DropClient(cl)
      BY <1>1, <2>3 DEF IInv, ServerInv, SV_DropClient
    <3>3. cl'.reliableAcknowledge = cl.reliableAcknowledge
      BY <3>1, <3>2, DropSound
    <3> QED
      BY <2>1, <3>3
  <2>4. CASE ServerReceives
    <3>1. PICK i \in 1 .. Len(toServer) : SV_ExecuteClientMessage(i)
      BY <2>4 DEF ServerReceives
    <3>2. PICK ack \in Nat : /\ ack = toServer[i]
                             /\ cl.reliableAcknowledge <= ack
                             /\ ack <= clc.serverCommandSequence
      <4>1. toServer \in Seq(Nat)
        BY <1>1 DEF IInv, TypeOK
      <4> QED
        BY <1>1, <4>1 DEF IInv, ToServerInv
    <3>3. /\ cl.reliableSequence - ack >= 0
          /\ InGame(cl) => cl.reliableSequence - ack <= MAX_RELIABLE_COMMANDS
      <4>1. cl.reliableSequence \in Nat
        BY <1>1 DEF IInv, TypeOK
      <4> QED
        BY <1>1, <3>2, <4>1, RingSize, AckSound
    <3>4. cl' = cl \/ cl' = [cl EXCEPT !.reliableAcknowledge = ack]
      <4>1. cl' = Acknowledged(ack)
        BY <3>1, <3>2 DEF SV_ExecuteClientMessage
      <4>2. cl.reliableSequence \in Nat
        BY <1>1 DEF IInv, TypeOK
      <4> QED
        BY <3>2, <3>3, <4>1, <4>2, RingSize DEF Acknowledged
    <3> QED
      BY <1>1, <2>1, <3>2, <3>4 DEF IInv, TypeOK
  <2>5. CASE \/ SV_SendClientSnapshot \/ ClientReceives
             \/ CL_WritePacket \/ CL_GetServerCommand
    BY <2>1, <2>5 DEF SV_SendClientSnapshot, ClientReceives, CL_ParseServerMessage,
                      CL_WritePacket, CL_GetServerCommand
  <2>6. CASE UNCHANGED vars
    BY <2>6
  <2> QED
    BY <1>1, <2>2, <2>3, <2>4, <2>5, <2>6 DEF Next
<1> QED
  BY <1>1, Inductive, PTL DEF Spec, AcknowledgeMonotone
=============================================================================
