------------------------- MODULE AdmissionProofs -------------------------
(***************************************************************************)
(* Proofs about how clients come and go.  First ClientSlots: the table of  *)
(* slots, for any number of slots and any ring.  Then Connection, whatever *)
(* its time limits: the handshake by which one client comes by its slot.   *)
(***************************************************************************)
EXTENDS ClientSlots, Connection, RingLemmas, FiniteSetTheorems

SlotType == [state : States, bot : BOOLEAN, justConnected : BOOLEAN,
             outstanding : Nat, last : Kinds, joined : 0 .. 1, disconnects : Nat]

(***************************************************************************)
(* A slot whose next overflow is still to come, and how many there are.    *)
(***************************************************************************)
Lives(a) == Primed(a) /\ a.outstanding <= MAX_RELIABLE_COMMANDS

Live(cs) == {c \in Clients : Lives(cs[c])}

Within(cs, n) == Cardinality(Live(cs)) <= n

(***************************************************************************)
(* What a cascade of drops makes of a slot: it stays and is sent commands, *)
(* or it overflows, once, and leaves.                                      *)
(***************************************************************************)
Stays(a, b) ==
    /\ b.state = a.state
    /\ b.bot = a.bot
    /\ b.joined = a.joined
    /\ b.disconnects = a.disconnects
    /\ b.outstanding >= a.outstanding
    /\ Lives(a) => Lives(b)
    /\ ~Primed(a) => b = a

Leaves(a, b) ==
    /\ b.state = IF a.bot THEN "free" ELSE "zombie"
    /\ b.bot = a.bot
    /\ b.joined = 0
    /\ b.disconnects = a.disconnects + 1
    /\ b.last = "disconnect"

Moves(a, b) == Stays(a, b) \/ (Lives(a) /\ Leaves(a, b))

Cascade(cs, t) == \A d \in Clients : Moves(cs[d], t[d])

(***************************************************************************)
(* A slot that is dropped for a reason, or without one, is told and leaves *)
(* the game; overflowing on the way it leaves twice.                       *)
(***************************************************************************)
Departs(a, b, reason) ==
    /\ b.state = IF a.bot THEN "free" ELSE "zombie"
    /\ b.bot = a.bot
    /\ b.joined = 0
    /\ \/ b.disconnects = a.disconnects + 1
       \/ Lives(a) /\ b.disconnects = a.disconnects + 2
    /\ reason /\ Primed(a) => b.last = "disconnect"

Dropped(cs, c, reason, t) ==
    /\ t \in Tables
    /\ Departs(cs[c], t[c], reason)
    /\ \A d \in Clients \ {c} : Moves(cs[d], t[d])

(***************************************************************************)
(* drop is right about overflows in a table with less than n rings that    *)
(* have not yet overflowed.                                                *)
(***************************************************************************)
Handles(drop, n) ==
    \A t \in Tables, c \in Clients :
        /\ Primed(t[c])
        /\ t[c].outstanding = MAX_RELIABLE_COMMANDS + 1
        /\ Within(t, n - 1)
        => Dropped(t, c, TRUE, drop[c][t])

(***************************************************************************)
(* A command for slot c has made t of the table cs.                        *)
(***************************************************************************)
Told(cs, c, kind, t) ==
    /\ t \in Tables
    /\ Cascade(cs, t)
    /\ Primed(t[c]) => t[c].last = kind

(***************************************************************************)
(* The constants are numbers.                                              *)
(***************************************************************************)
LEMMA Sizes ==
  /\ maxclients \in Nat
  /\ maxclients >= 1
  /\ MAX_RELIABLE_COMMANDS \in Nat
  /\ MAX_RELIABLE_COMMANDS >= 1
  BY ClientSlotsAssumption

-----------------------------------------------------------------------------
(***************************************************************************)
(* A slot of a table.                                                      *)
(***************************************************************************)
LEMMA SlotOf ==
  ASSUME NEW cs \in Tables, NEW c \in Clients
  PROVE  cs[c] \in SlotType
  BY DEF Tables, SlotType

(***************************************************************************)
(* A slot with a command more is a slot.                                   *)
(***************************************************************************)
LEMMA SlotCounted ==
  ASSUME NEW a \in SlotType, NEW kind \in Kinds
  PROVE  /\ [a EXCEPT !.outstanding = @ + 1, !.last = kind] \in SlotType
         /\ [a EXCEPT !.outstanding = @ + 1, !.last = kind].last = kind
<1>1. a.outstanding + 1 \in Nat
  BY DEF SlotType
<1>2. \A k \in Nat : [a EXCEPT !.outstanding = k, !.last = kind] \in SlotType
  BY DEF SlotType
<1> QED
  BY <1>1, <1>2 DEF SlotType

(***************************************************************************)
(* A table whose slots are slots.                                          *)
(***************************************************************************)
LEMMA TableOf ==
  ASSUME NEW cs \in Tables, NEW c \in Clients, NEW a \in SlotType
  PROVE  [cs EXCEPT ![c] = a] \in Tables
  BY DEF Tables, SlotType

(***************************************************************************)
(* The game is told that a client has gone.                                *)
(***************************************************************************)
LEMMA GameTold ==
  ASSUME NEW cs \in Tables, NEW c \in Clients, NEW t, t = GameClientDisconnect(cs, c)
  PROVE  /\ t \in Tables
         /\ \A d \in Clients \ {c} : t[d] = cs[d]
         /\ t[c].state = cs[c].state /\ t[c].bot = cs[c].bot
         /\ t[c].last = cs[c].last /\ t[c].outstanding = cs[c].outstanding
         /\ t[c].joined = 0 /\ t[c].disconnects = cs[c].disconnects + 1
<1> DEFINE e == [cs[c] EXCEPT !.joined = 0, !.disconnects = @ + 1]
<1>1. cs[c] \in SlotType /\ cs[c].disconnects + 1 \in Nat /\ 0 \in 0 .. 1
  BY SlotOf DEF SlotType
<1>2. e \in SlotType
  <2>1. \A j \in 0 .. 1, k \in Nat :
            [cs[c] EXCEPT !.joined = j, !.disconnects = k] \in SlotType
    BY <1>1 DEF SlotType
  <2> QED
    BY <1>1, <2>1
<1>3. /\ e.state = cs[c].state /\ e.bot = cs[c].bot
      /\ e.last = cs[c].last /\ e.outstanding = cs[c].outstanding
      /\ e.joined = 0 /\ e.disconnects = cs[c].disconnects + 1
  BY <1>1 DEF SlotType
<1>4. t = [cs EXCEPT ![c] = e]
  BY <1>1 DEF GameClientDisconnect, Tables
<1> HIDE DEF e
<1>5. t \in Tables
  BY <1>2, <1>4, TableOf
<1>6. t[c] = e /\ \A d \in Clients \ {c} : t[d] = cs[d]
  BY <1>4 DEF Tables
<1> QED
  BY <1>3, <1>5, <1>6

(***************************************************************************)
(* A slot moves as in two cascades.                                        *)
(***************************************************************************)
LEMMA MovesTwice ==
  ASSUME NEW a \in SlotType, NEW b \in SlotType, NEW e \in SlotType,
         Moves(a, b), Moves(b, e)
  PROVE  Moves(a, e)
  BY Sizes DEF Moves, Stays, Leaves, Lives, Primed, SlotType, States

(***************************************************************************)
(* A slot may stay as it is.                                               *)
(***************************************************************************)
LEMMA MovesNot ==
  ASSUME NEW a \in SlotType
  PROVE  Moves(a, a)
  BY DEF Moves, Stays, SlotType

(***************************************************************************)
(* Two cascades are one.                                                   *)
(***************************************************************************)
LEMMA CascadeTwice ==
  ASSUME NEW cs \in Tables, NEW t \in Tables, NEW u \in Tables,
         Cascade(cs, t), Cascade(t, u)
  PROVE  Cascade(cs, u)
  BY SlotOf, MovesTwice DEF Cascade

(***************************************************************************)
(* No command is a cascade.                                                *)
(***************************************************************************)
LEMMA CascadeNot ==
  ASSUME NEW cs \in Tables
  PROVE  Cascade(cs, cs)
  BY SlotOf, MovesNot DEF Cascade

-----------------------------------------------------------------------------
(***************************************************************************)
(* The rings that have not overflowed are finitely many.                   *)
(***************************************************************************)
LEMMA LiveFinite ==
  ASSUME NEW cs
  PROVE  /\ IsFiniteSet(Live(cs))
         /\ Cardinality(Live(cs)) \in Nat
         /\ Within(cs, maxclients)
<1>1. IsFiniteSet(Clients) /\ Cardinality(Clients) = maxclients
  BY Sizes, FS_Interval DEF Clients
<1>2. Live(cs) \in SUBSET Clients
  BY DEF Live
<1> QED
  BY <1>1, <1>2, FS_Subset, FS_CardinalityType DEF Within

(***************************************************************************)
(* There are no more of them when only some of them are left.              *)
(***************************************************************************)
LEMMA WithinKept ==
  ASSUME NEW cs, NEW t, NEW n \in Int, Within(cs, n), Live(t) \subseteq Live(cs)
  PROVE  Within(t, n)
<1>1. Cardinality(Live(t)) <= Cardinality(Live(cs))
  BY LiveFinite, FS_Subset
<1> QED
  BY <1>1, LiveFinite DEF Within

(***************************************************************************)
(* There is one less without one of them.                                  *)
(***************************************************************************)
LEMMA WithinSpent ==
  ASSUME NEW cs, NEW t, NEW n \in Int, NEW c \in Live(cs),
         Within(cs, n), Live(t) = Live(cs) \ {c}
  PROVE  Within(t, n - 1)
<1>1. Cardinality(Live(t)) = Cardinality(Live(cs)) - 1
  BY LiveFinite, FS_RemoveElement
<1> QED
  BY <1>1, LiveFinite DEF Within

(***************************************************************************)
(* A cascade leaves no more of them.                                       *)
(***************************************************************************)
LEMMA CascadeWithin ==
  ASSUME NEW cs \in Tables, NEW t \in Tables, NEW n \in Int,
         Cascade(cs, t), Within(cs, n)
  PROVE  Within(t, n)
<1>1. ASSUME NEW a \in SlotType, NEW b \in SlotType, Moves(a, b), Lives(b)
      PROVE  Lives(a)
  BY <1>1, Sizes DEF Moves, Stays, Leaves, Lives, Primed, SlotType
<1>2. \A d \in Clients : Lives(t[d]) => Lives(cs[d])
  BY <1>1, SlotOf DEF Cascade
<1>3. Live(t) \subseteq Live(cs)
  BY <1>2 DEF Live
<1> QED
  BY <1>3, WithinKept

-----------------------------------------------------------------------------
(***************************************************************************)
(* Loops over the slots: the table after the first n of them.              *)
(***************************************************************************)
IsLoop(g, step, cs, n) ==
    g = [c \in 0 .. n |-> IF c = 0 THEN cs ELSE step[c][g[c - 1]]]

(***************************************************************************)
(* Every loop can be run.                                                  *)
(***************************************************************************)
LEMMA LoopExists ==
  ASSUME NEW step, NEW cs, NEW n \in Nat
  PROVE  \E g : IsLoop(g, step, cs, n)
<1> DEFINE T == {k \in Nat : \E g : IsLoop(g, step, cs, k)}
<1>1. 0 \in T
  <2> DEFINE g == [c \in 0 .. 0 |-> cs]
  <2>1. \A c \in 0 .. 0 : c = 0
    OBVIOUS
  <2>2. IsLoop(g, step, cs, 0)
    BY <2>1 DEF IsLoop
  <2> HIDE DEF g
  <2> QED
    BY <2>2
<1>2. ASSUME NEW k \in Nat, k \in T PROVE k + 1 \in T
  <2>1. PICK g : IsLoop(g, step, cs, k)
    BY <1>2
  <2> DEFINE h == [c \in 0 .. k + 1 |-> IF c = 0 THEN cs ELSE step[c][g[c - 1]]]
  <2>2. \A c \in 0 .. k : g[c] = IF c = 0 THEN cs ELSE step[c][g[c - 1]]
    BY <2>1 DEF IsLoop
  <2>3. \A c \in 0 .. k : h[c] = g[c]
    BY <2>2
  <2>4. h = [c \in 0 .. k + 1 |-> IF c = 0 THEN cs ELSE step[c][h[c - 1]]]
    <3>1. ASSUME NEW c \in 0 .. k + 1, c # 0 PROVE c - 1 \in 0 .. k
      BY <3>1
    <3> QED
      BY <2>3, <3>1
  <2>5. IsLoop(h, step, cs, k + 1)
    BY <2>4 DEF IsLoop
  <2> QED
    BY <2>5
<1> QED
  BY <1>1, <1>2, Induction

(***************************************************************************)
(* A loop from table to table: what holds of the table before it and is    *)
(* kept by every slot's step, S[c] once slot c has had its own, holds of   *)
(* the table after it.                                                     *)
(***************************************************************************)
LEMMA LoopKeeps ==
  ASSUME NEW step, NEW cs, NEW S, cs \in S[0],
         \A c \in Clients, t \in Tables : t \in S[c - 1] => step[c][t] \in S[c],
         \A c \in 0 .. maxclients : S[c] \subseteq Tables
  PROVE  InSlotOrder(step, cs) \in S[maxclients]
<1>1. PICK g : IsLoop(g, step, cs, maxclients)
  BY Sizes, LoopExists
<1> DEFINE after == CHOOSE f : IsLoop(f, step, cs, maxclients)
<1>2. IsLoop(after, step, cs, maxclients)
  BY <1>1
<1>3. InSlotOrder(step, cs) = after[maxclients]
  BY DEF InSlotOrder, IsLoop
<1> HIDE DEF after
<1>4. after[0] = cs /\ \A c \in 1 .. maxclients : after[c] = step[c][after[c - 1]]
  <2>1. \A c \in 0 .. maxclients : after[c] = IF c = 0 THEN cs ELSE step[c][after[c - 1]]
    BY <1>2 DEF IsLoop
  <2> QED
    BY <2>1, Sizes
<1> DEFINE T == {c \in Nat : c <= maxclients => after[c] \in S[c]}
<1>5. 0 \in T
  BY <1>4
<1>6. ASSUME NEW c \in Nat, c \in T PROVE c + 1 \in T
  <2> SUFFICES ASSUME c + 1 <= maxclients PROVE after[c + 1] \in S[c + 1]
    OBVIOUS
  <2>1. c \in 0 .. maxclients /\ c + 1 \in Clients /\ (c + 1) - 1 = c
    BY Sizes DEF Clients
  <2>2. after[c] \in S[c]
    BY <1>6, <2>1
  <2>3. after[c + 1] = step[c + 1][after[c]]
    BY <1>4, <2>1 DEF Clients
  <2> QED
    BY <2>1, <2>2, <2>3
<1> HIDE DEF T
<1>7. maxclients \in T
  BY <1>5, <1>6, Induction, Sizes
<1> QED
  BY <1>3, <1>7, Sizes DEF T

-----------------------------------------------------------------------------
(***************************************************************************)
(* Nobody's ring but that of slot c is counted.                            *)
(***************************************************************************)
LEMMA CountedLive ==
  ASSUME NEW cs \in Tables, NEW t \in Tables, NEW c \in Clients, Lives(cs[c]), ~Lives(t[c]),
         \A d \in Clients \ {c} : t[d] = cs[d]
  PROVE  Live(t) = Live(cs) \ {c}
  BY DEF Live

(***************************************************************************)
(* A command: SV_AddServerCommand.                                         *)
(***************************************************************************)
LEMMA AddTells ==
  ASSUME NEW cs \in Tables, NEW c \in Clients, NEW kind \in Kinds, NEW drop, NEW n \in Int,
         Within(cs, n), Handles(drop, n)
  PROVE  Told(cs, c, kind, SV_AddServerCommand(cs, c, kind, drop))
<1> DEFINE t == SV_AddServerCommand(cs, c, kind, drop)
           counted == [cs EXCEPT ![c].outstanding = @ + 1]
<1>0. cs[c] \in SlotType /\ cs[c].outstanding \in Nat /\ MAX_RELIABLE_COMMANDS \in Nat
  BY SlotOf, Sizes DEF SlotType
<1>1. /\ counted \in Tables
      /\ counted[c] = [cs[c] EXCEPT !.outstanding = @ + 1]
      /\ \A d \in Clients \ {c} : counted[d] = cs[d]
  BY <1>0 DEF Tables, SlotType
<1>2. CASE ~Primed(cs[c])
  <2>1. t = cs
    BY <1>2 DEF SV_AddServerCommand
  <2> QED
    BY <1>2, <2>1, CascadeNot DEF Told
<1>3. CASE Primed(cs[c]) /\ counted[c].outstanding = MAX_RELIABLE_COMMANDS + 1
  <2>1. t = drop[c][counted]
    BY <1>3 DEF SV_AddServerCommand
  <2>2. /\ Lives(cs[c]) /\ ~Lives(counted[c]) /\ Primed(counted[c])
        /\ counted[c].bot = cs[c].bot /\ counted[c].disconnects = cs[c].disconnects
    BY <1>0, <1>1, <1>3 DEF Lives, Primed, SlotType
  <2>3. Within(counted, n - 1)
    <3>1. c \in Live(cs)
      BY <2>2 DEF Live
    <3> HIDE DEF counted
    <3>2. Live(counted) = Live(cs) \ {c}
      BY <1>1, <2>2, CountedLive
    <3> QED
      BY <3>1, <3>2, WithinSpent
  <2> HIDE DEF t, counted
  <2>4. Dropped(counted, c, TRUE, t)
    BY <1>1, <1>3, <2>1, <2>2, <2>3 DEF Handles
  <2>5. t \in Tables /\ t[c] \in SlotType /\ Departs(counted[c], t[c], TRUE)
    BY <2>4, SlotOf DEF Dropped
  <2>6. Leaves(cs[c], t[c])
    BY <2>2, <2>5 DEF Departs, Leaves
  <2>7. Moves(cs[c], t[c])
    BY <2>2, <2>6 DEF Moves
  <2>8. \A d \in Clients \ {c} : Moves(cs[d], t[d])
    BY <1>1, <2>4 DEF Dropped
  <2>9. ~Primed(t[c])
    BY <1>0, <2>6 DEF Leaves, Primed, SlotType
  <2> QED
    BY <2>5, <2>7, <2>8, <2>9 DEF Told, Cascade, t
<1>4. CASE Primed(cs[c]) /\ counted[c].outstanding # MAX_RELIABLE_COMMANDS + 1
  <2> DEFINE e == [cs[c] EXCEPT !.outstanding = @ + 1, !.last = kind]
  <2>1. t = [counted EXCEPT ![c].last = kind]
    BY <1>4 DEF SV_AddServerCommand
  <2>2. e \in SlotType /\ e.last = kind
    BY <1>0, SlotCounted
  <2>3. t[c] = e /\ \A d \in Clients \ {c} : t[d] = cs[d]
    BY <1>1, <2>1 DEF Tables
  <2>4. t \in Tables
    <3>1. t = [cs EXCEPT ![c] = e]
      BY <1>1, <2>1, <2>3 DEF Tables
    <3> HIDE DEF t, e
    <3> QED
      BY <2>2, <3>1, TableOf
  <2>5. Moves(cs[c], e)
    BY <1>0, <1>1, <1>4 DEF Moves, Stays, Lives, Primed, SlotType
  <2> HIDE DEF t, e
  <2>6. \A d \in Clients \ {c} : Moves(cs[d], t[d])
    BY <2>3, SlotOf, MovesNot
  <2> QED
    BY <2>2, <2>3, <2>4, <2>5, <2>6 DEF Told, Cascade, t
<1> QED
  BY <1>2, <1>3, <1>4

(***************************************************************************)
(* A command to everyone: SV_SendServerCommand.                            *)
(***************************************************************************)
LEMMA SendTells ==
  ASSUME NEW cs \in Tables, NEW kind \in Kinds, NEW drop, NEW n \in Int,
         Within(cs, n), Handles(drop, n)
  PROVE  /\ SV_SendServerCommand(cs, kind, drop) \in Tables
         /\ Cascade(cs, SV_SendServerCommand(cs, kind, drop))
<1> DEFINE step == [c \in Clients |->
                       [t \in Tables |-> SV_AddServerCommand(t, c, kind, drop)]]
           S == [c \in 0 .. maxclients |-> {t \in Tables : Cascade(cs, t)}]
<1>1. cs \in S[0]
  BY CascadeNot, Sizes
<1>2. ASSUME NEW c \in Clients, NEW t \in Tables, t \in S[c - 1]
      PROVE  step[c][t] \in S[c]
  <2>1. c \in 0 .. maxclients /\ c - 1 \in 0 .. maxclients
    BY Sizes DEF Clients
  <2>2. Cascade(cs, t)
    BY <1>2, <2>1
  <2>3. Within(t, n)
    BY <2>2, CascadeWithin
  <2>4. step[c][t] = SV_AddServerCommand(t, c, kind, drop)
    OBVIOUS
  <2> HIDE DEF step
  <2>5. step[c][t] \in Tables /\ Cascade(t, step[c][t])
    BY <2>3, <2>4, AddTells DEF Told
  <2>6. Cascade(cs, step[c][t])
    BY <2>2, <2>5, CascadeTwice
  <2> QED
    BY <2>1, <2>5, <2>6
<1>3. \A c \in 0 .. maxclients : S[c] \subseteq Tables
  OBVIOUS
<1>4. SV_SendServerCommand(cs, kind, drop) = InSlotOrder(step, cs)
  BY DEF SV_SendServerCommand
<1>5. \A t \in S[maxclients] : t \in Tables /\ Cascade(cs, t)
  BY Sizes
<1> HIDE DEF step, S
<1>6. InSlotOrder(step, cs) \in S[maxclients]
  BY <1>1, <1>2, <1>3, LoopKeeps
<1> QED
  BY <1>4, <1>5, <1>6

-----------------------------------------------------------------------------
(***************************************************************************)
(* The slot of a client that is dropped: a before, b when everyone has     *)
(* been told, p when the game has been called, e when the game has spoken, *)
(* f when the client itself has been told, g at the end.                   *)
(***************************************************************************)
Departure(a, b, p, e, f, g, reason) ==
    /\ Moves(a, b)
    /\ p.state = b.state /\ p.bot = b.bot /\ p.last = b.last
    /\ p.outstanding = b.outstanding
    /\ p.joined = 0 /\ p.disconnects = b.disconnects + 1
    /\ Moves(p, e)
    /\ Moves(e, f)
    /\ reason /\ Primed(f) => f.last = "disconnect"
    /\ g.bot = f.bot /\ g.last = f.last
    /\ g.joined = f.joined /\ g.disconnects = f.disconnects
    /\ g.state = IF a.bot THEN "free" ELSE "zombie"

(***************************************************************************)
(* Such a client departs.                                                  *)
(***************************************************************************)
LEMMA SlotDeparts ==
  ASSUME NEW a \in SlotType, NEW b \in SlotType, NEW p \in SlotType, NEW e \in SlotType,
         NEW f \in SlotType, NEW g \in SlotType, NEW reason,
         Departure(a, b, p, e, f, g, reason)
  PROVE  Departs(a, g, reason)
<1> USE DEF Departure
<1>1. Moves(p, f)
  BY MovesTwice
<1>2. /\ b.disconnects \in Nat /\ a.disconnects \in Nat
      /\ a.outstanding \in Nat /\ b.outstanding \in Nat
      /\ MAX_RELIABLE_COMMANDS \in Nat
  BY Sizes DEF SlotType
<1>3. CASE Stays(a, b)
  <2>1. /\ b.bot = a.bot /\ b.disconnects = a.disconnects
        /\ Primed(p) <=> Primed(a)
        /\ Lives(p) => Lives(a)
    BY <1>2, <1>3 DEF Stays, Lives, Primed
  <2>2. CASE Stays(p, f)
    BY <1>2, <2>1, <2>2 DEF Stays, Departs, Primed
  <2>3. CASE Lives(p) /\ Leaves(p, f)
    BY <1>2, <2>1, <2>3 DEF Leaves, Departs
  <2> QED
    BY <1>1, <2>2, <2>3 DEF Moves
<1>4. CASE Lives(a) /\ Leaves(a, b)
  <2>1. ~Primed(p)
    BY <1>4 DEF Leaves, Primed
  <2>2. f = p
    BY <1>1, <2>1 DEF Moves, Stays, Lives
  <2> QED
    BY <1>2, <1>4, <2>2 DEF Leaves, Departs
<1> QED
  BY <1>3, <1>4 DEF Moves

(***************************************************************************)
(* A drop: SV_DropClient.                                                  *)
(***************************************************************************)
LEMMA DropDeparts ==
  ASSUME NEW cs \in Tables, NEW c \in Clients, Connected(cs[c]),
         NEW reason \in BOOLEAN, NEW speaks \in BOOLEAN, NEW drop, NEW n \in Int,
         Within(cs, n), Handles(drop, n)
  PROVE  Dropped(cs, c, reason, SV_DropClient(cs, c, reason, speaks, drop))
<1> DEFINE told == IF reason THEN SV_SendServerCommand(cs, "print", drop) ELSE cs
           called == GameClientDisconnect(told, c)
           game == IF speaks THEN SV_SendServerCommand(called, "game", drop) ELSE called
           said == IF reason THEN SV_AddServerCommand(game, c, "disconnect", drop) ELSE game
           left == [said EXCEPT ![c].justConnected = FALSE,
                                ![c].state = IF cs[c].bot THEN "free" ELSE "zombie"]
<1>0. "print" \in Kinds /\ "game" \in Kinds /\ "disconnect" \in Kinds
  BY DEF Kinds
<1>1. told \in Tables /\ Cascade(cs, told)
  BY <1>0, SendTells, CascadeNot
<1>2. SV_DropClient(cs, c, reason, speaks, drop) = left
  BY DEF SV_DropClient, Connected
<1> HIDE DEF told
<1>3. /\ called \in Tables
      /\ \A d \in Clients \ {c} : called[d] = told[d]
      /\ called[c].state = told[c].state /\ called[c].bot = told[c].bot
      /\ called[c].last = told[c].last /\ called[c].outstanding = told[c].outstanding
      /\ called[c].joined = 0 /\ called[c].disconnects = told[c].disconnects + 1
  BY <1>1, GameTold
<1> HIDE DEF called
<1>4. Within(called, n)
  <2>1. Within(told, n)
    BY <1>1, CascadeWithin
  <2>2. \A d \in Clients : Lives(called[d]) => Lives(told[d])
    BY <1>3 DEF Lives, Primed
  <2> QED
    BY <2>1, <2>2, WithinKept DEF Live
<1>5. game \in Tables /\ Cascade(called, game)
  BY <1>0, <1>3, <1>4, SendTells, CascadeNot
<1> HIDE DEF game
<1>6. Within(game, n)
  BY <1>3, <1>4, <1>5, CascadeWithin
<1>7. /\ said \in Tables
      /\ Cascade(game, said)
      /\ reason /\ Primed(said[c]) => said[c].last = "disconnect"
  <2>1. CASE reason
    <3>1. Told(game, c, "disconnect", said)
      BY <1>0, <1>5, <1>6, <2>1, AddTells
    <3> QED
      BY <3>1 DEF Told
  <2>2. CASE ~reason
    BY <1>5, <2>2, CascadeNot
  <2> QED
    BY <2>1, <2>2
<1> HIDE DEF said
<1>8. /\ left \in Tables
      /\ \A d \in Clients \ {c} : left[d] = said[d]
      /\ left[c].bot = said[c].bot /\ left[c].last = said[c].last
      /\ left[c].joined = said[c].joined /\ left[c].disconnects = said[c].disconnects
      /\ left[c].state = IF cs[c].bot THEN "free" ELSE "zombie"
  <2>1. said[c] \in SlotType
    BY <1>7, SlotOf
  <2> QED
    BY <1>7, <2>1 DEF Tables, SlotType, States
<1> HIDE DEF left
<1>9. \A d \in Clients \ {c} : Moves(cs[d], left[d])
  <2> SUFFICES ASSUME NEW d \in Clients, d # c PROVE Moves(cs[d], left[d])
    OBVIOUS
  <2>1. /\ cs[d] \in SlotType /\ told[d] \in SlotType
        /\ game[d] \in SlotType /\ said[d] \in SlotType
    BY <1>1, <1>5, <1>7, SlotOf
  <2>2. Moves(cs[d], told[d]) /\ Moves(told[d], game[d]) /\ Moves(game[d], said[d])
    BY <1>1, <1>3, <1>5, <1>7 DEF Cascade
  <2>3. Moves(cs[d], game[d])
    BY <2>1, <2>2, MovesTwice
  <2>4. Moves(cs[d], said[d])
    BY <2>1, <2>2, <2>3, MovesTwice
  <2> QED
    BY <1>8, <2>4
<1>10. Departs(cs[c], left[c], reason)
  <2>1. /\ cs[c] \in SlotType /\ told[c] \in SlotType /\ called[c] \in SlotType
        /\ game[c] \in SlotType /\ said[c] \in SlotType /\ left[c] \in SlotType
    BY <1>1, <1>3, <1>5, <1>7, <1>8, SlotOf
  <2>2. Moves(cs[c], told[c]) /\ Moves(called[c], game[c]) /\ Moves(game[c], said[c])
    BY <1>1, <1>5, <1>7 DEF Cascade
  <2>3. Departure(cs[c], told[c], called[c], game[c], said[c], left[c], reason)
    BY <1>3, <1>7, <1>8, <2>2 DEF Departure
  <2> QED
    <3>1. \A a, b, p, e, f, g \in SlotType :
              Departure(a, b, p, e, f, g, reason) => Departs(a, g, reason)
      BY SlotDeparts, SMTT(20)
    <3>2. \A e, f, g \in SlotType :
              Departure(cs[c], told[c], called[c], e, f, g, reason)
                  => Departs(cs[c], g, reason)
      BY <2>1, <3>1
    <3> QED
      BY <2>1, <2>3, <3>2
<1> QED
  BY <1>2, <1>8, <1>9, <1>10 DEF Dropped

-----------------------------------------------------------------------------
(***************************************************************************)
(* Overflows nested to some depth.                                         *)
(***************************************************************************)
Nesting(speaks, depth, inner) ==
    [c \in Clients |-> [cs \in Tables |->
        IF depth = 0 THEN cs ELSE SV_DropClient(cs, c, TRUE, speaks, inner)]]

IsNest(g, speaks, n) == g = [depth \in 0 .. n |-> Nesting(speaks, depth, g[depth - 1])]

(***************************************************************************)
(* They can be nested to any depth.                                        *)
(***************************************************************************)
LEMMA NestExists ==
  ASSUME NEW speaks, NEW n \in Nat
  PROVE  \E g : IsNest(g, speaks, n)
<1> DEFINE T == {k \in Nat : \E g : IsNest(g, speaks, k)}
<1>0. \A inner, other : Nesting(speaks, 0, inner) = Nesting(speaks, 0, other)
  BY DEF Nesting
<1>1. 0 \in T
  <2> DEFINE none == [depth \in {} |-> depth]
             g == [depth \in 0 .. 0 |-> Nesting(speaks, depth, none)]
  <2>1. g = [depth \in 0 .. 0 |-> Nesting(speaks, depth, g[depth - 1])]
    <3>1. \A depth \in 0 .. 0 : depth = 0
      OBVIOUS
    <3> QED
      BY <1>0, <3>1
  <2>2. IsNest(g, speaks, 0)
    BY <2>1 DEF IsNest
  <2> HIDE DEF g
  <2> QED
    BY <2>2
<1>2. ASSUME NEW k \in Nat, k \in T PROVE k + 1 \in T
  <2>1. PICK g : IsNest(g, speaks, k)
    BY <1>2
  <2> DEFINE h == [depth \in 0 .. k + 1 |-> Nesting(speaks, depth, g[depth - 1])]
  <2>2. \A depth \in 0 .. k : g[depth] = Nesting(speaks, depth, g[depth - 1])
    BY <2>1 DEF IsNest
  <2>3. \A depth \in 0 .. k : h[depth] = g[depth]
    BY <2>2
  <2>4. h = [depth \in 0 .. k + 1 |-> Nesting(speaks, depth, h[depth - 1])]
    <3>1. ASSUME NEW depth \in 0 .. k + 1, depth # 0 PROVE depth - 1 \in 0 .. k
      BY <3>1
    <3> QED
      BY <1>0, <2>3, <3>1
  <2>5. IsNest(h, speaks, k + 1)
    BY <2>4 DEF IsNest
  <2> HIDE DEF h
  <2> QED
    BY <2>5
<1> QED
  BY <1>1, <1>2, Induction

(***************************************************************************)
(* Overflow handles every overflow.                                        *)
(***************************************************************************)
LEMMA OverflowHandles ==
  ASSUME NEW speaks \in BOOLEAN
  PROVE  Handles(Overflow(speaks), maxclients)
<1>1. PICK g : IsNest(g, speaks, maxclients)
  BY Sizes, NestExists
<1> DEFINE nested == CHOOSE f : IsNest(f, speaks, maxclients)
<1>2. IsNest(nested, speaks, maxclients)
  BY <1>1
<1>3. Overflow(speaks) = nested[maxclients]
  BY DEF Overflow, IsNest, Nesting
<1> HIDE DEF nested
<1>4. \A depth \in 0 .. maxclients :
          nested[depth] = Nesting(speaks, depth, nested[depth - 1])
  BY <1>2 DEF IsNest
<1> DEFINE T == {k \in Nat : k <= maxclients => Handles(nested[k], k)}
<1>5. 0 \in T
  <2>1. \A t : ~Within(t, 0 - 1)
    BY LiveFinite DEF Within
  <2> QED
    BY <2>1 DEF Handles
<1>6. ASSUME NEW k \in Nat, k \in T PROVE k + 1 \in T
  <2> SUFFICES ASSUME k + 1 <= maxclients PROVE Handles(nested[k + 1], k + 1)
    OBVIOUS
  <2>1. k + 1 \in 0 .. maxclients /\ k + 1 # 0 /\ (k + 1) - 1 = k /\ Handles(nested[k], k)
    BY <1>6, Sizes
  <2>2. \A t \in Tables, c \in Clients :
            nested[k + 1][c][t] = SV_DropClient(t, c, TRUE, speaks, nested[k])
    <3>1. nested[k + 1] = Nesting(speaks, k + 1, nested[k])
      BY <1>4, <2>1
    <3> QED
      BY <2>1, <3>1 DEF Nesting
  <2> SUFFICES ASSUME NEW t \in Tables, NEW c \in Clients, Primed(t[c]), Within(t, k)
               PROVE  Dropped(t, c, TRUE, nested[k + 1][c][t])
    BY <2>1 DEF Handles
  <2>3. Connected(t[c])
    BY DEF Connected, Primed
  <2>4. Dropped(t, c, TRUE, SV_DropClient(t, c, TRUE, speaks, nested[k]))
    <3>1. \A reason \in BOOLEAN :
              Dropped(t, c, reason, SV_DropClient(t, c, reason, speaks, nested[k]))
      BY <2>1, <2>3, DropDeparts
    <3> QED
      BY <3>1
  <2> QED
    BY <2>2, <2>4
<1> HIDE DEF T
<1>7. maxclients \in T
  BY <1>5, <1>6, Induction, Sizes
<1> QED
  BY <1>3, <1>7, Sizes DEF T

-----------------------------------------------------------------------------
(***************************************************************************)
(* The inductive invariant, slot by slot.  A player's ring is not          *)
(* overrun even while it waits for the gamestate, when it is sent nothing. *)
(***************************************************************************)
Settled(a) == Connected(a) /\ ~a.bot => a.outstanding <= MAX_RELIABLE_COMMANDS

Sound(a) == Settled(a) /\ (Connected(a) <=> a.joined = 1)

IInv ==
    /\ clients \in Tables
    /\ running \in BOOLEAN
    /\ \A c \in Clients : Settled(clients[c])
    /\ running => \A c \in Clients : Sound(clients[c])

(***************************************************************************)
(* What a step makes of a slot: whoever leaves is told last, and the game  *)
(* is told once or at most twice that it goes, and only if it does.        *)
(***************************************************************************)
Tells(a, b) == Primed(a) /\ b.state = "zombie" => b.last = "disconnect"

Spared(a, b) == Connected(b) => b.disconnects = a.disconnects

Once(a, b) == Spared(a, b) /\ b.disconnects <= a.disconnects + 1

AtMostTwice(a, b) == Spared(a, b) /\ b.disconnects <= a.disconnects + 2

Outcome(a, b) == Sound(b) /\ Tells(a, b) /\ Once(a, b)

(***************************************************************************)
(* A cascade keeps a slot sound.                                           *)
(***************************************************************************)
LEMMA MovesSound ==
  ASSUME NEW a \in SlotType, NEW b \in SlotType, Sound(a), Moves(a, b)
  PROVE  Outcome(a, b)
<1> USE Sizes DEF SlotType, Sound, Settled, Outcome, Tells, Once, Spared, Connected, Primed
<1>1. CASE Stays(a, b)
  BY <1>1 DEF Stays, Lives
<1>2. CASE Lives(a) /\ Leaves(a, b)
  BY <1>2 DEF Lives, Leaves
<1> QED
  BY <1>1, <1>2 DEF Moves

(***************************************************************************)
(* So does a departure.                                                    *)
(***************************************************************************)
LEMMA DepartsSound ==
  ASSUME NEW a \in SlotType, NEW b \in SlotType, NEW reason \in BOOLEAN,
         Sound(a), Connected(a), Departs(a, b, reason)
  PROVE  Sound(b) /\ AtMostTwice(a, b) /\ (reason => Tells(a, b))
  BY Sizes DEF SlotType, Sound, Settled, Tells, AtMostTwice, Spared, Connected, Primed, Departs

(***************************************************************************)
(* What a step has made of a slot outlasts a cascade.                      *)
(***************************************************************************)
LEMMA OutcomeMoves ==
  ASSUME NEW a \in SlotType, NEW b \in SlotType, NEW e \in SlotType,
         Sound(a), Sound(b), Tells(a, b), AtMostTwice(a, b), Moves(b, e)
  PROVE  /\ Sound(e)
         /\ Tells(a, e)
         /\ AtMostTwice(a, e)
         /\ Once(a, b) => Once(a, e)
<1> USE Sizes DEF SlotType, Sound, Settled, Tells, Once, AtMostTwice, Spared, Connected, Primed
<1>1. CASE Stays(b, e)
  BY <1>1 DEF Stays, Lives
<1>2. CASE Lives(b) /\ Leaves(b, e)
  BY <1>2 DEF Lives, Leaves
<1> QED
  BY <1>1, <1>2 DEF Moves

(***************************************************************************)
(* A cascade keeps a table sound.                                          *)
(***************************************************************************)
LEMMA CascadeSound ==
  ASSUME NEW cs \in Tables, NEW t \in Tables, \A c \in Clients : Sound(cs[c]), Cascade(cs, t)
  PROVE  \A c \in Clients : Outcome(cs[c], t[c])
  BY SlotOf, MovesSound DEF Cascade

(***************************************************************************)
(* So does a drop; only the one dropped can be disconnected twice.         *)
(***************************************************************************)
LEMMA DroppedSound ==
  ASSUME NEW cs \in Tables, NEW t, NEW c \in Clients, NEW reason \in BOOLEAN,
         \A d \in Clients : Sound(cs[d]), Connected(cs[c]), Dropped(cs, c, reason, t)
  PROVE  /\ t \in Tables
         /\ \A d \in Clients \ {c} : Outcome(cs[d], t[d])
         /\ Sound(t[c]) /\ AtMostTwice(cs[c], t[c])
         /\ reason => Tells(cs[c], t[c])
<1>1. t \in Tables
  BY DEF Dropped
<1>2. \A d \in Clients \ {c} : Outcome(cs[d], t[d])
  BY <1>1, SlotOf, MovesSound DEF Dropped
<1>3. cs[c] \in SlotType /\ t[c] \in SlotType /\ Departs(cs[c], t[c], reason)
  BY <1>1, SlotOf DEF Dropped
<1>4. \A a, b \in SlotType : Sound(a) /\ Connected(a) /\ Departs(a, b, reason)
                       => Sound(b) /\ AtMostTwice(a, b) /\ (reason => Tells(a, b))
  BY DepartsSound
<1> QED
  BY <1>1, <1>2, <1>3, <1>4

-----------------------------------------------------------------------------
(***************************************************************************)
(* The operations on a table whose slots are sound, with the drops that    *)
(* overflows cause.                                                        *)
(***************************************************************************)
LEMMA AddSound ==
  ASSUME NEW cs \in Tables, NEW c \in Clients, NEW kind \in Kinds, NEW speaks \in BOOLEAN
  PROVE  Told(cs, c, kind, SV_AddServerCommand(cs, c, kind, Overflow(speaks)))
<1>1. Within(cs, maxclients) /\ Handles(Overflow(speaks), maxclients) /\ maxclients \in Int
  BY LiveFinite, OverflowHandles, Sizes
<1> QED
  BY <1>1, AddTells

(***************************************************************************)
(* A command to everyone is a cascade.                                     *)
(***************************************************************************)
LEMMA SendSound ==
  ASSUME NEW cs \in Tables, NEW kind \in Kinds, NEW speaks \in BOOLEAN
  PROVE  /\ SV_SendServerCommand(cs, kind, Overflow(speaks)) \in Tables
         /\ Cascade(cs, SV_SendServerCommand(cs, kind, Overflow(speaks)))
<1>1. Within(cs, maxclients) /\ Handles(Overflow(speaks), maxclients) /\ maxclients \in Int
  BY LiveFinite, OverflowHandles, Sizes
<1> QED
  BY <1>1, SendTells

(***************************************************************************)
(* A drop is a departure.                                                  *)
(***************************************************************************)
LEMMA DropSound ==
  ASSUME NEW cs \in Tables, NEW c \in Clients, Connected(cs[c]), NEW speaks \in BOOLEAN
  PROVE  \A reason \in BOOLEAN :
             Dropped(cs, c, reason, SV_DropClient(cs, c, reason, speaks, Overflow(speaks)))
<1>1. Within(cs, maxclients) /\ Handles(Overflow(speaks), maxclients) /\ maxclients \in Int
  BY LiveFinite, OverflowHandles, Sizes
<1> QED
  BY <1>1, DropDeparts

(***************************************************************************)
(* A change of map.  Once slot d has been through it, it is sound, has     *)
(* been told if it left, and has left at most once, or twice if refused.   *)
(***************************************************************************)
Respawned(cs, refused, k, t) ==
    \A d \in Clients :
        IF d > k THEN Moves(cs[d], t[d])
        ELSE /\ Sound(t[d])
             /\ Tells(cs[d], t[d])
             /\ AtMostTwice(cs[d], t[d])
             /\ d \in refused \/ Once(cs[d], t[d])

Reconnect(refused, speaks) ==
    [c \in Clients |-> [cs \in Tables |->
        IF ~Connected(cs[c]) THEN cs
        ELSE IF c \in refused THEN SV_DropClient(cs, c, TRUE, speaks, Overflow(speaks))
        ELSE [cs EXCEPT ![c].state = IF cs[c].bot THEN "primed" ELSE "connected"]]]

(***************************************************************************)
(* Slots other than the one whose turn it is stay respawned, or go on      *)
(* waiting for their turn.                                                 *)
(***************************************************************************)
LEMMA RespawnedMoves ==
  ASSUME NEW cs \in Tables, NEW t \in Tables, NEW u \in Tables, NEW refused \in SUBSET Clients,
         NEW c \in Clients, \A d \in Clients : Sound(cs[d]),
         Respawned(cs, refused, c - 1, t),
         \A d \in Clients \ {c} : Moves(t[d], u[d]),
         Sound(u[c]), Tells(cs[c], u[c]), AtMostTwice(cs[c], u[c]),
         c \in refused \/ Once(cs[c], u[c])
  PROVE  Respawned(cs, refused, c, u)
<1> SUFFICES ASSUME NEW d \in Clients, d # c
             PROVE  IF d > c THEN Moves(cs[d], u[d])
                    ELSE /\ Sound(u[d])
                         /\ Tells(cs[d], u[d])
                         /\ AtMostTwice(cs[d], u[d])
                         /\ d \in refused \/ Once(cs[d], u[d])
  BY Sizes DEF Respawned, Clients
<1>1. cs[d] \in SlotType /\ t[d] \in SlotType /\ u[d] \in SlotType /\ Moves(t[d], u[d])
  BY SlotOf
<1>2. CASE d > c
  <2>1. Moves(cs[d], t[d])
    <3>1. d > c - 1
      BY <1>2, Sizes DEF Clients
    <3> QED
      BY <3>1 DEF Respawned
  <2> QED
    BY <1>1, <1>2, <2>1, MovesTwice
<1>3. CASE ~(d > c)
  <2>1. /\ Sound(t[d]) /\ Tells(cs[d], t[d]) /\ AtMostTwice(cs[d], t[d])
        /\ d \in refused \/ Once(cs[d], t[d])
    <3>1. ~(d > c - 1)
      BY <1>3, Sizes DEF Clients
    <3> QED
      BY <3>1 DEF Respawned
  <2>2. Sound(cs[d])
    OBVIOUS
  <2>3. /\ Sound(u[d]) /\ Tells(cs[d], u[d]) /\ AtMostTwice(cs[d], u[d])
        /\ Once(cs[d], t[d]) => Once(cs[d], u[d])
    BY <1>1, <2>1, <2>2, OutcomeMoves
  <2> QED
    BY <1>3, <2>1, <2>3
<1> QED
  BY <1>2, <1>3

(***************************************************************************)
(* One slot's turn.                                                        *)
(***************************************************************************)
LEMMA ReconnectSound ==
  ASSUME NEW cs \in Tables, NEW t \in Tables, NEW c \in Clients, NEW refused \in SUBSET Clients,
         NEW speaks \in BOOLEAN, \A d \in Clients : Sound(cs[d]),
         Respawned(cs, refused, c - 1, t)
  PROVE  /\ Reconnect(refused, speaks)[c][t] \in Tables
         /\ Respawned(cs, refused, c, Reconnect(refused, speaks)[c][t])
<1> DEFINE u == Reconnect(refused, speaks)[c][t]
<1>1. u = IF ~Connected(t[c]) THEN t
          ELSE IF c \in refused THEN SV_DropClient(t, c, TRUE, speaks, Overflow(speaks))
          ELSE [t EXCEPT ![c].state = IF t[c].bot THEN "primed" ELSE "connected"]
  BY DEF Reconnect
<1> HIDE DEF u
<1>2. cs[c] \in SlotType /\ t[c] \in SlotType /\ Sound(cs[c]) /\ Moves(cs[c], t[c])
  <2>1. c > c - 1
    BY Sizes DEF Clients
  <2> QED
    BY <2>1, SlotOf DEF Respawned
<1>3. Sound(t[c]) /\ Tells(cs[c], t[c]) /\ Once(cs[c], t[c]) /\ AtMostTwice(cs[c], t[c])
  <2>1. Outcome(cs[c], t[c])
    BY <1>2, MovesSound
  <2> QED
    BY <1>2, <2>1 DEF Outcome, Once, AtMostTwice, SlotType
<1>4. \A d \in Clients : Moves(t[d], t[d])
  BY SlotOf, MovesNot
<1>5. CASE ~Connected(t[c])
  <2>1. u = t
    BY <1>1, <1>5
  <2> QED
    BY <1>3, <1>4, <2>1, RespawnedMoves DEF u
<1>6. CASE Connected(t[c]) /\ c \in refused
  <2>1. u = SV_DropClient(t, c, TRUE, speaks, Overflow(speaks))
    BY <1>1, <1>6
  <2>2. Dropped(t, c, TRUE, u)
    BY <1>6, <2>1, DropSound
  <2>3. /\ u \in Tables /\ u[c] \in SlotType /\ Departs(t[c], u[c], TRUE)
        /\ \A d \in Clients \ {c} : Moves(t[d], u[d])
    BY <2>2, SlotOf DEF Dropped
  <2>4. Sound(u[c]) /\ Tells(t[c], u[c]) /\ AtMostTwice(t[c], u[c])
    <3>1. \A reason \in BOOLEAN : \A a, b \in SlotType :
              Sound(a) /\ Connected(a) /\ Departs(a, b, reason)
                  => Sound(b) /\ AtMostTwice(a, b) /\ (reason => Tells(a, b))
      BY DepartsSound
    <3> QED
      BY <1>2, <1>3, <1>6, <2>3, <3>1
  <2>5. Primed(cs[c]) => Primed(t[c])
    BY <1>2, <1>6 DEF Moves, Stays, Leaves, Primed, Connected, SlotType
  <2>6. Tells(cs[c], u[c])
    BY <2>4, <2>5 DEF Tells
  <2>7. AtMostTwice(cs[c], u[c])
    BY <1>3, <1>6, <2>4 DEF Once, AtMostTwice, Spared
  <2> QED
    BY <1>6, <2>3, <2>4, <2>6, <2>7, RespawnedMoves DEF u
<1>7. CASE Connected(t[c]) /\ c \notin refused
  <2> DEFINE state == IF t[c].bot THEN "primed" ELSE "connected"
  <2>0. state \in {"primed", "connected"}
    OBVIOUS
  <2>1. u = [t EXCEPT ![c].state = state]
    BY <1>1, <1>7
  <2> HIDE DEF state
  <2>2. /\ u \in Tables
        /\ \A d \in Clients \ {c} : u[d] = t[d]
        /\ u[c].state = state /\ u[c].bot = t[c].bot /\ u[c].joined = t[c].joined
        /\ u[c].outstanding = t[c].outstanding /\ u[c].disconnects = t[c].disconnects
    BY <1>2, <2>0, <2>1 DEF Tables, SlotType, States
  <2>3. Sound(u[c])
    BY <1>3, <1>7, <2>0, <2>2 DEF Sound, Settled, Connected
  <2>4. Tells(cs[c], u[c]) /\ Once(cs[c], u[c]) /\ AtMostTwice(cs[c], u[c])
    BY <1>3, <1>7, <2>0, <2>2 DEF Tells, Once, AtMostTwice, Spared
  <2>5. \A d \in Clients \ {c} : Moves(t[d], u[d])
    BY <1>4, <2>2
  <2> QED
    BY <2>2, <2>3, <2>4, <2>5, RespawnedMoves DEF u
<1> QED
  BY <1>5, <1>6, <1>7

(***************************************************************************)
(* The whole change of map.                                                *)
(***************************************************************************)
LEMMA SpawnSound ==
  ASSUME NEW cs \in Tables, NEW refused \in SUBSET Clients, NEW speaks \in BOOLEAN,
         \A d \in Clients : Sound(cs[d])
  PROVE  /\ InSlotOrder(Reconnect(refused, speaks), cs) \in Tables
         /\ Respawned(cs, refused, maxclients, InSlotOrder(Reconnect(refused, speaks), cs))
<1> DEFINE S == [c \in 0 .. maxclients |-> {t \in Tables : Respawned(cs, refused, c, t)}]
           step == Reconnect(refused, speaks)
<1>1. cs \in S[0]
  <2>1. \A d \in Clients : Moves(cs[d], cs[d]) /\ d > 0
    BY SlotOf, MovesNot, Sizes DEF Clients
  <2> QED
    BY <2>1, Sizes DEF Respawned
<1> HIDE DEF step
<1>2. ASSUME NEW c \in Clients, NEW t \in Tables, t \in S[c - 1]
      PROVE  step[c][t] \in S[c]
  <2>1. c \in 0 .. maxclients /\ c - 1 \in 0 .. maxclients
    BY Sizes DEF Clients
  <2>2. Respawned(cs, refused, c - 1, t)
    BY <1>2, <2>1
  <2>3. step[c][t] \in Tables /\ Respawned(cs, refused, c, step[c][t])
    BY <2>2, ReconnectSound DEF step
  <2> QED
    BY <2>1, <2>3
<1>3. \A c \in 0 .. maxclients : S[c] \subseteq Tables
  OBVIOUS
<1>4. \A t \in S[maxclients] : t \in Tables /\ Respawned(cs, refused, maxclients, t)
  BY Sizes
<1> HIDE DEF S
<1>5. InSlotOrder(step, cs) \in S[maxclients]
  BY <1>1, <1>2, <1>3, LoopKeeps
<1> QED
  BY <1>4, <1>5 DEF step

-----------------------------------------------------------------------------
(***************************************************************************)
(* The shutdown.  A slot has moved, or has been told and is a zombie.      *)
(***************************************************************************)
Ended(a, b) ==
    \/ Moves(a, b)
    \/ /\ ~Connected(b)
       /\ Tells(a, b)
       /\ Once(a, b)

Pass(speaks) == [c \in Clients |-> [cs \in Tables |-> FinalTold(cs, c, Overflow(speaks))]]

Ending(cs) == {t \in Tables : \A d \in Clients : Ended(cs[d], t[d])}

(***************************************************************************)
(* Whoever has ended goes on so.                                           *)
(***************************************************************************)
LEMMA EndedMoves ==
  ASSUME NEW a \in SlotType, NEW b \in SlotType, NEW e \in SlotType, Ended(a, b), Moves(b, e)
  PROVE  Ended(a, e)
<1>1. CASE Moves(a, b)
  BY <1>1, MovesTwice DEF Ended
<1>2. CASE ~Connected(b)
  <2>1. ~Primed(b)
    BY <1>2 DEF Connected, Primed
  <2>2. e = b
    BY <2>1 DEF Moves, Stays, Lives
  <2> QED
    BY <2>2
<1> QED
  BY <1>1, <1>2 DEF Ended

(***************************************************************************)
(* A slot that is still connected when its turn comes: a before the        *)
(* shutdown, b at its turn, f when it has been told, g a zombie.           *)
(***************************************************************************)
LEMMA SlotEnds ==
  ASSUME NEW a \in SlotType, NEW b \in SlotType, NEW f \in SlotType, NEW g \in SlotType,
         Sound(a), Connected(b), Ended(a, b), Moves(b, f),
         Primed(f) => f.last = "disconnect",
         g.state = "zombie", g.last = f.last, g.disconnects = f.disconnects
  PROVE  Ended(a, g)
<1>1. Moves(a, f)
  BY MovesTwice DEF Ended
<1> USE Sizes DEF SlotType, Sound, Settled, Tells, Once, Spared, Connected, Primed
<1>2. CASE Stays(a, f)
  BY <1>2 DEF Stays, Lives, Ended
<1>3. CASE Lives(a) /\ Leaves(a, f)
  BY <1>3 DEF Lives, Leaves, Ended
<1> QED
  BY <1>1, <1>2, <1>3 DEF Moves

(***************************************************************************)
(* One slot's turn.                                                        *)
(***************************************************************************)
LEMMA PassEnds ==
  ASSUME NEW cs \in Tables, NEW t \in Tables, NEW c \in Clients, NEW speaks \in BOOLEAN,
         \A d \in Clients : Sound(cs[d]),
         t \in Ending(cs)
  PROVE  Pass(speaks)[c][t] \in Ending(cs)
<1> DEFINE u == Pass(speaks)[c][t]
           printed == SV_AddServerCommand(t, c, "print", Overflow(speaks))
           said == SV_AddServerCommand(printed, c, "disconnect", Overflow(speaks))
<1>0. "print" \in Kinds /\ "disconnect" \in Kinds
  BY DEF Kinds
<1>1. u = IF Connected(t[c]) THEN [said EXCEPT ![c].state = "zombie"] ELSE t
  BY DEF Pass, FinalTold
<1>2. printed \in Tables /\ Cascade(t, printed)
  BY <1>0, AddSound DEF Told
<1> HIDE DEF printed
<1>3. said \in Tables /\ Cascade(printed, said) /\ (Primed(said[c]) => said[c].last = "disconnect")
  BY <1>0, <1>2, AddSound DEF Told
<1>4. Cascade(t, said)
  BY <1>2, <1>3, CascadeTwice
<1> HIDE DEF said, u
<1>5. CASE ~Connected(t[c])
  BY <1>1, <1>5 DEF u
<1>6. CASE Connected(t[c])
  <2>1. said[c] \in SlotType
    BY <1>3, SlotOf
  <2>2. /\ u \in Tables
        /\ \A d \in Clients \ {c} : u[d] = said[d]
        /\ u[c].state = "zombie" /\ u[c].last = said[c].last
        /\ u[c].disconnects = said[c].disconnects
    BY <1>1, <1>3, <1>6, <2>1 DEF Tables, SlotType, States
  <2>3. ASSUME NEW d \in Clients, d # c PROVE Ended(cs[d], u[d])
    <3>1. cs[d] \in SlotType /\ t[d] \in SlotType /\ said[d] \in SlotType
      BY <1>3, SlotOf
    <3>2. Ended(cs[d], t[d]) /\ Moves(t[d], said[d])
      BY <1>4 DEF Ending, Cascade
    <3> QED
      BY <2>2, <2>3, <3>1, <3>2, EndedMoves
  <2>4. Ended(cs[c], u[c])
    <3>1. cs[c] \in SlotType /\ t[c] \in SlotType /\ u[c] \in SlotType
      BY <2>2, SlotOf
    <3>2. Ended(cs[c], t[c]) /\ Moves(t[c], said[c])
      BY <1>4 DEF Ending, Cascade
    <3> QED
      BY <1>3, <1>6, <2>1, <2>2, <3>1, <3>2, SlotEnds
  <2> QED
    BY <2>2, <2>3, <2>4 DEF Ending, u
<1> QED
  BY <1>5, <1>6

(***************************************************************************)
(* One pass over the slots.                                                *)
(***************************************************************************)
LEMMA OnePass ==
  ASSUME NEW cs \in Tables, NEW t \in Ending(cs), NEW speaks \in BOOLEAN,
         \A d \in Clients : Sound(cs[d])
  PROVE  InSlotOrder(Pass(speaks), t) \in Ending(cs)
<1> DEFINE S == [c \in 0 .. maxclients |-> Ending(cs)]
           step == Pass(speaks)
<1>1. t \in S[0]
  BY Sizes
<1>2. Ending(cs) \subseteq Tables
  BY DEF Ending
<1>3. \A c \in Clients : \A u \in Ending(cs) : step[c][u] \in Ending(cs)
  BY <1>2, PassEnds
<1> HIDE DEF step
<1>4. \A c \in Clients : S[c - 1] = Ending(cs) /\ S[c] = Ending(cs)
  BY Sizes DEF Clients
<1>5. \A c \in 0 .. maxclients : S[c] \subseteq Tables
  BY <1>2
<1>6. S[maxclients] = Ending(cs)
  BY Sizes
<1> HIDE DEF S
<1>7. \A c \in Clients, u \in Tables : u \in S[c - 1] => step[c][u] \in S[c]
  BY <1>3, <1>4
<1>8. InSlotOrder(step, t) \in S[maxclients]
  BY <1>1, <1>5, <1>7, LoopKeeps
<1> QED
  BY <1>6, <1>8 DEF step

(***************************************************************************)
(* Whoever has ended is settled, was told, and left at most once.          *)
(***************************************************************************)
LEMMA EndedSettled ==
  ASSUME NEW a \in SlotType, NEW b \in SlotType, Sound(a), Ended(a, b)
  PROVE  Settled(b) /\ Tells(a, b) /\ Once(a, b)
<1>1. CASE Moves(a, b)
  BY <1>1, MovesSound DEF Outcome, Sound
<1>2. CASE ~Moves(a, b)
  BY <1>2 DEF Ended, Settled
<1> QED
  BY <1>1, <1>2

(***************************************************************************)
(* The whole shutdown.                                                     *)
(***************************************************************************)
LEMMA FinalSettles ==
  ASSUME NEW cs \in Tables, NEW speaks \in BOOLEAN, \A d \in Clients : Sound(cs[d]),
         NEW t, t = InSlotOrder(Pass(speaks), InSlotOrder(Pass(speaks), cs))
  PROVE  /\ t \in Tables
         /\ \A d \in Clients : Settled(t[d]) /\ Tells(cs[d], t[d]) /\ Once(cs[d], t[d])
<1>1. cs \in Ending(cs)
  BY SlotOf, MovesNot DEF Ending, Ended
<1>2. t \in Ending(cs)
  BY <1>1, OnePass
<1>3. t \in Tables /\ \A d \in Clients : Ended(cs[d], t[d])
  BY <1>2 DEF Ending
<1> QED
  BY <1>3, SlotOf, EndedSettled

-----------------------------------------------------------------------------
(***************************************************************************)
(* What the steps do to the table, and which of them may disconnect client *)
(* c from the game twice.                                                  *)
(***************************************************************************)
Goes ==
    /\ clients' \in Tables
    /\ running' = running
    /\ \A c \in Clients : /\ Sound(clients'[c])
                         /\ Tells(clients[c], clients'[c])
                         /\ clients'[c].disconnects <= 2

AllOnce == \A c \in Clients : clients'[c].disconnects <= 1

Twice(c) ==
    \E speaks \in BOOLEAN :
        \/ Drop(c, speaks)
        \/ Timeout(c, speaks)
        \/ \E denied \in BOOLEAN : Connected(clients[c]) /\ SV_DirectConnect(c, denied, speaks)
        \/ \E refused \in SUBSET Clients : c \in refused /\ SV_SpawnServer(refused, speaks)

(***************************************************************************)
(* While the server runs, every slot that a step finds is sound; it is the *)
(* slot of the table, with nobody disconnected yet.                        *)
(***************************************************************************)
AsFound(a, b) ==
    /\ b.state = a.state
    /\ b.bot = a.bot
    /\ b.justConnected = a.justConnected
    /\ b.outstanding = a.outstanding
    /\ b.disconnects = 0

LEMMA SoundNow ==
  ASSUME IInv, running
  PROVE  /\ Found \in Tables
         /\ \A c \in Clients : /\ Found[c] \in SlotType
                              /\ Sound(Found[c])
                              /\ AsFound(clients[c], Found[c])
<1>1. clients \in Tables /\ \A c \in Clients : clients[c] \in SlotType /\ Sound(clients[c])
  BY SlotOf DEF IInv
<1>2. \A c \in Clients : Found[c] = [clients[c] EXCEPT !.disconnects = 0]
  BY DEF Found
<1>3. ASSUME NEW a \in SlotType, NEW b, b = [a EXCEPT !.disconnects = 0], Sound(a)
      PROVE  b \in SlotType /\ Sound(b) /\ AsFound(a, b)
  BY <1>3 DEF SlotType, AsFound, Sound, Settled, Connected
<1>4. \A c \in Clients : /\ Found[c] \in SlotType
                        /\ Sound(Found[c])
                        /\ AsFound(clients[c], Found[c])
  BY <1>1, <1>2, <1>3
<1>5. Found \in [Clients -> SlotType]
  <2>1. Found = [c \in Clients |-> Found[c]]
    BY DEF Found
  <2> HIDE DEF Found
  <2> QED
    BY <1>4, <2>1
<1> QED
  BY <1>4, <1>5 DEF Tables, SlotType

(***************************************************************************)
(* What an outcome says of a slot of the table.                            *)
(***************************************************************************)
LEMMA FoundOutcome ==
  ASSUME NEW a \in SlotType, NEW b \in SlotType, NEW e \in SlotType, AsFound(a, b)
  PROVE  /\ Tells(b, e) => Tells(a, e)
         /\ Once(b, e) => e.disconnects <= 1
         /\ AtMostTwice(b, e) => e.disconnects <= 2
         /\ e.disconnects <= 1 => e.disconnects <= 2
  BY DEF AsFound, Tells, Primed, Once, AtMostTwice, SlotType

(***************************************************************************)
(* A step with an outcome for every slot but perhaps that of a client c,   *)
(* which the game may have been told of twice.                             *)
(***************************************************************************)
LEMMA GoesBut ==
  ASSUME IInv, running, clients' \in Tables, running' = running, NEW c \in Clients,
         \A d \in Clients \ {c} : Outcome(Found[d], clients'[d]),
         Sound(clients'[c]), Tells(Found[c], clients'[c]), clients'[c].disconnects <= 2
  PROVE  Goes /\ \A d \in Clients \ {c} : clients'[d].disconnects <= 1
<1>1. \A d \in Clients : clients[d] \in SlotType /\ clients'[d] \in SlotType
  BY SlotOf DEF IInv
<1>2. \A d \in Clients : Found[d] \in SlotType /\ AsFound(clients[d], Found[d])
  BY SoundNow
<1>3. \A d \in Clients \ {c} : /\ Sound(clients'[d])
                              /\ Tells(Found[d], clients'[d])
                              /\ Once(Found[d], clients'[d])
  BY DEF Outcome
<1>4. \A d \in Clients : Tells(clients[d], clients'[d])
  BY <1>1, <1>2, <1>3, FoundOutcome
<1>5. \A d \in Clients \ {c} : clients'[d].disconnects <= 1 /\ clients'[d].disconnects <= 2
  BY <1>1, <1>2, <1>3, FoundOutcome
<1> QED
  BY <1>3, <1>4, <1>5 DEF Goes

(***************************************************************************)
(* A step with an outcome for every slot.                                  *)
(***************************************************************************)
LEMMA GoesAll ==
  ASSUME IInv, running, clients' \in Tables, running' = running,
         \A d \in Clients : Outcome(Found[d], clients'[d])
  PROVE  Goes /\ AllOnce
<1>1. ASSUME NEW c \in Clients
      PROVE  clients'[c].disconnects <= 1 /\ clients'[c].disconnects <= 2
  <2>1. clients[c] \in SlotType /\ clients'[c] \in SlotType
    BY SlotOf DEF IInv
  <2>2. Found[c] \in SlotType /\ AsFound(clients[c], Found[c])
    BY SoundNow
  <2>3. Once(Found[c], clients'[c])
    BY DEF Outcome
  <2> QED
    BY <2>1, <2>2, <2>3, FoundOutcome
<1>2. \A c \in Clients : Sound(clients'[c]) /\ Tells(Found[c], clients'[c])
  BY DEF Outcome
<1>3. 1 \in Clients
  BY Sizes DEF Clients
<1>4. Goes
  BY <1>1, <1>2, <1>3, GoesBut
<1> QED
  BY <1>1, <1>4 DEF AllOnce

(***************************************************************************)
(* A step that changes one slot only.                                      *)
(***************************************************************************)
LEMMA OneSlotGoes ==
  ASSUME IInv, running, running' = running, NEW c \in Clients, NEW e \in SlotType,
         clients' = [Found EXCEPT ![c] = e], Outcome(Found[c], e)
  PROVE  Goes /\ AllOnce
<1>1. Found \in Tables /\ \A d \in Clients : Found[d] \in SlotType /\ Sound(Found[d])
  BY SoundNow
<1>2. clients' \in Tables
  BY <1>1, TableOf
<1>3. clients'[c] = e /\ \A d \in Clients \ {c} : clients'[d] = Found[d]
  BY <1>1 DEF Tables
<1>4. \A d \in Clients : Outcome(Found[d], Found[d])
  BY <1>1, MovesNot, MovesSound
<1>5. \A d \in Clients : Outcome(Found[d], clients'[d])
  BY <1>3, <1>4
<1> QED
  BY <1>2, <1>5, GoesAll

(***************************************************************************)
(* What a reconnecting client's disconnect makes of the table: the game is *)
(* told of the client, and what it says then may be told it again.         *)
(***************************************************************************)
LEMMA ReconnectedSound ==
  ASSUME IInv, running, NEW c \in Clients, NEW speaks \in BOOLEAN
  PROVE  /\ Reconnected(c, speaks) \in Tables
         /\ \A d \in Clients \ {c} : Outcome(Found[d], Reconnected(c, speaks)[d])
         /\ Reconnected(c, speaks)[c].disconnects <= 2
         /\ ~Connected(clients[c]) => Reconnected(c, speaks)[c].disconnects = 0
<1> DEFINE called == GameClientDisconnect(Found, c)
           said == SV_SendServerCommand(called, "game", Overflow(speaks))
           game == IF speaks THEN said ELSE called
<1>1. /\ Found \in Tables
      /\ \A d \in Clients : /\ Found[d] \in SlotType
                            /\ Sound(Found[d])
                            /\ Found[d].disconnects = 0
  BY SoundNow DEF AsFound
<1>2. \A d \in Clients : Outcome(Found[d], Found[d])
  BY <1>1, MovesNot, MovesSound
<1>3. Reconnected(c, speaks) = IF ~Connected(clients[c]) THEN Found ELSE game
  BY DEF Reconnected
<1>4. /\ called \in Tables
      /\ \A d \in Clients \ {c} : called[d] = Found[d]
      /\ called[c].disconnects = 1
  BY <1>1, GameTold
<1> HIDE DEF called
<1>5. game \in Tables /\ Cascade(called, game)
  <2>1. "game" \in Kinds
    BY DEF Kinds
  <2> QED
    BY <1>4, <2>1, SendSound, CascadeNot
<1> HIDE DEF game
<1>6. \A d \in Clients \ {c} : Outcome(Found[d], game[d])
  <2>1. \A d \in Clients \ {c} : Moves(Found[d], game[d]) /\ game[d] \in SlotType
    BY <1>4, <1>5, SlotOf DEF Cascade
  <2> QED
    BY <1>1, <2>1, MovesSound
<1>7. game[c].disconnects <= 2
  <2>1. called[c] \in SlotType /\ game[c] \in SlotType /\ Moves(called[c], game[c])
    BY <1>4, <1>5, SlotOf DEF Cascade
  <2> QED
    BY <1>4, <2>1 DEF Moves, Stays, Leaves
<1>8. CASE Connected(clients[c])
  BY <1>3, <1>5, <1>6, <1>7, <1>8
<1>9. CASE ~Connected(clients[c])
  BY <1>1, <1>2, <1>3, <1>9
<1> QED
  BY <1>8, <1>9

(***************************************************************************)
(* A client connects: only one that was connected can be disconnected      *)
(* twice.                                                                  *)
(***************************************************************************)
LEMMA DirectConnectGoes ==
  ASSUME IInv, NEW c \in Clients, NEW denied \in BOOLEAN, NEW speaks \in BOOLEAN,
         SV_DirectConnect(c, denied, speaks)
  PROVE  /\ Goes
         /\ \A d \in Clients \ {c} : clients'[d].disconnects <= 1
         /\ clients'[c].disconnects <= 1 \/ Connected(clients[c])
<1> DEFINE left == Reconnected(c, speaks)
           zeroed == [FreeSlot EXCEPT !.disconnects = left[c].disconnects]
           new == IF denied THEN zeroed
                  ELSE [zeroed EXCEPT !.state = "connected", !.justConnected = TRUE, !.joined = 1]
<1>1. running /\ running' = running
  BY DEF SV_DirectConnect
<1>2. /\ left \in Tables
      /\ \A d \in Clients \ {c} : Outcome(Found[d], left[d])
      /\ left[c].disconnects <= 2
      /\ ~Connected(clients[c]) => left[c].disconnects = 0
  BY <1>1, ReconnectedSound
<1>3. clients' = [left EXCEPT ![c] = new]
  BY DEF SV_DirectConnect
<1> HIDE DEF left
<1>4. left[c].disconnects \in Nat
  BY <1>2, SlotOf DEF SlotType
<1>5. /\ zeroed \in SlotType
      /\ zeroed.state = "free" /\ zeroed.joined = 0 /\ zeroed.bot = FALSE
      /\ zeroed.outstanding = 0 /\ zeroed.disconnects = left[c].disconnects
  <2>1. FreeSlot \in SlotType
    BY DEF FreeSlot, SlotType, States, Kinds
  <2>2. \A k \in Nat : /\ [FreeSlot EXCEPT !.disconnects = k] \in SlotType
                       /\ [FreeSlot EXCEPT !.disconnects = k].disconnects = k
    BY <2>1 DEF SlotType
  <2>3. zeroed.state = FreeSlot.state /\ zeroed.joined = FreeSlot.joined
    BY <2>1 DEF SlotType
  <2>4. zeroed.bot = FreeSlot.bot /\ zeroed.outstanding = FreeSlot.outstanding
    BY <2>1 DEF SlotType
  <2> QED
    BY <1>4, <2>2, <2>3, <2>4 DEF FreeSlot
<1> HIDE DEF zeroed
<1>6. /\ new \in SlotType
      /\ new.state # "zombie" /\ new.disconnects = left[c].disconnects /\ Sound(new)
  <2>1. CASE denied
    <3>1. new = zeroed
      BY <2>1
    <3> HIDE DEF new
    <3> QED
      BY <1>5, <3>1 DEF Sound, Settled, Connected
  <2>2. CASE ~denied
    <3>1. new = [zeroed EXCEPT !.state = "connected", !.justConnected = TRUE, !.joined = 1]
      BY <2>2
    <3> HIDE DEF new
    <3>2. new \in SlotType
      <4>1. "connected" \in States /\ TRUE \in BOOLEAN /\ 1 \in 0 .. 1
        BY DEF States
      <4>2. \A s \in States, b \in BOOLEAN, j \in 0 .. 1 :
                [zeroed EXCEPT !.state = s, !.justConnected = b, !.joined = j] \in SlotType
        BY <1>5 DEF SlotType
      <4> QED
        BY <3>1, <4>1, <4>2, Zenon
    <3>3. /\ new.state = "connected" /\ new.joined = 1 /\ new.outstanding = zeroed.outstanding
          /\ new.disconnects = zeroed.disconnects
      BY <1>5, <3>1 DEF SlotType
    <3> QED
      BY <1>5, <3>2, <3>3, Sizes DEF Sound, Settled, Connected
  <2> QED
    BY <2>1, <2>2
<1> HIDE DEF new
<1>7. clients' \in Tables
  BY <1>2, <1>3, <1>6, TableOf
<1>8. clients'[c] = new /\ \A d \in Clients \ {c} : clients'[d] = left[d]
  BY <1>2, <1>3 DEF Tables
<1>9. Goes /\ \A d \in Clients \ {c} : clients'[d].disconnects <= 1
  <2>1. \A d \in Clients \ {c} : Outcome(Found[d], clients'[d])
    BY <1>2, <1>8
  <2>2. Sound(clients'[c]) /\ Tells(Found[c], clients'[c]) /\ clients'[c].disconnects <= 2
    BY <1>2, <1>6, <1>8 DEF Tells
  <2> QED
    BY <1>1, <1>7, <2>1, <2>2, GoesBut
<1> QED
  BY <1>2, <1>6, <1>8, <1>9

(***************************************************************************)
(* A bot is given a slot.                                                  *)
(***************************************************************************)
LEMMA BotAllocateGoes ==
  ASSUME IInv, NEW c \in Clients, SV_BotAllocateClient(c)
  PROVE  Goes /\ AllOnce
<1> DEFINE e == [Found[c] EXCEPT !.state = "primed", !.bot = TRUE, !.joined = 1]
<1>1. /\ running /\ running' = running /\ clients[c].state = "free"
      /\ clients' = [Found EXCEPT ![c].state = "primed", ![c].bot = TRUE, ![c].joined = 1]
  BY DEF SV_BotAllocateClient
<1>2. Found \in Tables /\ Found[c] \in SlotType
  BY <1>1, SoundNow
<1>3. clients' = [Found EXCEPT ![c] = e]
  BY <1>1, <1>2 DEF Tables
<1>4. e \in SlotType
  <2>1. "primed" \in States /\ TRUE \in BOOLEAN /\ 1 \in 0 .. 1
    BY DEF States
  <2>2. \A s \in States, b \in BOOLEAN, j \in 0 .. 1 :
            [Found[c] EXCEPT !.state = s, !.bot = b, !.joined = j] \in SlotType
    BY <1>2 DEF SlotType
  <2> QED
    BY <2>1, <2>2, Zenon
<1>5. e.state = "primed" /\ e.bot = TRUE /\ e.joined = 1 /\ e.disconnects = Found[c].disconnects
  BY <1>2 DEF SlotType
<1> HIDE DEF e
<1>6. Outcome(Found[c], e)
  BY <1>2, <1>5 DEF Outcome, Tells, Once, Spared, Sound, Settled, Connected, SlotType
<1> QED
  BY <1>1, <1>3, <1>4, <1>6, OneSlotGoes

(***************************************************************************)
(* A player's message is executed.                                         *)
(***************************************************************************)
LEMMA ClientMessageGoes ==
  ASSUME IInv, NEW c \in Clients, NEW left \in Nat, NEW limited \in BOOLEAN,
         SV_ExecuteClientMessage(c, left, limited)
  PROVE  Goes /\ AllOnce
<1> DEFINE state == IF limited THEN Found[c].state ELSE "primed"
           e == [Found[c] EXCEPT !.outstanding = left, !.justConnected = FALSE,
                                 !.state = state]
<1>1. /\ running /\ running' = running /\ Connected(clients[c])
      /\ left \in 0 .. clients[c].outstanding
      /\ clients' = [Found EXCEPT ![c].outstanding = left, ![c].justConnected = FALSE,
                                  ![c].state = IF limited THEN @ ELSE "primed"]
  BY DEF SV_ExecuteClientMessage
<1>2. /\ Found \in Tables /\ Found[c] \in SlotType
      /\ Sound(Found[c]) /\ Connected(Found[c]) /\ left \in 0 .. Found[c].outstanding
  BY <1>1, SoundNow DEF AsFound, Connected
<1>3. state \in {"connected", "primed"} /\ state \in States
  BY <1>2 DEF Connected, States
<1>4. clients' = [Found EXCEPT ![c] = e]
  BY <1>1, <1>2 DEF Tables
<1> HIDE DEF state
<1>5. e \in SlotType
  <2>1. FALSE \in BOOLEAN
    OBVIOUS
  <2>2. \A k \in Nat, j \in BOOLEAN, s \in States :
            [Found[c] EXCEPT !.outstanding = k, !.justConnected = j, !.state = s] \in SlotType
    BY <1>2 DEF SlotType
  <2> QED
    BY <1>3, <2>1, <2>2, Zenon
<1>6. /\ e.state = state /\ e.outstanding = left /\ e.bot = Found[c].bot
      /\ e.joined = Found[c].joined /\ e.disconnects = Found[c].disconnects
  BY <1>2 DEF SlotType
<1> HIDE DEF e
<1>7. Outcome(Found[c], e)
  BY <1>2, <1>3, <1>6, Sizes
  DEF Outcome, Tells, Once, Spared, Sound, Settled, Connected, SlotType
<1> QED
  BY <1>1, <1>4, <1>5, <1>7, OneSlotGoes

(***************************************************************************)
(* A bot takes a command off its ring.                                     *)
(***************************************************************************)
LEMMA BotMessageGoes ==
  ASSUME IInv, NEW c \in Clients, SV_BotGetConsoleMessage(c)
  PROVE  Goes /\ AllOnce
<1> DEFINE e == [Found[c] EXCEPT !.outstanding = @ - 1]
<1>1. /\ running /\ running' = running /\ clients[c].bot /\ clients[c].outstanding > 0
      /\ clients' = [Found EXCEPT ![c].outstanding = @ - 1]
  BY DEF SV_BotGetConsoleMessage
<1>2. /\ Found \in Tables /\ Found[c] \in SlotType /\ Sound(Found[c])
      /\ Found[c].bot /\ Found[c].outstanding > 0
  BY <1>1, SoundNow DEF AsFound
<1>3. clients' = [Found EXCEPT ![c] = e]
  BY <1>1, <1>2 DEF Tables
<1>4. e \in SlotType
  <2>1. Found[c].outstanding - 1 \in Nat
    BY <1>2 DEF SlotType
  <2> QED
    BY <1>2, <2>1 DEF SlotType
<1>5. /\ e.state = Found[c].state /\ e.bot = Found[c].bot
      /\ e.joined = Found[c].joined /\ e.disconnects = Found[c].disconnects
  BY <1>2 DEF SlotType
<1>6. e.last = Found[c].last
  BY <1>2 DEF SlotType
<1> HIDE DEF e
<1>7. Outcome(Found[c], e)
  BY <1>2, <1>5 DEF Outcome, Tells, Once, Spared, Primed, Sound, Settled, Connected, SlotType
<1> QED
  BY <1>1, <1>3, <1>4, <1>7, OneSlotGoes

(***************************************************************************)
(* The game sends a command, to one client or to all.                      *)
(***************************************************************************)
LEMMA CommandGoes ==
  ASSUME IInv, NEW speaks \in BOOLEAN,
         GameBroadcast(speaks) \/ \E c \in Clients : GameCommand(c, speaks)
  PROVE  Goes /\ AllOnce
<1>1. running /\ running' = running
  BY DEF GameBroadcast, GameCommand
<1>2. Found \in Tables /\ \A d \in Clients : Sound(Found[d])
  BY <1>1, SoundNow
<1>3. "game" \in Kinds
  BY DEF Kinds
<1>4. clients' \in Tables /\ Cascade(Found, clients')
  <2>1. CASE GameBroadcast(speaks)
    BY <1>2, <1>3, <2>1, SendSound DEF GameBroadcast
  <2>2. CASE \E c \in Clients : GameCommand(c, speaks)
    <3>1. PICK c \in Clients : GameCommand(c, speaks)
      BY <2>2
    <3>2. clients' = SV_AddServerCommand(Found, c, "game", Overflow(speaks))
      BY <3>1 DEF GameCommand
    <3> QED
      BY <1>2, <1>3, <3>2, AddSound DEF Told
  <2> QED
    BY <2>1, <2>2
<1>5. \A d \in Clients : Outcome(Found[d], clients'[d])
  BY <1>2, <1>4, CascadeSound
<1> QED
  BY <1>1, <1>4, <1>5, GoesAll

(***************************************************************************)
(* What a drop, of slot c, makes of the table.                             *)
(***************************************************************************)
LEMMA DropNow ==
  ASSUME IInv, running, NEW c \in Clients, Connected(clients[c]), NEW speaks \in BOOLEAN
  PROVE  \A reason \in BOOLEAN : \A t :
             t = SV_DropClient(Found, c, reason, speaks, Overflow(speaks))
             => /\ t \in Tables
                /\ \A d \in Clients \ {c} : Outcome(Found[d], t[d])
                /\ Sound(t[c]) /\ ~Connected(t[c]) /\ t[c].disconnects <= 2
                /\ reason => Tells(Found[c], t[c])
<1>1. /\ Found \in Tables
      /\ \A d \in Clients : /\ Found[d] \in SlotType
                            /\ Sound(Found[d])
                            /\ AsFound(clients[d], Found[d])
  BY SoundNow
<1>2. Connected(Found[c])
  BY <1>1 DEF AsFound, Connected
<1> SUFFICES ASSUME NEW reason \in BOOLEAN, NEW t,
                    t = SV_DropClient(Found, c, reason, speaks, Overflow(speaks))
             PROVE  /\ t \in Tables
                    /\ \A d \in Clients \ {c} : Outcome(Found[d], t[d])
                    /\ Sound(t[c]) /\ ~Connected(t[c]) /\ t[c].disconnects <= 2
                    /\ reason => Tells(Found[c], t[c])
  OBVIOUS
<1>3. Dropped(Found, c, reason, t)
  BY <1>1, <1>2, DropSound
<1>4. /\ t \in Tables
      /\ \A d \in Clients \ {c} : Outcome(Found[d], t[d])
      /\ Sound(t[c]) /\ AtMostTwice(Found[c], t[c])
      /\ reason => Tells(Found[c], t[c])
  BY <1>1, <1>2, <1>3, DroppedSound
<1>5. ~Connected(t[c])
  BY <1>3 DEF Dropped, Departs, Connected
<1>6. t[c].disconnects <= 2
  <2>1. clients[c] \in SlotType /\ t[c] \in SlotType
    BY <1>4, SlotOf DEF IInv
  <2> QED
    BY <1>1, <1>4, <2>1, FoundOutcome
<1> QED
  BY <1>4, <1>5, <1>6

(***************************************************************************)
(* A client is dropped for a reason: only it can be disconnected twice.    *)
(***************************************************************************)
LEMMA DropGoes ==
  ASSUME IInv, NEW c \in Clients, NEW speaks \in BOOLEAN, Drop(c, speaks)
  PROVE  Goes /\ \A d \in Clients \ {c} : clients'[d].disconnects <= 1
<1>1. /\ running /\ running' = running /\ Connected(clients[c])
      /\ clients' = SV_DropClient(Found, c, TRUE, speaks, Overflow(speaks))
  BY DEF Drop
<1>2. /\ clients' \in Tables
      /\ \A d \in Clients \ {c} : Outcome(Found[d], clients'[d])
      /\ Sound(clients'[c]) /\ Tells(Found[c], clients'[c]) /\ clients'[c].disconnects <= 2
  BY <1>1, DropNow
<1> QED
  BY <1>1, <1>2, GoesBut

(***************************************************************************)
(* A zombie's time is over.                                                *)
(***************************************************************************)
LEMMA ZombieGoes ==
  ASSUME IInv, NEW c \in Clients, ZombieTimeout(c)
  PROVE  Goes /\ AllOnce
<1> DEFINE e == [Found[c] EXCEPT !.state = "free"]
<1>1. /\ running /\ running' = running /\ clients[c].state = "zombie"
      /\ clients' = [Found EXCEPT ![c].state = "free"]
  BY DEF ZombieTimeout
<1>2. /\ Found \in Tables /\ Found[c] \in SlotType /\ Sound(Found[c])
      /\ Found[c].state = "zombie"
  BY <1>1, SoundNow DEF AsFound
<1>3. clients' = [Found EXCEPT ![c] = e]
  BY <1>1, <1>2 DEF Tables
<1>4. e \in SlotType
  BY <1>2 DEF SlotType, States
<1>5. e.state = "free" /\ e.joined = Found[c].joined /\ e.disconnects = Found[c].disconnects
  BY <1>2 DEF SlotType
<1> HIDE DEF e
<1>6. Outcome(Found[c], e)
  BY <1>2, <1>5 DEF Outcome, Tells, Once, Spared, Sound, Settled, Connected, SlotType
<1> QED
  BY <1>1, <1>3, <1>4, <1>6, OneSlotGoes

(***************************************************************************)
(* A client times out: only it can be disconnected twice.                  *)
(***************************************************************************)
LEMMA TimeoutGoes ==
  ASSUME IInv, NEW c \in Clients, NEW speaks \in BOOLEAN, Timeout(c, speaks)
  PROVE  Goes /\ \A d \in Clients \ {c} : clients'[d].disconnects <= 1
<1> DEFINE reason == ~clients[c].justConnected
           t == SV_DropClient(Found, c, reason, speaks, Overflow(speaks))
           e == [t[c] EXCEPT !.state = "free"]
<1>1. /\ running /\ running' = running /\ Connected(clients[c])
      /\ clients' = [t EXCEPT ![c].state = "free"]
  BY DEF Timeout
<1>2. reason \in BOOLEAN
  OBVIOUS
<1> HIDE DEF reason
<1>3. /\ t \in Tables
      /\ \A d \in Clients \ {c} : Outcome(Found[d], t[d])
      /\ Sound(t[c]) /\ ~Connected(t[c]) /\ t[c].disconnects <= 2
  BY <1>1, <1>2, DropNow
<1> HIDE DEF t
<1>4. t[c] \in SlotType
  BY <1>3, SlotOf
<1>5. clients' = [t EXCEPT ![c] = e]
  BY <1>1, <1>3 DEF Tables
<1>6. /\ e \in SlotType /\ e.state = "free"
      /\ e.joined = t[c].joined /\ e.disconnects = t[c].disconnects
  BY <1>4 DEF SlotType, States
<1> HIDE DEF e
<1>7. clients' \in Tables
  BY <1>3, <1>5, <1>6, TableOf
<1>8. clients'[c] = e /\ \A d \in Clients \ {c} : clients'[d] = t[d]
  BY <1>3, <1>5 DEF Tables
<1>9. Sound(e) /\ Tells(Found[c], e)
  BY <1>3, <1>6 DEF Sound, Settled, Tells, Connected
<1>10. \A d \in Clients \ {c} : Outcome(Found[d], clients'[d])
  BY <1>3, <1>8
<1>11. Sound(clients'[c]) /\ Tells(Found[c], clients'[c]) /\ clients'[c].disconnects <= 2
  BY <1>3, <1>6, <1>8, <1>9
<1> QED
  BY <1>1, <1>7, <1>10, <1>11, GoesBut

(***************************************************************************)
(* The map changes: only those the new game refuses can be disconnected    *)
(* twice.                                                                  *)
(***************************************************************************)
LEMMA SpawnGoes ==
  ASSUME IInv, NEW refused \in SUBSET Clients, NEW speaks \in BOOLEAN,
         SV_SpawnServer(refused, speaks)
  PROVE  Goes /\ \A d \in Clients \ refused : clients'[d].disconnects <= 1
<1>1. /\ running /\ running' = running
      /\ clients' = InSlotOrder(Reconnect(refused, speaks), Found)
  BY DEF SV_SpawnServer, Reconnect
<1>2. /\ Found \in Tables
      /\ \A d \in Clients : /\ Found[d] \in SlotType
                            /\ Sound(Found[d])
                            /\ AsFound(clients[d], Found[d])
  BY <1>1, SoundNow
<1>3. clients' \in Tables /\ Respawned(Found, refused, maxclients, clients')
  BY <1>1, <1>2, SpawnSound
<1>4. \A d \in Clients : ~(d > maxclients)
  BY Sizes DEF Clients
<1>5. \A d \in Clients : /\ Sound(clients'[d])
                         /\ Tells(Found[d], clients'[d])
                         /\ AtMostTwice(Found[d], clients'[d])
                         /\ d \in refused \/ Once(Found[d], clients'[d])
  BY <1>3, <1>4 DEF Respawned
<1>6. \A d \in Clients : clients[d] \in SlotType /\ clients'[d] \in SlotType
  BY <1>3, SlotOf DEF IInv
<1>7. \A d \in Clients : /\ Tells(clients[d], clients'[d])
                         /\ clients'[d].disconnects <= 2
                         /\ d \in refused \/ clients'[d].disconnects <= 1
  BY <1>2, <1>5, <1>6, FoundOutcome
<1> QED
  BY <1>1, <1>3, <1>5, <1>7 DEF Goes

(***************************************************************************)
(* The server shuts down.                                                  *)
(***************************************************************************)
LEMMA FinalGoes ==
  ASSUME IInv, NEW speaks \in BOOLEAN, SV_FinalMessage(speaks)
  PROVE  /\ clients' \in Tables
         /\ running' = FALSE
         /\ \A c \in Clients : /\ Settled(clients'[c])
                               /\ Tells(clients[c], clients'[c])
                               /\ clients'[c].disconnects <= 2
         /\ AllOnce
<1>1. /\ running /\ running' = FALSE
      /\ clients' = InSlotOrder(Pass(speaks), InSlotOrder(Pass(speaks), Found))
  BY DEF SV_FinalMessage, Pass
<1>2. /\ Found \in Tables
      /\ \A d \in Clients : /\ Found[d] \in SlotType
                            /\ Sound(Found[d])
                            /\ AsFound(clients[d], Found[d])
  BY <1>1, SoundNow
<1>3. /\ clients' \in Tables
      /\ \A d \in Clients : /\ Settled(clients'[d])
                            /\ Tells(Found[d], clients'[d])
                            /\ Once(Found[d], clients'[d])
  BY <1>1, <1>2, FinalSettles
<1>4. \A d \in Clients : clients[d] \in SlotType /\ clients'[d] \in SlotType
  BY <1>3, SlotOf DEF IInv
<1>5. \A d \in Clients : /\ Tells(clients[d], clients'[d])
                         /\ clients'[d].disconnects <= 1
                         /\ clients'[d].disconnects <= 2
  BY <1>2, <1>3, <1>4, FoundOutcome
<1> QED
  BY <1>1, <1>3, <1>5 DEF AllOnce

-----------------------------------------------------------------------------
(***************************************************************************)
(* Every step keeps the slots sound, tells whoever it makes a zombie, and  *)
(* disconnects nobody twice but those it drops itself.                     *)
(***************************************************************************)
LEMMA StepGoes ==
  ASSUME IInv, Next
  PROVE  /\ IInv'
         /\ \A c \in Clients : Tells(clients[c], clients'[c]) /\ clients'[c].disconnects <= 2
         /\ \A c \in Clients : clients'[c].disconnects <= 1 \/ Twice(c)
<1>1. ASSUME Goes, \A c \in Clients : clients'[c].disconnects <= 1 \/ Twice(c)
      PROVE  /\ IInv'
             /\ \A c \in Clients : Tells(clients[c], clients'[c]) /\ clients'[c].disconnects <= 2
             /\ \A c \in Clients : clients'[c].disconnects <= 1 \/ Twice(c)
  <2>1. \A c \in Clients : Settled(clients'[c])
    BY <1>1 DEF Goes, Sound
  <2> QED
    BY <1>1, <2>1 DEF Goes, IInv
<1>2. ASSUME Goes, AllOnce
      PROVE  /\ IInv'
             /\ \A c \in Clients : Tells(clients[c], clients'[c]) /\ clients'[c].disconnects <= 2
             /\ \A c \in Clients : clients'[c].disconnects <= 1 \/ Twice(c)
  BY <1>1, <1>2 DEF AllOnce
<1>3. CASE \E speaks \in BOOLEAN : GameBroadcast(speaks)
  BY <1>2, <1>3, CommandGoes
<1>4. CASE \E speaks \in BOOLEAN : SV_FinalMessage(speaks)
  <2>1. PICK speaks \in BOOLEAN : SV_FinalMessage(speaks)
    BY <1>4
  <2> QED
    BY <2>1, FinalGoes DEF IInv, AllOnce
<1>5. CASE \E speaks \in BOOLEAN : \E refused \in SUBSET Clients : SV_SpawnServer(refused, speaks)
  <2>1. PICK speaks \in BOOLEAN, refused \in SUBSET Clients : SV_SpawnServer(refused, speaks)
    BY <1>5
  <2>2. Goes /\ \A d \in Clients \ refused : clients'[d].disconnects <= 1
    BY <2>1, SpawnGoes
  <2>3. \A d \in refused : Twice(d)
    BY <2>1 DEF Twice
  <2> QED
    BY <1>1, <2>2, <2>3
<1>6. CASE \E c \in Clients : SV_BotAllocateClient(c)
  BY <1>2, <1>6, BotAllocateGoes
<1>7. CASE \E c \in Clients : SV_BotGetConsoleMessage(c)
  BY <1>2, <1>7, BotMessageGoes
<1>8. CASE \E c \in Clients : ZombieTimeout(c)
  BY <1>2, <1>8, ZombieGoes
<1>9. CASE \E c \in Clients : \E left \in 0 .. MaxOutstanding, limited \in BOOLEAN :
               SV_ExecuteClientMessage(c, left, limited)
  <2>1. PICK c \in Clients, left \in 0 .. MaxOutstanding, limited \in BOOLEAN :
             SV_ExecuteClientMessage(c, left, limited)
    BY <1>9
  <2>2. left \in Nat
    BY ClientSlotsAssumption
  <2> QED
    BY <1>2, <2>1, <2>2, ClientMessageGoes
<1>10. CASE \E c \in Clients : \E speaks \in BOOLEAN : \E denied \in BOOLEAN :
                SV_DirectConnect(c, denied, speaks)
  <2>1. PICK c \in Clients, speaks \in BOOLEAN, denied \in BOOLEAN :
             SV_DirectConnect(c, denied, speaks)
    BY <1>10
  <2>2. /\ Goes
        /\ \A d \in Clients \ {c} : clients'[d].disconnects <= 1
        /\ clients'[c].disconnects <= 1 \/ Connected(clients[c])
    BY <2>1, DirectConnectGoes
  <2>3. Connected(clients[c]) => Twice(c)
    BY <2>1 DEF Twice
  <2> QED
    BY <1>1, <2>2, <2>3
<1>11. CASE \E c \in Clients : \E speaks \in BOOLEAN : GameCommand(c, speaks)
  BY <1>2, <1>11, CommandGoes
<1>12. CASE \E c \in Clients : \E speaks \in BOOLEAN : Drop(c, speaks)
  <2>1. PICK c \in Clients, speaks \in BOOLEAN : Drop(c, speaks)
    BY <1>12
  <2>2. Goes /\ \A d \in Clients \ {c} : clients'[d].disconnects <= 1
    BY <2>1, DropGoes
  <2>3. Twice(c)
    BY <2>1 DEF Twice
  <2> QED
    BY <1>1, <2>2, <2>3
<1>13. CASE \E c \in Clients : \E speaks \in BOOLEAN : Timeout(c, speaks)
  <2>1. PICK c \in Clients, speaks \in BOOLEAN : Timeout(c, speaks)
    BY <1>13
  <2>2. Goes /\ \A d \in Clients \ {c} : clients'[d].disconnects <= 1
    BY <2>1, TimeoutGoes
  <2>3. Twice(c)
    BY <2>1 DEF Twice
  <2> QED
    BY <1>1, <2>2, <2>3
<1> QED
  BY <1>3, <1>4, <1>5, <1>6, <1>7, <1>8, <1>9, <1>10, <1>11, <1>12, <1>13 DEF Next

(***************************************************************************)
(* The inductive invariant holds at the start.                             *)
(***************************************************************************)
LEMMA InitSound == ASSUME Init PROVE IInv
<1>1. FreeSlot \in SlotType /\ Sound(FreeSlot)
  BY Sizes DEF SlotType, States, Kinds, FreeSlot, Sound, Settled, Connected
<1>2. clients \in Tables /\ \A c \in Clients : clients[c] = FreeSlot
  BY <1>1 DEF Init, Tables, SlotType
<1> QED
  BY <1>1, <1>2 DEF Init, IInv, Sound

(***************************************************************************)
(* The table of slots stays sound, whatever the drops cascade to.          *)
(***************************************************************************)
THEOREM SlotsSound == Spec => []IInv
<1>1. ASSUME IInv, [Next]_vars PROVE IInv'
  <2>1. CASE Next
    BY <1>1, <2>1, StepGoes
  <2>2. CASE UNCHANGED vars
    BY <1>1, <2>2 DEF vars, IInv
  <2> QED
    BY <1>1, <2>1, <2>2
<1> QED
  BY <1>1, InitSound, PTL DEF Spec

(***************************************************************************)
(* Every slot is of its type, whatever the drops cascade to.               *)
(***************************************************************************)
THEOREM SlotsTypeCorrect == Spec => []TypeOK
<1>1. ASSUME IInv PROVE TypeOK
  BY <1>1 DEF IInv, TypeOK
<1> QED
  BY <1>1, SlotsSound, PTL

(***************************************************************************)
(* No player in the game has more commands outstanding than its ring       *)
(* holds.                                                                  *)
(***************************************************************************)
THEOREM PlayersKeepWithinRing == Spec => []PlayersWithinRing
<1>1. ASSUME IInv PROVE PlayersWithinRing
  BY <1>1 DEF IInv, PlayersWithinRing, WithinRing, Settled, Connected, Primed
<1> QED
  BY <1>1, SlotsSound, PTL

(***************************************************************************)
(* The server and the game agree on who is connected.                      *)
(***************************************************************************)
THEOREM GameKnows == Spec => []GameKnowsConnected
<1>1. ASSUME IInv PROVE GameKnowsConnected
  BY <1>1 DEF IInv, GameKnowsConnected, Sound
<1> QED
  BY <1>1, SlotsSound, PTL

(***************************************************************************)
(* Whoever leaves the game by way of a zombie slot is told so last.        *)
(***************************************************************************)
THEOREM EveryoneToldLast == Spec => ToldLast
<1>1. ASSUME IInv, [Next]_vars
      PROVE  [\A c \in Clients : Primed(clients[c]) /\ clients'[c].state = "zombie"
                                     => clients'[c].last = "disconnect"]_vars
  <2>1. CASE Next
    BY <1>1, <2>1, StepGoes DEF Tells
  <2>2. CASE UNCHANGED vars
    BY <2>2
  <2> QED
    BY <1>1, <2>1, <2>2
<1> QED
  BY <1>1, SlotsSound, PTL DEF Spec, ToldLast

(***************************************************************************)
(* No client is disconnected from the game three times in one step, and    *)
(* only one that is dropped for another reason than an overflow, or that   *)
(* reconnects, twice.                                                      *)
(***************************************************************************)
THEOREM OnlyDroppedTwice == Spec => DropsNested
<1>1. ASSUME IInv, [Next]_vars
      PROVE  [\A c \in Clients :
                 /\ clients'[c].disconnects <= 2
                 /\ \/ clients'[c].disconnects <= 1
                    \/ \E speaks \in BOOLEAN :
                        \/ Drop(c, speaks)
                        \/ Timeout(c, speaks)
                        \/ \E denied \in BOOLEAN :
                              Connected(clients[c]) /\ SV_DirectConnect(c, denied, speaks)
                        \/ \E refused \in SUBSET Clients :
                              c \in refused /\ SV_SpawnServer(refused, speaks)]_vars
  <2>1. CASE Next
    BY <1>1, <2>1, StepGoes DEF Twice
  <2>2. CASE UNCHANGED vars
    BY <2>2
  <2> QED
    BY <1>1, <2>1, <2>2
<1> QED
  BY <1>1, SlotsSound, PTL DEF Spec, DropsNested

-----------------------------------------------------------------------------
(***************************************************************************)
(* The handshake by which a client comes by its slot: Connection, whatever *)
(* its time limits.                                                        *)
(***************************************************************************)
Types == {"getchallenge", "challengeResponse", "connect", "connectResponse", "disconnect"}

DatagramType ==
    [type : Types, challenge : Challenges, echo : Challenges, sent : Times,
     copies : 1 .. MaxCopies]

ClientType ==
    [state : {"disconnected", "connecting", "challenging", "connected"},
     challenge : Challenges, connectTime : Times, attempt : 0 .. MaxAttempts]

HeldType ==
    [state : {"left", "connected", "active"}, challenge : Challenges,
     justConnected : BOOLEAN, lastConnectTime : Times]

BucketType == [burst : 0 .. Burst, toxic : Nat]

HandshakeInv == ConnectionTypeOK /\ DropsForgiven

(***************************************************************************)
(* ConnectionTypeOK by its parts.                                          *)
(***************************************************************************)
LEMMA TypeParts ==
  ConnectionTypeOK <=> /\ now \in StartTime .. MaxTime
                       /\ clc \in ClientType
                       /\ cl \in HeldType
                       /\ cl.justConnected => cl.state = "connected"
                       /\ bucket \in BucketType
                       /\ net \subseteq DatagramType
                       /\ began \in StartTime .. Never
  BY DEF ConnectionTypeOK, Types, DatagramType, ClientType, HeldType, BucketType

(***************************************************************************)
(* The constants are numbers.                                              *)
(***************************************************************************)
LEMMA LimitNumbers ==
  /\ Window \in Nat \ {0} /\ Burst \in Nat \ {0} /\ MaxCopies \in Nat \ {0}
  /\ RETRANSMIT_TIMEOUT \in Nat \ {0} /\ sv_reconnectlimit \in Nat \ {0}
  /\ StartTime \in Nat /\ MaxTime \in Nat /\ MaxAttempts \in Nat /\ MaxDelay \in Nat
  /\ StartTime <= MaxTime
  BY ConnectionAssumption

(***************************************************************************)
(* A window that has begun has a number in reach.                          *)
(***************************************************************************)
LEMMA WindowNumber ==
  ASSUME NEW w \in Nat \ {0}, NEW x \in Nat, NEW y \in Nat, x <= y
  PROVE  x \div w \in 0 .. y \div w
  OBVIOUS

(***************************************************************************)
(* The width of a challenge takes nothing from a number but its excess.    *)
(***************************************************************************)
LEMMA Stamp ==
  ASSUME NEW x \in Nat
  PROVE  x % 2^16 \in 0 .. x /\ x % 2 \in 0 .. 1
<1>1. x % 2^16 \in 0 .. x
  OBVIOUS
<1>2. x % 2 \in 0 .. 1
  OBVIOUS
<1> QED
  BY <1>1, <1>2

(***************************************************************************)
(* The server's challenges and the client's own numbers are challenges.    *)
(***************************************************************************)
LEMMA ChallengeTypes ==
  ASSUME now \in StartTime .. MaxTime
  PROVE  /\ SV_CreateChallenge(now \div Window) \in Challenges
         /\ \A attempt \in 0 .. MaxAttempts : Own(attempt) \in Challenges
<1>1. now \in Nat /\ now <= MaxTime
  BY LimitNumbers
<1>2. PICK last \in Nat : last = MaxTime \div Window
  BY LimitNumbers, WindowNumber
<1>3. PICK current \in Nat : current = now \div Window /\ current <= last
  BY <1>1, <1>2, LimitNumbers, WindowNumber
<1>4. current % 2^16 \in 0 .. current /\ current % 2 \in 0 .. 1
  BY Stamp
<1>5. SV_CreateChallenge(current) \in Challenges
  <2>1. PICK stamp, period : stamp = current % 2^16 /\ period = current % 2
    OBVIOUS
  <2>2. SV_CreateChallenge(current) = [stamp |-> stamp, period |-> period]
    BY <2>1 DEF SV_CreateChallenge
  <2>3. stamp \in - MaxAttempts .. last /\ period \in 0 .. 1
    BY <1>3, <1>4, <2>1, LimitNumbers
  <2> QED
    BY <1>2, <2>2, <2>3 DEF Challenges
<1>6. ASSUME NEW attempt \in 0 .. MaxAttempts
      PROVE  Own(attempt) \in Challenges
  <2>1. - attempt \in - MaxAttempts .. last
    BY LimitNumbers
  <2> QED
    BY <1>2, <2>1 DEF Own, Challenges
<1> QED
  BY <1>3, <1>5, <1>6

(***************************************************************************)
(* What is sent is a datagram.                                             *)
(***************************************************************************)
LEMMA DatagramTypes ==
  ASSUME now \in StartTime .. MaxTime,
         NEW type \in Types, NEW challenge \in Challenges, NEW echo \in Challenges,
         NEW p, p = Datagram(type, challenge, echo)
  PROVE  /\ p \in DatagramType
         /\ p.type = type
         /\ p.sent = now
<1>1. now \in Times
  BY LimitNumbers DEF Times, LongAgo
<1>2. Copies(type) \in 1 .. MaxCopies
  BY LimitNumbers DEF Copies
<1> QED
  BY <1>1, <1>2 DEF Datagram, DatagramType

(***************************************************************************)
(* What is under way once p has arrived was under way before.              *)
(***************************************************************************)
LEMMA TakenTypes ==
  ASSUME net \subseteq DatagramType, NEW p \in net
  PROVE  /\ Taken(p) \subseteq DatagramType
         /\ \A q \in Taken(p) : \E r \in net : r.type = q.type /\ r.sent = q.sent
<1>1. p \in DatagramType /\ p.copies \in 1 .. MaxCopies
  BY DEF DatagramType
<1>2. ASSUME p.copies > 1, NEW q, q = [p EXCEPT !.copies = @ - 1]
      PROVE  q \in DatagramType /\ q.type = p.type /\ q.sent = p.sent
  <2>1. p.copies - 1 \in 1 .. MaxCopies
    BY <1>1, <1>2, LimitNumbers
  <2> QED
    BY <1>1, <1>2, <2>1 DEF DatagramType
<1>3. CASE p.copies > 1
  BY <1>2, <1>3 DEF Taken
<1>4. CASE ~ (p.copies > 1)
  BY <1>4 DEF Taken
<1> QED
  BY <1>3, <1>4
-----------------------------------------------------------------------------
(***************************************************************************)
(* A request counted, forgotten, or a silent drop forgiven leaves a bucket *)
(* that is not fuller than a bucket can be.                                *)
(***************************************************************************)
LEMMA BucketTypes ==
  ASSUME bucket \in BucketType
  PROVE  /\ SVC_RateLimit \in BucketType
         /\ SVC_RateLimit.toxic = bucket.toxic
         /\ \A b \in BucketType :
               /\ RestoreBurst(b) \in BucketType /\ RestoreBurst(b).toxic = b.toxic
               /\ RestoreToxic(b) \in BucketType
               /\ RestoreToxic(b).toxic = IF b.toxic > 0 THEN b.toxic - 1 ELSE 0
         /\ Empty \in BucketType
<1>1. bucket.burst \in 0 .. Burst /\ bucket.toxic \in Nat
  BY DEF BucketType
<1>2. SVC_RateLimit \in BucketType /\ SVC_RateLimit.toxic = bucket.toxic
  <2>1. CASE Limited
    BY <2>1 DEF SVC_RateLimit
  <2>2. CASE ~Limited
    <3>1. bucket.burst + 1 \in 0 .. Burst
      BY <1>1, <2>2, LimitNumbers DEF Limited
    <3> QED
      BY <1>1, <2>2, <3>1 DEF SVC_RateLimit, BucketType
  <2> QED
    BY <2>1, <2>2
<1>3. ASSUME NEW b \in BucketType
      PROVE  /\ RestoreBurst(b) \in BucketType /\ RestoreBurst(b).toxic = b.toxic
             /\ RestoreToxic(b) \in BucketType
             /\ RestoreToxic(b).toxic = IF b.toxic > 0 THEN b.toxic - 1 ELSE 0
  <2>1. b.burst \in 0 .. Burst /\ b.toxic \in Nat
    BY DEF BucketType
  <2>2. PICK less : less = IF b.burst > 0 THEN b.burst - 1 ELSE 0
    OBVIOUS
  <2>3. less \in 0 .. Burst
    BY <2>1, <2>2, LimitNumbers
  <2>4. RestoreBurst(b) = [b EXCEPT !.burst = less]
    BY <2>2 DEF RestoreBurst, BucketType
  <2>5. PICK forgiven : forgiven = IF b.toxic > 0 THEN b.toxic - 1 ELSE 0
    OBVIOUS
  <2>6. forgiven \in Nat
    BY <2>1, <2>5
  <2>7. RestoreToxic(b) = [b EXCEPT !.toxic = forgiven]
    BY <2>5 DEF RestoreToxic, BucketType
  <2> QED
    BY <2>3, <2>4, <2>5, <2>6, <2>7 DEF BucketType
<1>4. Empty \in BucketType
  BY LimitNumbers DEF Empty, BucketType
<1> QED
  BY <1>2, <1>3, <1>4

(***************************************************************************)
(* A message heard leaves a slot a slot, no longer just connected.         *)
(***************************************************************************)
LEMMA HeardTypes ==
  ASSUME cl \in HeldType, cl.justConnected => cl.state = "connected",
         NEW challenge, NEW disconnects \in BOOLEAN
  PROVE  LET s == Heard(challenge, disconnects)
         IN  /\ s \in HeldType
             /\ s.justConnected => s.state = "connected" /\ cl.justConnected
             /\ s.lastConnectTime = cl.lastConnectTime
  BY DEF Heard, HeldType
-----------------------------------------------------------------------------
(***************************************************************************)
(* The inductive invariant holds at the start.                             *)
(***************************************************************************)
LEMMA InitInv == ConnectionInit => HandshakeInv
<1> SUFFICES ASSUME ConnectionInit
             PROVE  HandshakeInv
  OBVIOUS
<1>1. now \in StartTime .. MaxTime /\ began \in StartTime .. Never
  BY LimitNumbers DEF ConnectionInit, Never
<1>2. LongAgo \in Times
  BY LimitNumbers DEF Times, LongAgo
<1>3. Own(0) \in Challenges
  BY <1>1, ChallengeTypes, LimitNumbers
<1>4. clc \in ClientType /\ cl \in HeldType /\ cl.justConnected = FALSE
  BY <1>2, <1>3, LimitNumbers DEF ConnectionInit, Wiped, ClientType, HeldType
<1>5. bucket \in BucketType /\ bucket.toxic = 0
  BY LimitNumbers DEF ConnectionInit, Empty, BucketType
<1>6. net \subseteq DatagramType
  BY DEF ConnectionInit
<1>7. ConnectionTypeOK
  BY <1>1, <1>4, <1>5, <1>6, TypeParts
<1>8. DropsForgiven
  BY <1>4, <1>5 DEF DropsForgiven
<1> QED
  BY <1>7, <1>8 DEF HandshakeInv

(***************************************************************************)
(* The invariant of the next state by its parts.                           *)
(***************************************************************************)
LEMMA NextInv ==
  ASSUME now' \in StartTime .. MaxTime,
         clc' \in ClientType,
         cl' \in HeldType, cl'.justConnected => cl'.state = "connected",
         bucket' \in BucketType, net' \subseteq DatagramType,
         began' \in StartTime .. Never,
         bucket'.toxic = 0 \/ (bucket'.toxic = 1 /\ ~cl'.justConnected)
  PROVE  HandshakeInv'
<1>1. ConnectionTypeOK'
  BY DEF ConnectionTypeOK, Types, DatagramType, ClientType, HeldType, BucketType,
         Times, LongAgo, Never, Challenges
<1>2. DropsForgiven'
  BY DEF DropsForgiven, HeldType
<1> QED
  BY <1>1, <1>2 DEF HandshakeInv

(***************************************************************************)
(* The score of silent drops is 0, or 1 when no connect has been accepted  *)
(* since.                                                                  *)
(***************************************************************************)
LEMMA Score ==
  ASSUME HandshakeInv
  PROVE  bucket.toxic = 0 \/ (bucket.toxic = 1 /\ ~cl.justConnected)
<1>1. bucket.toxic \in Nat /\ cl.justConnected \in BOOLEAN
  BY TypeParts DEF HandshakeInv, BucketType, HeldType
<1>2. CASE cl.justConnected
  BY <1>1, <1>2 DEF HandshakeInv, DropsForgiven
<1>3. CASE ~cl.justConnected
  BY <1>1, <1>3 DEF HandshakeInv, DropsForgiven
<1> QED
  BY <1>2, <1>3

(***************************************************************************)
(* The steps of the client.                                                *)
(***************************************************************************)
LEMMA ClientSteps ==
  ASSUME HandshakeInv,
         \/ CL_Connect_f \/ CL_CheckForResend \/ CL_Disconnect
         \/ \E p \in net : ChallengeResponse(p) \/ ConnectResponse(p)
  PROVE  HandshakeInv'
<1> USE TypeParts DEF HandshakeInv
<1>1. now \in StartTime .. Never /\ Never \in StartTime .. Never
      /\ now \in Times /\ LongAgo \in Times
  BY LimitNumbers DEF Never, Times, LongAgo
<1>2. UNCHANGED <<now, cl, bucket>>
  BY DEF CL_Connect_f, CL_CheckForResend, CL_Disconnect, ChallengeResponse, ConnectResponse
<1>3. clc' \in ClientType /\ net' \subseteq DatagramType /\ began' \in StartTime .. Never
  <2>1. CASE CL_Connect_f
    <3>1. clc.attempt + 1 \in 0 .. MaxAttempts
      BY <2>1, LimitNumbers DEF CL_Connect_f, ClientType
    <3>2. Own(clc.attempt + 1) \in Challenges
      BY <3>1, ChallengeTypes
    <3>3. PICK attempt, own : attempt = clc.attempt + 1 /\ own = Own(clc.attempt + 1)
      OBVIOUS
    <3>4. clc' = [state |-> "connecting", challenge |-> own, connectTime |-> LongAgo,
                  attempt |-> attempt]
      BY <2>1, <3>3 DEF CL_Connect_f, Wiped
    <3> QED
      BY <1>1, <2>1, <3>1, <3>2, <3>3, <3>4 DEF CL_Connect_f, ClientType
  <2>2. CASE CL_CheckForResend
    <3>1. clc' = [clc EXCEPT !.connectTime = now] /\ began' = began
      BY <2>2 DEF CL_CheckForResend
    <3>2. PICK type \in Types : type = IF clc.state = "connecting" THEN "getchallenge" ELSE "connect"
      BY DEF Types
    <3>3. net' = net \cup {Datagram(type, clc.challenge, clc.challenge)}
      BY <2>2, <3>2 DEF CL_CheckForResend, Packet
    <3>4. clc.challenge \in Challenges
      BY DEF ClientType
    <3>5. Datagram(type, clc.challenge, clc.challenge) \in DatagramType
      BY <3>4, DatagramTypes
    <3> QED
      BY <1>1, <3>1, <3>3, <3>5 DEF ClientType
  <2>3. CASE CL_Disconnect
    <3>1. Own(0) \in Challenges
      BY ChallengeTypes, LimitNumbers
    <3>2. clc' = [state |-> "disconnected", challenge |-> Own(0), connectTime |-> LongAgo,
                  attempt |-> clc.attempt]
      BY <2>3 DEF CL_Disconnect, Wiped
    <3>3. PICK type \in Types : type = "disconnect"
      BY DEF Types
    <3>4. net' = net \/ net' = net \cup {Datagram(type, clc.challenge, clc.challenge)}
      BY <2>3, <3>3 DEF CL_Disconnect, Packet
    <3>5. clc.challenge \in Challenges
      BY DEF ClientType
    <3>6. Datagram(type, clc.challenge, clc.challenge) \in DatagramType
      BY <3>5, DatagramTypes
    <3>7. clc' \in ClientType
      BY <1>1, <3>1, <3>2 DEF ClientType
    <3> QED
      BY <1>1, <2>3, <3>4, <3>6, <3>7 DEF CL_Disconnect
  <2>4. CASE \E p \in net : ChallengeResponse(p)
    <3>1. PICK p \in net : ChallengeResponse(p)
      BY <2>4
    <3>2. net' \subseteq DatagramType
      BY <3>1, TakenTypes DEF ChallengeResponse
    <3>3. p.challenge \in Challenges
      BY DEF DatagramType
    <3>4. clc' \in ClientType /\ began' = began
      BY <1>1, <3>1, <3>3 DEF ChallengeResponse, ClientType
    <3> QED
      BY <3>2, <3>4
  <2>5. CASE \E p \in net : ConnectResponse(p)
    <3>1. PICK p \in net : ConnectResponse(p)
      BY <2>5
    <3>2. net' \subseteq DatagramType
      BY <3>1, TakenTypes DEF ConnectResponse
    <3>3. clc' \in ClientType /\ began' \in StartTime .. Never
      BY <1>1, <3>1 DEF ConnectResponse, ClientType
    <3> QED
      BY <3>2, <3>3
  <2> QED
    BY <2>1, <2>2, <2>3, <2>4, <2>5
<1> QED
  BY <1>2, <1>3, Score, NextInv

(***************************************************************************)
(* A getchallenge and a message: the slot is at most heard of.             *)
(***************************************************************************)
LEMMA MessageSteps ==
  ASSUME HandshakeInv,
         SV_PacketEvent \/ \E p \in net : SV_GetChallenge(p) \/ LastMessage(p)
  PROVE  HandshakeInv'
<1> USE TypeParts DEF HandshakeInv
<1>1. now' = now /\ clc' = clc /\ began' = began
  BY DEF SV_PacketEvent, SV_GetChallenge, LastMessage
<1>2. CASE SV_PacketEvent
  <2>1. cl' \in HeldType /\ (cl'.justConnected => cl'.state = "connected" /\ cl.justConnected)
    BY <1>2, HeardTypes DEF SV_PacketEvent
  <2>2. bucket' = bucket /\ net' = net
    BY <1>2 DEF SV_PacketEvent
  <2> QED
    BY <1>1, <2>1, <2>2, Score, NextInv
<1>3. CASE \E p \in net : LastMessage(p)
  <2>1. PICK p \in net : LastMessage(p)
    BY <1>3
  <2>2. cl' \in HeldType /\ (cl'.justConnected => cl'.state = "connected" /\ cl.justConnected)
    BY <2>1, HeardTypes DEF LastMessage
  <2>3. bucket' = bucket /\ net' \subseteq DatagramType
    BY <2>1, TakenTypes DEF LastMessage
  <2> QED
    BY <1>1, <2>2, <2>3, Score, NextInv
<1>4. CASE \E p \in net : SV_GetChallenge(p)
  <2>1. PICK p \in net : SV_GetChallenge(p)
    BY <1>4
  <2>2. PICK type \in Types : type = "challengeResponse"
    BY DEF Types
  <2>3. PICK challenge \in Challenges, echo \in Challenges :
            challenge = SV_CreateChallenge(now \div Window) /\ echo = p.challenge
    BY ChallengeTypes DEF DatagramType
  <2>4. Datagram(type, challenge, echo) \in DatagramType
    BY DatagramTypes
  <2>5. net' = Taken(p) \/ net' = Taken(p) \cup {Datagram(type, challenge, echo)}
    BY <2>1, <2>2, <2>3 DEF SV_GetChallenge
  <2>6. net' \subseteq DatagramType
    BY <2>4, <2>5, TakenTypes
  <2>7. bucket' = SVC_RateLimit /\ cl' = cl
    BY <2>1 DEF SV_GetChallenge
  <2>8. bucket' \in BucketType /\ bucket'.toxic = bucket.toxic
    BY <2>7, BucketTypes
  <2> QED
    BY <1>1, <2>6, <2>7, <2>8, Score, NextInv
<1> QED
  BY <1>2, <1>3, <1>4

(***************************************************************************)
(* A connect, refused or accepted: an accepted one takes a silent drop off *)
(* the score.                                                              *)
(***************************************************************************)
LEMMA ConnectStep ==
  ASSUME HandshakeInv, NEW p \in net, DirectConnect(p)
  PROVE  HandshakeInv'
<1> USE TypeParts DEF HandshakeInv
<1>1. now' = now /\ clc' = clc /\ began' = began
  BY DEF DirectConnect
<1>2. Taken(p) \subseteq DatagramType
  BY TakenTypes
<1>3. CASE bucket' = SVC_RateLimit /\ net' = Taken(p) /\ cl' = cl
  <2>1. bucket' \in BucketType /\ bucket'.toxic = bucket.toxic
    BY <1>3, BucketTypes
  <2> QED
    BY <1>1, <1>2, <1>3, <2>1, Score, NextInv
<1>4. CASE bucket' = RestoreBurst(SVC_RateLimit) /\ net' = Taken(p) /\ cl' = cl
  <2>1. bucket' \in BucketType /\ bucket'.toxic = bucket.toxic
    BY <1>4, BucketTypes
  <2> QED
    BY <1>1, <1>2, <1>4, <2>1, Score, NextInv
<1>5. CASE /\ bucket' = RestoreToxic(RestoreBurst(SVC_RateLimit))
           /\ cl' = [state |-> "connected", challenge |-> p.challenge, justConnected |-> TRUE,
                     lastConnectTime |-> now]
           /\ net' = Taken(p) \cup {Packet("connectResponse", p.challenge)}
  <2>1. bucket' \in BucketType
        /\ bucket'.toxic = IF bucket.toxic > 0 THEN bucket.toxic - 1 ELSE 0
    <3>1. PICK b \in BucketType : b = RestoreBurst(SVC_RateLimit) /\ b.toxic = bucket.toxic
      BY BucketTypes
    <3> QED
      BY <1>5, <3>1, BucketTypes
  <2>2. bucket'.toxic = 0
    BY <2>1, Score
  <2>3. p.challenge \in Challenges /\ now \in Times
    BY LimitNumbers DEF DatagramType, Times, LongAgo
  <2>4. cl' \in HeldType /\ cl'.state = "connected"
    BY <1>5, <2>3 DEF HeldType
  <2>5. PICK type \in Types : type = "connectResponse"
    BY DEF Types
  <2>6. Datagram(type, p.challenge, p.challenge) \in DatagramType
    BY <2>3, DatagramTypes
  <2>7. net' \subseteq DatagramType
    BY <1>2, <1>5, <2>5, <2>6 DEF Packet
  <2> QED
    BY <1>1, <2>1, <2>2, <2>4, <2>7, NextInv
<1> QED
  BY <1>3, <1>4, <1>5 DEF DirectConnect

(***************************************************************************)
(* Drops, reclaimed buckets and the passing of time.  A silent drop fills  *)
(* the bucket exactly, since no drop before it is still counted.           *)
(***************************************************************************)
LEMMA ServerSteps ==
  ASSUME HandshakeInv, SV_CheckTimeouts \/ ServerDrops \/ BucketReclaimed \/ Tick
  PROVE  HandshakeInv'
<1> USE TypeParts DEF HandshakeInv
<1>1. CASE SV_CheckTimeouts
  <2>1. UNCHANGED <<now, clc, net, began>> /\ cl.justConnected
    BY <1>1 DEF SV_CheckTimeouts, Unheard
  <2>2. cl' \in HeldType /\ cl'.justConnected = FALSE
    BY <1>1 DEF SV_CheckTimeouts, HeldType
  <2>3. bucket.toxic = 0
    BY <2>1, Score
  <2>4. bucket' = [burst |-> Burst * (0 + 1), toxic |-> 0 + 1]
    BY <1>1, <2>3 DEF SV_CheckTimeouts, SVC_RateDrop
  <2>5. Burst * (0 + 1) = Burst /\ 0 + 1 = 1
    BY LimitNumbers
  <2>6. bucket' = [burst |-> Burst, toxic |-> 1]
    BY <2>4, <2>5
  <2>7. bucket' \in BucketType /\ bucket'.toxic = 1
    BY <2>6, LimitNumbers DEF BucketType
  <2> QED
    BY <2>1, <2>2, <2>7, NextInv
<1>2. CASE ServerDrops
  <2>1. UNCHANGED <<now, clc, bucket, net, began>>
    BY <1>2 DEF ServerDrops
  <2>2. cl' \in HeldType /\ cl'.justConnected = FALSE
    BY <1>2 DEF ServerDrops, HeldType
  <2> QED
    BY <2>1, <2>2, Score, NextInv
<1>3. CASE BucketReclaimed
  <2>1. UNCHANGED <<now, clc, cl, net, began>> /\ bucket' = Empty
    BY <1>3 DEF BucketReclaimed
  <2>2. bucket' \in BucketType /\ bucket'.toxic = 0
    BY <2>1, BucketTypes DEF Empty
  <2> QED
    BY <2>1, <2>2, NextInv
<1>4. CASE Tick
  <2>1. now < MaxTime /\ now' = now + 1 /\ clc' = clc /\ cl' = cl
    BY <1>4 DEF Tick
  <2>2. now' \in StartTime .. MaxTime
    BY <2>1, LimitNumbers
  <2>3. net' \subseteq net
    BY <1>4 DEF Tick
  <2>4. began' \in StartTime .. Never
    BY <1>4, LimitNumbers DEF Tick, Never
  <2>5. bucket' = RestoreBurst(bucket)
    BY <1>4 DEF Tick, RestoreBurst
  <2>6. bucket' \in BucketType /\ bucket'.toxic = bucket.toxic
    BY <2>5, BucketTypes
  <2> QED
    BY <2>1, <2>2, <2>3, <2>4, <2>6, Score, NextInv
<1> QED
  BY <1>1, <1>2, <1>3, <1>4

(***************************************************************************)
(* Every step preserves the inductive invariant.                           *)
(***************************************************************************)
LEMMA StepInv == HandshakeInv /\ [ConnectionNext]_connectionVars => HandshakeInv'
<1> SUFFICES ASSUME HandshakeInv, [ConnectionNext]_connectionVars
             PROVE  HandshakeInv'
  OBVIOUS
<1>1. CASE UNCHANGED connectionVars
  BY <1>1, TypeParts, Score, NextInv DEF connectionVars, HandshakeInv
<1>2. CASE ConnectionNext
  BY <1>2, ClientSteps, MessageSteps, ConnectStep, ServerSteps DEF ConnectionNext
<1> QED
  BY <1>1, <1>2

(***************************************************************************)
(* The invariant holds in every reachable state, whatever the limits.      *)
(***************************************************************************)
THEOREM HandshakeInductive == ConnectionSpec => []HandshakeInv
<1>1. ConnectionInit => HandshakeInv
  BY InitInv
<1>2. HandshakeInv /\ [ConnectionNext]_connectionVars => HandshakeInv'
  BY StepInv
<1> QED
  BY <1>1, <1>2, PTL DEF ConnectionSpec

(***************************************************************************)
(* Type correctness: among others no bucket is ever fuller than Burst, so  *)
(* a client dropped as silent waits for no more than Burst seconds.        *)
(***************************************************************************)
THEOREM HandshakeTypeCorrect == ConnectionSpec => []ConnectionTypeOK
<1>1. HandshakeInv => ConnectionTypeOK
  BY DEF HandshakeInv
<1> QED
  BY <1>1, HandshakeInductive, PTL

(***************************************************************************)
(* The score of silent drops never grows: the accepted connect before each *)
(* drop has taken one off.                                                 *)
(***************************************************************************)
THEOREM ScoreBounded == ConnectionSpec => []DropsForgiven
<1>1. HandshakeInv => DropsForgiven
  BY DEF HandshakeInv
<1> QED
  BY <1>1, HandshakeInductive, PTL
-----------------------------------------------------------------------------
(***************************************************************************)
(* How old a datagram can be, and the connects that are under way when the *)
(* client is connected: the response that connected it was sent when its   *)
(* slot was taken or before, and no connect has been sent since it came.   *)
(***************************************************************************)
SentInTime == \A p \in net : p.sent <= now /\ now - p.sent <= MaxDelay

DelayInv ==
    /\ cl.lastConnectTime <= now
    /\ SentInTime
    /\ \A p \in net : p.type = "connectResponse" => p.sent <= cl.lastConnectTime
    /\ clc.state = "connected" =>
          \A p \in net : p.type = "connect" => p.sent - cl.lastConnectTime <= MaxDelay

(***************************************************************************)
(* The times compared are numbers.                                         *)
(***************************************************************************)
LEMMA TimeNumbers ==
  ASSUME ConnectionTypeOK
  PROVE  /\ now \in Nat /\ cl.lastConnectTime \in Int
         /\ \A p \in net : p.sent \in Int
<1>1. Times \subseteq Int /\ StartTime .. MaxTime \subseteq Nat
  BY LimitNumbers DEF Times, LongAgo
<1> QED
  BY <1>1, TypeParts DEF HeldType, DatagramType

(***************************************************************************)
(* Nothing is under way at the start.                                      *)
(***************************************************************************)
LEMMA DelayInit == ConnectionInit => DelayInv
  BY LimitNumbers DEF ConnectionInit, DelayInv, SentInTime, Wiped, LongAgo

(***************************************************************************)
(* No step delays a datagram for longer, or sends a connect of a client    *)
(* that is connected.                                                      *)
(***************************************************************************)
LEMMA DelayStep == HandshakeInv /\ DelayInv /\ [ConnectionNext]_connectionVars => DelayInv'
<1> SUFFICES ASSUME HandshakeInv, DelayInv, [ConnectionNext]_connectionVars
             PROVE  DelayInv'
  OBVIOUS
<1>1. ConnectionTypeOK /\ net \subseteq DatagramType
  BY TypeParts DEF HandshakeInv
<1>2. /\ now \in Nat /\ cl.lastConnectTime \in Int
      /\ \A p \in net : p.sent \in Int
  BY <1>1, TimeNumbers
<1>3. MaxDelay \in Nat /\ now - now <= MaxDelay
  BY <1>2, LimitNumbers
<1>4. ASSUME NEW p \in net
      PROVE  \A q \in Taken(p) : \E r \in net : r.type = q.type /\ r.sent = q.sent
  BY <1>1, TakenTypes
\* A step of the server or the network that sends nothing but answers.
<1>5. ASSUME now' = now, clc'.state = clc.state \/ clc'.state # "connected",
             cl'.lastConnectTime = cl.lastConnectTime,
             \A q \in net' : \/ \E r \in net : r.type = q.type /\ r.sent = q.sent
                             \/ q.sent = now /\ q.type \notin {"connect", "connectResponse"}
                             \/ q.sent = now /\ q.type = "connect" /\ clc'.state # "connected"
      PROVE  DelayInv'
  BY <1>2, <1>3, <1>5 DEF DelayInv, SentInTime
<1>6. CASE UNCHANGED connectionVars
  BY <1>5, <1>6 DEF connectionVars
<1>7. CASE CL_Connect_f
  BY <1>5, <1>7 DEF CL_Connect_f, Wiped
<1>8. CASE CL_CheckForResend
  <2>1. PICK type \in Types : type = IF clc.state = "connecting" THEN "getchallenge" ELSE "connect"
    BY DEF Types
  <2>2. clc'.state = clc.state /\ clc.state # "connected" /\ type # "connectResponse"
        /\ UNCHANGED <<now, cl>>
    BY <1>1, <1>8, <2>1, TypeParts DEF CL_CheckForResend, ResendDue, ClientType
  <2>3. net' = net \cup {Datagram(type, clc.challenge, clc.challenge)}
    BY <1>8, <2>1 DEF CL_CheckForResend, Packet
  <2>4. Datagram(type, clc.challenge, clc.challenge).sent = now
        /\ Datagram(type, clc.challenge, clc.challenge).type = type
    BY DEF Datagram
  <2> QED
    BY <1>5, <2>2, <2>3, <2>4
<1>9. CASE CL_Disconnect
  <2>1. clc'.state = "disconnected" /\ UNCHANGED <<now, cl>>
    BY <1>9 DEF CL_Disconnect, Wiped
  <2>2. net' = net \/ net' = net \cup {Datagram("disconnect", clc.challenge, clc.challenge)}
    BY <1>9 DEF CL_Disconnect, Packet
  <2>3. Datagram("disconnect", clc.challenge, clc.challenge).sent = now
        /\ Datagram("disconnect", clc.challenge, clc.challenge).type = "disconnect"
    BY DEF Datagram
  <2> QED
    BY <1>5, <2>1, <2>2, <2>3
<1>10. CASE SV_PacketEvent
  BY <1>1, <1>5, <1>10, HeardTypes, TypeParts DEF SV_PacketEvent
<1>11. CASE SV_CheckTimeouts \/ ServerDrops \/ BucketReclaimed
  <2>1. UNCHANGED <<now, clc, net>>
    BY <1>11 DEF SV_CheckTimeouts, ServerDrops, BucketReclaimed
  <2>2. cl'.lastConnectTime = cl.lastConnectTime
    BY <1>1, <1>11, TypeParts DEF SV_CheckTimeouts, ServerDrops, BucketReclaimed, HeldType
  <2> QED
    BY <1>5, <2>1, <2>2
<1>12. CASE Tick
  <2>1. /\ now' = now + 1 /\ UNCHANGED <<clc, cl>>
        /\ \A p \in net' : p \in net /\ ~ (now - p.sent >= MaxDelay)
    BY <1>12 DEF Tick
  <2>2. SentInTime'
    <3> SUFFICES ASSUME NEW p \in net'
                 PROVE  p.sent <= now' /\ now' - p.sent <= MaxDelay
      BY DEF SentInTime
    <3>1. p \in net /\ ~ (now - p.sent >= MaxDelay) /\ p.sent \in Int /\ p.sent <= now
      BY <1>2, <2>1 DEF DelayInv, SentInTime
    <3> QED
      BY <1>2, <1>3, <2>1, <3>1
  <2> QED
    BY <1>2, <2>1, <2>2 DEF DelayInv
<1>13. CASE \E p \in net : ChallengeResponse(p)
  <2>1. PICK p \in net : ChallengeResponse(p)
    BY <1>13
  <2>2. clc'.state = clc.state \/ clc'.state = "challenging"
    BY <1>1, <2>1, TypeParts DEF ChallengeResponse, ClientType
  <2>3. UNCHANGED <<now, cl>> /\ net' = Taken(p)
    BY <2>1 DEF ChallengeResponse
  <2> QED
    BY <1>4, <1>5, <2>2, <2>3
<1>14. CASE \E p \in net : ConnectResponse(p)
  <2>1. PICK p \in net : ConnectResponse(p)
    BY <1>14
  <2>2. UNCHANGED <<now, cl>> /\ net' = Taken(p) /\ p.type = "connectResponse"
    BY <2>1 DEF ConnectResponse
  <2>3. CASE clc' = clc
    BY <1>4, <1>5, <2>2, <2>3
  <2>4. CASE clc' # clc
    \* The response is at most MaxDelay old, and no older than the slot.
    <3>1. p.sent \in Int /\ now - p.sent <= MaxDelay /\ p.sent <= cl.lastConnectTime
      BY <1>2, <2>2 DEF DelayInv, SentInTime
    <3>2. now - cl.lastConnectTime <= MaxDelay
      BY <1>2, <1>3, <3>1
    <3>3. ASSUME NEW q \in Taken(p)
          PROVE  /\ q.sent \in Int
                 /\ q.sent <= now /\ now - q.sent <= MaxDelay
                 /\ q.type = "connectResponse" => q.sent <= cl.lastConnectTime
                 /\ q.sent - cl.lastConnectTime <= MaxDelay
      <4>1. PICK r \in net : r.type = q.type /\ r.sent = q.sent
        BY <1>4
      <4>2. r.sent \in Int /\ r.sent <= now /\ now - r.sent <= MaxDelay
            /\ (r.type = "connectResponse" => r.sent <= cl.lastConnectTime)
        BY <1>2 DEF DelayInv, SentInTime
      <4> QED
        BY <1>2, <1>3, <3>2, <4>1, <4>2
    <3> QED
      BY <2>2, <3>3 DEF DelayInv, SentInTime
  <2> QED
    BY <2>3, <2>4
<1>15. CASE \E p \in net : SV_GetChallenge(p)
  <2>1. PICK p \in net : SV_GetChallenge(p)
    BY <1>15
  <2>2. PICK answer : answer = Datagram("challengeResponse",
                                        SV_CreateChallenge(now \div Window), p.challenge)
    OBVIOUS
  <2>3. answer.sent = now /\ answer.type = "challengeResponse"
    BY <2>2 DEF Datagram
  <2>4. net' = Taken(p) \/ net' = Taken(p) \cup {answer}
    BY <2>1, <2>2 DEF SV_GetChallenge
  <2>5. UNCHANGED <<now, clc, cl>>
    BY <2>1 DEF SV_GetChallenge
  <2> QED
    BY <1>4, <1>5, <2>3, <2>4, <2>5
<1>16. CASE \E p \in net : DirectConnect(p)
  <2>1. PICK p \in net : DirectConnect(p)
    BY <1>16
  <2>2. UNCHANGED <<now, clc>>
    BY <2>1 DEF DirectConnect
  <2>3. CASE cl' = cl /\ net' = Taken(p)
    BY <1>4, <1>5, <2>2, <2>3
  <2>4. CASE /\ cl' = [state |-> "connected", challenge |-> p.challenge, justConnected |-> TRUE,
                       lastConnectTime |-> now]
             /\ net' = Taken(p) \cup {Packet("connectResponse", p.challenge)}
    <3>1. PICK answer : answer = Packet("connectResponse", p.challenge)
      OBVIOUS
    <3>2. answer.sent = now /\ answer.type = "connectResponse"
      BY <3>1 DEF Packet, Datagram
    <3>3. cl'.lastConnectTime = now
      BY <2>4
    <3>4. ASSUME NEW q \in net'
          PROVE  q.sent \in Int /\ q.sent <= now /\ now - q.sent <= MaxDelay
      BY <1>2, <1>3, <1>4, <2>4, <3>1, <3>2 DEF DelayInv, SentInTime
    <3> QED
      BY <1>2, <1>3, <2>2, <3>3, <3>4 DEF DelayInv, SentInTime
  <2> QED
    BY <2>1, <2>3, <2>4 DEF DirectConnect
<1>17. CASE \E p \in net : LastMessage(p)
  <2>1. PICK p \in net : LastMessage(p)
    BY <1>17
  <2>2. UNCHANGED <<now, clc>> /\ net' = Taken(p)
    BY <2>1 DEF LastMessage
  <2>3. cl'.lastConnectTime = cl.lastConnectTime
    BY <1>1, <2>1, HeardTypes, TypeParts DEF LastMessage
  <2> QED
    BY <1>4, <1>5, <2>2, <2>3
<1> QED
  BY <1>6, <1>7, <1>8, <1>9, <1>10, <1>11, <1>12, <1>13, <1>14, <1>15, <1>16, <1>17
     DEF ConnectionNext

(***************************************************************************)
(* While the client is connected, every connect under way comes too soon:  *)
(* it was sent within one delay of the connect that took the slot, and     *)
(* arrives within another.                                                 *)
(***************************************************************************)
LEMMA ConnectsTooSoon ==
  ASSUME sv_reconnectlimit > 2 * MaxDelay, ConnectionTypeOK, DelayInv,
         clc.state = "connected", NEW p \in net, p.type = "connect"
  PROVE  TooSoon
<1>1. /\ now \in Nat /\ cl.lastConnectTime \in Int /\ p.sent \in Int
      /\ MaxDelay \in Nat /\ sv_reconnectlimit \in Nat
  BY TimeNumbers, LimitNumbers
<1>2. /\ cl.lastConnectTime <= now
      /\ now - p.sent <= MaxDelay
      /\ p.sent - cl.lastConnectTime <= MaxDelay
  BY DEF DelayInv, SentInTime
<1>3. now - cl.lastConnectTime <= 2 * MaxDelay
  BY <1>1, <1>2
<1> QED
  BY <1>1, <1>2, <1>3 DEF TooSoon

(***************************************************************************)
(* With a reconnect limit longer than two datagrams can be under way, no   *)
(* retransmitted, doubled or late connect ever resets the connection of a  *)
(* client that is connected, whatever the other limits.                    *)
(***************************************************************************)
THEOREM NoReset ==
  ASSUME sv_reconnectlimit > 2 * MaxDelay
  PROVE  ConnectionSpec => EstablishedKept
<1>1. ConnectionInit => DelayInv
  BY DelayInit
<1>2. HandshakeInv /\ DelayInv /\ [ConnectionNext]_connectionVars => DelayInv'
  BY DelayStep
<1>3. HandshakeInv /\ DelayInv /\ [ConnectionNext]_connectionVars
      => [Established => \A p \in net : DirectConnect(p) => UNCHANGED cl]_connectionVars
  <2> SUFFICES ASSUME HandshakeInv, DelayInv, Established, NEW p \in net, DirectConnect(p)
               PROVE  UNCHANGED cl
    OBVIOUS
  <2>1. ConnectionTypeOK /\ clc.state = "connected" /\ p.type = "connect"
    BY DEF HandshakeInv, Established, DirectConnect
  <2>2. TooSoon
    BY <2>1, ConnectsTooSoon
  <2> QED
    BY <2>2 DEF DirectConnect
<1> QED
  BY <1>1, <1>2, <1>3, HandshakeInductive, PTL DEF ConnectionSpec, EstablishedKept
-----------------------------------------------------------------------------
(***************************************************************************)
(* The course of an attempt none of whose datagrams is lost.  It asks for  *)
(* a challenge at once and again after each of two retransmissions.  A     *)
(* getchallenge finds the bucket full only while the requests of earlier   *)
(* attempts arrive, or once the slot that an old connect took is dropped   *)
(* as silent; by the third one the bucket has room again, and stays so.    *)
(* With its challenge the client tries to connect, at once and after each  *)
(* retransmission: a connect sent after the second comes neither too soon  *)
(* nor to a full bucket, and is accepted.                                  *)
(***************************************************************************)
\* In seconds the limits of the code are 3, 3 (sv_reconnectlimit), 4 and, for the
\* window, 16, and its bucket holds 10 requests: then this allows datagrams that
\* take a second and arrive twice.
TimeLimits ==
    /\ 2 * MaxDelay < RETRANSMIT_TIMEOUT
    /\ MaxDelay + JustConnectedTime + 1 <= 2 * RETRANSMIT_TIMEOUT
    /\ MaxDelay + sv_reconnectlimit <= 2 * RETRANSMIT_TIMEOUT
    /\ 3 * RETRANSMIT_TIMEOUT + 2 * MaxDelay <= Window
    /\ MaxDelay + MaxCopies <= RETRANSMIT_TIMEOUT
    /\ MaxCopies < Burst

Gets == {p \in net : p.type = "getchallenge"}

\* A challenge made since the attempt began.
Fresh(challenge) ==
    \E time \in began .. now : challenge = SV_CreateChallenge(time \div Window)

\* Whatever copies of a getchallenge arrive, the bucket stays within bound.
Few(bound) ==
    /\ bucket.burst <= bound
    /\ \A p \in Gets : bucket.burst + p.copies <= bound
    /\ \A p, q \in Gets : p = q

\* The last request of the client, of which no copy has arrived.
Untaken(type) ==
    \E p \in net : /\ p.type = type /\ p.copies = MaxCopies
                   /\ p.challenge = clc.challenge /\ p.sent = clc.connectTime

Answered ==
    \E p \in net : /\ p.type = "challengeResponse" /\ p.copies = 1
                   /\ p.echo = clc.challenge /\ p.sent <= clc.connectTime + MaxDelay

Replied ==
    \E p \in net : /\ p.type = "connectResponse" /\ p.copies = 1
                   /\ p.challenge = clc.challenge
                   /\ p.sent <= began + 3 * RETRANSMIT_TIMEOUT + MaxDelay

Waiting ==
    /\ now \in clc.connectTime .. clc.connectTime + RETRANSMIT_TIMEOUT
    /\ \A p \in Gets : p.sent <= clc.connectTime

Unasked == clc.connectTime = LongAgo /\ now = began

AskedOnce ==
    /\ clc.connectTime = began
    /\ Waiting
    /\ now > began + MaxDelay => bucket.burst < Burst \/ ~cl.justConnected

\* After a silent drop the bucket is emptied by one request a second.
Draining ==
    /\ ~cl.justConnected
    /\ now > clc.connectTime + MaxDelay =>
          \/ bucket.burst = 0
          \/ bucket.burst + (now - clc.connectTime - MaxDelay) <= Burst

AskedTwice ==
    /\ clc.connectTime = began + RETRANSMIT_TIMEOUT
    /\ Waiting
    /\ \/ /\ Untaken("getchallenge")
          /\ \A p, q \in Gets : p = q
          /\ bucket.burst < Burst \/ ~cl.justConnected
       \/ Answered
       \/ Draining

AskedThrice ==
    /\ clc.connectTime = began + 2 * RETRANSMIT_TIMEOUT
    /\ Waiting
    /\ ~cl.justConnected
    /\ Few(Burst)
    /\ now > clc.connectTime => Few(Burst - 1)
    /\ Untaken("getchallenge") \/ Answered

Asking ==
    /\ clc.state = "connecting"
    /\ cl.lastConnectTime <= began + MaxDelay
    /\ \A p \in net : p.type = "connect" => p.sent <= began
    /\ \A p \in net :
          p.type = "challengeResponse" /\ p.echo = clc.challenge => Fresh(p.challenge)
    /\ Unasked \/ AskedOnce \/ AskedTwice \/ AskedThrice

Challenged ==
    /\ clc.connectTime = LongAgo
    /\ now <= began + 2 * RETRANSMIT_TIMEOUT + 2 * MaxDelay
    /\ now > began + 2 * RETRANSMIT_TIMEOUT => Few(Burst - 1)

Tried ==
    /\ clc.connectTime \in began .. began + 2 * RETRANSMIT_TIMEOUT
    /\ Waiting
    /\ now > clc.connectTime + MaxDelay /\ now > began + 2 * RETRANSMIT_TIMEOUT =>
          bucket.burst < Burst

TriedLast ==
    /\ clc.connectTime > began + 2 * RETRANSMIT_TIMEOUT
    /\ clc.connectTime <= began + 3 * RETRANSMIT_TIMEOUT
    /\ now >= clc.connectTime
    /\ Untaken("connect")
    /\ Few(Burst - 1)

Trying ==
    /\ cl.lastConnectTime <= began + MaxDelay
    /\ Challenged \/ Tried \/ TriedLast

Joining ==
    /\ clc.state = "challenging"
    /\ Fresh(clc.challenge)
    /\ \A p \in net : p.type = "connect" => p.sent <= began \/ p.challenge = clc.challenge
    /\ Replied \/ Trying

\* The number of the next attempt occurs nowhere yet.
OwnNumbers ==
    /\ clc.challenge.stamp >= - clc.attempt
    /\ \A p \in net : p.type \in {"getchallenge", "challengeResponse"} =>
          p.challenge.stamp >= - clc.attempt /\ p.echo.stamp >= - clc.attempt

OnCourse == began # Never => began <= now /\ (Asking \/ Joining)

CourseInv ==
    /\ cl.justConnected => now <= cl.lastConnectTime + JustConnectedTime + 1
    /\ OwnNumbers
    /\ OnCourse

(***************************************************************************)
(* The numbers compared in the course of an attempt.                       *)
(***************************************************************************)
LEMMA CourseNumbers ==
  ASSUME HandshakeInv, DelayInv
  PROVE  /\ now \in Nat /\ StartTime <= now /\ now <= MaxTime
         /\ began \in Int /\ clc.connectTime \in Int /\ cl.lastConnectTime \in Int
         /\ clc.attempt \in Nat /\ clc.challenge.stamp \in Int
         /\ bucket.burst \in Int /\ 0 <= bucket.burst /\ bucket.burst <= Burst
         /\ cl.lastConnectTime <= now
         /\ \A p \in net : /\ p.sent \in Int /\ p.sent <= now /\ now <= p.sent + MaxDelay
                           /\ p.copies \in Int /\ 1 <= p.copies /\ p.copies <= MaxCopies
                           /\ p.challenge.stamp \in Int /\ p.echo.stamp \in Int
<1>1. ConnectionTypeOK
  BY DEF HandshakeInv
<1>2. /\ now \in Nat /\ StartTime <= now /\ now <= MaxTime /\ began \in Int
      /\ bucket.burst \in Int /\ 0 <= bucket.burst /\ bucket.burst <= Burst
  BY <1>1, TypeParts, LimitNumbers DEF Never, BucketType
<1>3. Times \subseteq Int
  BY LimitNumbers DEF Times, LongAgo
<1>4. \A c \in Challenges : c.stamp \in Int
  BY LimitNumbers DEF Challenges
<1>5. /\ clc.connectTime \in Int /\ cl.lastConnectTime \in Int
      /\ clc.attempt \in Nat /\ clc.challenge.stamp \in Int
  <2>1. clc \in ClientType /\ cl \in HeldType
    BY <1>1, TypeParts
  <2>2. /\ clc.connectTime \in Times /\ cl.lastConnectTime \in Times
        /\ clc.challenge \in Challenges /\ clc.attempt \in 0 .. MaxAttempts
    BY <2>1 DEF ClientType, HeldType
  <2>3. clc.challenge.stamp \in Int
    BY <1>4, <2>2
  <2>4. clc.attempt \in Nat
    BY <2>2, LimitNumbers
  <2> QED
    BY <1>3, <2>2, <2>3, <2>4
<1>6. ASSUME NEW p \in net
      PROVE  /\ p.sent \in Int /\ p.sent <= now /\ now <= p.sent + MaxDelay
             /\ p.copies \in Int /\ 1 <= p.copies /\ p.copies <= MaxCopies
             /\ p.challenge.stamp \in Int /\ p.echo.stamp \in Int
  <2>1. p \in DatagramType
    BY <1>1, TypeParts
  <2>2. p.sent \in Int /\ p.copies \in 1 .. MaxCopies
        /\ p.challenge.stamp \in Int /\ p.echo.stamp \in Int
    BY <1>3, <1>4, <2>1 DEF DatagramType
  <2>3. p.sent <= now /\ now - p.sent <= MaxDelay
    BY DEF DelayInv, SentInTime
  <2> QED
    BY <1>2, <2>2, <2>3, LimitNumbers
<1> QED
  BY <1>2, <1>5, <1>6 DEF DelayInv

(***************************************************************************)
(* On its course an attempt takes three retransmissions and two delays at  *)
(* most: one that is answered is, within one.                              *)
(***************************************************************************)
LEMMA CourseEnds ==
  ASSUME TimeLimits, HandshakeInv, DelayInv, CourseInv
  PROVE  ConnectsInTime
<1> USE CourseNumbers, LimitNumbers DEF TimeLimits
<1>1. CASE began = Never
  BY <1>1 DEF Never, ConnectsInTime
<1>2. CASE began # Never /\ Asking
  <2>1. CASE Unasked
    BY <2>1 DEF Unasked, ConnectsInTime
  <2>2. CASE AskedOnce \/ AskedTwice \/ AskedThrice
    BY <2>2 DEF AskedOnce, AskedTwice, AskedThrice, Waiting, ConnectsInTime
  <2> QED
    BY <1>2, <2>1, <2>2 DEF Asking
<1>3. CASE began # Never /\ Joining
  <2>1. CASE Replied
    BY <2>1 DEF Replied, ConnectsInTime
  <2>2. CASE Challenged \/ Tried
    BY <2>2 DEF Challenged, Tried, Waiting, ConnectsInTime
  <2>3. CASE TriedLast
    BY <2>3 DEF TriedLast, Untaken, ConnectsInTime
  <2> QED
    BY <1>3, <2>1, <2>2, <2>3 DEF Joining, Trying
<1> QED
  BY <1>1, <1>2, <1>3 DEF CourseInv, OnCourse

(***************************************************************************)
(* A challenge made since the attempt began is valid: no more than one     *)
(* window has ended since.                                                 *)
(***************************************************************************)
LEMMA NextWindow ==
  ASSUME NEW w \in Nat \ {0}, NEW x \in Nat, NEW y \in Nat, x <= y, y - x <= w
  PROVE  y \div w = x \div w \/ y \div w = x \div w + 1
  OBVIOUS

LEMMA FreshValid ==
  ASSUME TimeLimits, HandshakeInv, DelayInv, CourseInv, began # Never,
         NEW challenge, Fresh(challenge)
  PROVE  SV_VerifyChallenge(challenge)
<1>1. PICK time \in began .. now : challenge = SV_CreateChallenge(time \div Window)
  BY DEF Fresh
<1>2. began \in Nat /\ now \in Nat /\ time \in Nat /\ time <= now /\ began <= time
  BY LimitNumbers, CourseNumbers, TypeParts DEF HandshakeInv
<1>3. now - began <= 3 * RETRANSMIT_TIMEOUT + 2 * MaxDelay
  BY CourseEnds DEF ConnectsInTime
<1>4. now - time <= Window
  BY <1>2, <1>3, LimitNumbers DEF TimeLimits
<1>5. now \div Window = time \div Window \/ now \div Window = time \div Window + 1
  BY <1>2, <1>4, LimitNumbers, NextWindow
<1>6. PICK made, current : made = time \div Window /\ current = now \div Window
  OBVIOUS
<1>7. made \in Nat /\ (current = made \/ current = made + 1)
  BY <1>2, <1>5, <1>6, LimitNumbers
<1>8. challenge.period = made % 2
  BY <1>1, <1>6 DEF SV_CreateChallenge
<1>9. CASE current = made
  BY <1>1, <1>6, <1>7, <1>8, <1>9 DEF SV_VerifyChallenge
<1>10. CASE current = made + 1
  <2>1. current % 2 # made % 2 /\ current - 1 = made
    BY <1>7, <1>10
  <2> QED
    BY <1>1, <1>6, <1>8, <2>1 DEF SV_VerifyChallenge
<1> QED
  BY <1>7, <1>9, <1>10
-----------------------------------------------------------------------------
(***************************************************************************)
(* What arrives changes little of what is under way: a connect loses a     *)
(* copy or two, what the client still waits for stays, and so do its       *)
(* requests for a challenge.                                               *)
(***************************************************************************)
AnswersClient(p) ==
    \/ /\ p.type = "challengeResponse" /\ clc.state = "connecting"
       /\ p.echo = clc.challenge
    \/ /\ p.type = "connectResponse" /\ clc.state = "challenging"
       /\ p.challenge = clc.challenge

Arrived ==
    /\ \A q \in net' : q.type = "getchallenge" => q \in net
    /\ \A q \in net' : q.type \in {"connect", "challengeResponse"} =>
          \E p \in net : /\ p.type = q.type /\ p.sent = q.sent
                         /\ p.challenge = q.challenge /\ p.echo = q.echo
    /\ \A p \in net :
          \/ p.type = "getchallenge"
          \/ AnswersClient(p)
          => p \in net'

(***************************************************************************)
(* Then the same requests are under way, with the same answers, and no     *)
(* number that did not occur does.                                         *)
(***************************************************************************)
LEMMA ArrivedSame ==
  ASSUME Arrived, UNCHANGED <<now, clc, began>>
  PROVE  /\ Gets' = Gets
         /\ OwnNumbers => OwnNumbers'
         /\ clc.state = "connecting" /\ Answered => Answered'
         /\ clc.state = "challenging" /\ Replied => Replied'
         /\ Waiting => Waiting'
         /\ Untaken("getchallenge") => Untaken("getchallenge")'
         /\ Unasked => Unasked'
<1>1. Gets' = Gets
  BY DEF Arrived, Gets
<1>2. OwnNumbers => OwnNumbers'
  BY DEF Arrived, OwnNumbers
<1>3. clc.state = "connecting" /\ Answered => Answered'
  BY DEF Arrived, AnswersClient, Answered
<1>4. clc.state = "challenging" /\ Replied => Replied'
  BY DEF Arrived, AnswersClient, Replied
<1>5. Waiting => Waiting'
  BY <1>1 DEF Waiting
<1>6. Untaken("getchallenge") => Untaken("getchallenge")'
  BY DEF Arrived, Untaken
<1>7. Unasked => Unasked'
  BY DEF Unasked
<1> QED
  BY <1>1, <1>2, <1>3, <1>4, <1>5, <1>6, <1>7

(***************************************************************************)
(* An attempt that asks goes on asking when the phase it is in stays, and  *)
(* one that joins when it goes on trying.                                  *)
(***************************************************************************)
LEMMA ArrivedAsking ==
  ASSUME Arrived, UNCHANGED <<now, clc, began>>, Asking,
         cl'.lastConnectTime <= began + MaxDelay,
         Unasked' \/ AskedOnce' \/ AskedTwice' \/ AskedThrice'
  PROVE  Asking'
<1>1. clc'.state = "connecting"
  BY DEF Asking
<1>2. \A q \in net' : q.type = "connect" => q.sent <= began'
  BY DEF Arrived, Asking
<1>3. \A challenge : Fresh(challenge)' <=> Fresh(challenge)
  BY DEF Fresh, SV_CreateChallenge
<1>4. \A q \in net' :
         q.type = "challengeResponse" /\ q.echo = clc'.challenge => Fresh(q.challenge)'
  BY <1>3 DEF Arrived, Asking
<1> QED
  BY <1>1, <1>2, <1>4 DEF Asking

LEMMA ArrivedJoining ==
  ASSUME Arrived, UNCHANGED <<now, clc, began>>, Joining, Replied' \/ Trying'
  PROVE  Joining'
<1>1. \A challenge : Fresh(challenge)' <=> Fresh(challenge)
  BY DEF Fresh, SV_CreateChallenge
<1>2. \A q \in net' : q.type = "connect" => q.sent <= began' \/ q.challenge = clc'.challenge
  BY DEF Arrived, Joining
<1> QED
  BY <1>1, <1>2 DEF Joining

(***************************************************************************)
(* A step that lets nothing of the attempt pass: it is still where it was. *)
(* The slot can only have been heard of or left, the bucket is as full as  *)
(* before.                                                                 *)
(***************************************************************************)
LEMMA CourseQuiet ==
  ASSUME HandshakeInv, DelayInv, CourseInv, Arrived, UNCHANGED <<now, clc, began>>,
         cl'.justConnected => cl.justConnected,
         cl'.lastConnectTime = cl.lastConnectTime,
         bucket'.burst = bucket.burst,
         TriedLast => Untaken("connect")' \/ Replied
  PROVE  CourseInv'
<1> USE ArrivedSame
<1>1. (cl'.justConnected => now' <= cl'.lastConnectTime + JustConnectedTime + 1) /\ OwnNumbers'
  BY DEF CourseInv
<1>2. \A bound : Few(bound) => Few(bound)'
  BY DEF Few
<1>3. ASSUME Asking
      PROVE  Asking'
  <2>1. AskedOnce => AskedOnce'
    BY DEF AskedOnce
  <2>2. AskedTwice => AskedTwice'
    BY <1>3 DEF Asking, AskedTwice, Draining
  <2>3. AskedThrice => AskedThrice'
    BY <1>2, <1>3 DEF Asking, AskedThrice
  <2>4. cl'.lastConnectTime <= began + MaxDelay
    BY <1>3 DEF Asking
  <2> QED
    BY <1>3, <2>1, <2>2, <2>3, <2>4, ArrivedAsking DEF Asking
<1>4. ASSUME Joining
      PROVE  Joining'
  <2>1. Challenged => Challenged'
    BY <1>2 DEF Challenged
  <2>2. Tried => Tried'
    BY DEF Tried
  <2>3. TriedLast => TriedLast' \/ Replied
    BY <1>2 DEF TriedLast
  <2>4. Trying => Trying' \/ Replied
    BY <2>1, <2>2, <2>3 DEF Trying
  <2> QED
    BY <1>4, <2>4, ArrivedJoining DEF Joining
<1>5. OnCourse'
  BY <1>3, <1>4 DEF CourseInv, OnCourse, Never
<1> QED
  BY <1>1, <1>5 DEF CourseInv

(***************************************************************************)
(* Within one delay of its beginning an attempt is on its course whatever  *)
(* happens to the slot and to the bucket.                                  *)
(***************************************************************************)
LEMMA CourseEarly ==
  ASSUME TimeLimits, HandshakeInv, DelayInv, CourseInv, Arrived, UNCHANGED <<now, clc, began>>,
         now <= began + MaxDelay,
         cl'.lastConnectTime \in Int, cl'.lastConnectTime <= now
  PROVE  OnCourse'
<1> USE ArrivedSame, CourseNumbers, LimitNumbers
<1>1. cl'.lastConnectTime <= began + MaxDelay
  OBVIOUS
<1>2. ASSUME Asking
      PROVE  Asking'
  <2>1. AskedOnce => AskedOnce'
    BY DEF AskedOnce
  <2>2. ~AskedTwice /\ ~AskedThrice
    BY DEF AskedTwice, AskedThrice, Waiting, TimeLimits
  <2> QED
    BY <1>1, <1>2, <2>1, <2>2, ArrivedAsking DEF Asking
<1>3. ASSUME Joining
      PROVE  Joining'
  <2>1. Challenged => Challenged'
    BY DEF Challenged, TimeLimits
  <2>2. Tried => Tried'
    BY DEF Tried, TimeLimits
  <2>3. ~TriedLast
    BY DEF TriedLast, TimeLimits
  <2>4. Trying => Trying'
    BY <1>1, <2>1, <2>2, <2>3 DEF Trying
  <2> QED
    BY <1>3, <2>4, ArrivedJoining DEF Joining
<1> QED
  BY <1>2, <1>3 DEF CourseInv, OnCourse, Never
-----------------------------------------------------------------------------
(***************************************************************************)
(* What is left of a datagram that arrives is of its type, challenges and  *)
(* age; the others stay.                                                   *)
(***************************************************************************)
LEMMA TakenRest ==
  ASSUME net \subseteq DatagramType, NEW p \in net
  PROVE  /\ \A q \in Taken(p) :
               \/ q \in net /\ q # p
               \/ /\ q.type = p.type /\ q.sent = p.sent /\ q.challenge = p.challenge
                  /\ q.echo = p.echo /\ q.copies = p.copies - 1 /\ p.copies > 1
         /\ \A q \in net : q # p => q \in Taken(p)
  BY DEF Taken, DatagramType

(***************************************************************************)
(* A datagram arrives, other than a getchallenge, that the client does not *)
(* wait for.                                                               *)
(***************************************************************************)
LEMMA OtherArrived ==
  ASSUME net \subseteq DatagramType, NEW p \in net,
         p.type # "getchallenge", ~AnswersClient(p),
         \A q \in net' : q \in Taken(p) \/ q.type = "connectResponse",
         \A q \in Taken(p) : q \in net'
  PROVE  Arrived
<1>1. \A q \in Taken(p) :
         \/ q \in net /\ q # p
         \/ /\ q.type = p.type /\ q.sent = p.sent
            /\ q.challenge = p.challenge /\ q.echo = p.echo
  BY TakenRest
<1>2. \A q \in net : q # p => q \in net'
  BY TakenRest
<1>3. \A q \in net' : q.type = "getchallenge" => q \in net
  BY <1>1
<1>4. \A q \in net' : q.type \in {"connect", "challengeResponse"} =>
         \E r \in net : /\ r.type = q.type /\ r.sent = q.sent
                        /\ r.challenge = q.challenge /\ r.echo = q.echo
  BY <1>1
<1> QED
  BY <1>2, <1>3, <1>4 DEF Arrived

(***************************************************************************)
(* Steps that are none of the attempt's: messages of the channel, drops    *)
(* for the server's own reasons, reclaimed buckets, and answers to other   *)
(* requests than the client's last.                                        *)
(***************************************************************************)
LEMMA CourseOther ==
  ASSUME HandshakeInv, DelayInv, CourseInv,
         \/ SV_PacketEvent \/ ServerDrops \/ BucketReclaimed
         \/ \E p \in net : LastMessage(p)
         \/ \E p \in net : ChallengeResponse(p) /\ clc' = clc
         \/ \E p \in net : ConnectResponse(p) /\ clc' = clc
  PROVE  CourseInv'
<1>1. /\ net \subseteq DatagramType /\ clc \in ClientType /\ cl \in HeldType
      /\ cl.justConnected => cl.state = "connected"
  BY TypeParts DEF HandshakeInv
<1>2. ASSUME net' = net
      PROVE  Arrived
  BY <1>2 DEF Arrived
<1>3. TriedLast /\ net' = net /\ clc' = clc => Untaken("connect")'
  BY DEF TriedLast, Untaken
<1>4. CASE SV_PacketEvent
  BY <1>1, <1>2, <1>3, <1>4, HeardTypes, CourseQuiet DEF SV_PacketEvent
<1>5. CASE ServerDrops
  BY <1>1, <1>2, <1>3, <1>5, CourseQuiet DEF ServerDrops, HeldType
<1>6. CASE BucketReclaimed
  <2>1. bucket'.burst = bucket.burst
    BY <1>6 DEF BucketReclaimed, Empty
  <2> QED
    BY <1>2, <1>3, <1>6, <2>1, CourseQuiet DEF BucketReclaimed
\* Nothing but a datagram that the client does not wait for, and no connect.
<1>7. ASSUME NEW p \in net, p.type # "getchallenge", p.type # "connect", ~AnswersClient(p),
             net' = Taken(p), UNCHANGED <<now, clc, began, bucket>>,
             cl'.justConnected => cl.justConnected,
             cl'.lastConnectTime = cl.lastConnectTime
      PROVE  CourseInv'
  <2>1. Arrived
    BY <1>1, <1>7, OtherArrived
  <2>2. TriedLast => Untaken("connect")'
    BY <1>1, <1>7, TakenRest DEF TriedLast, Untaken
  <2> QED
    BY <1>7, <2>1, <2>2, CourseQuiet
<1>8. CASE \E p \in net : LastMessage(p)
  <2>1. PICK p \in net : LastMessage(p)
    BY <1>8
  <2>2. ~AnswersClient(p) /\ p.type = "disconnect"
    BY <2>1 DEF LastMessage, AnswersClient
  <2> QED
    BY <1>1, <1>7, <2>1, <2>2, HeardTypes DEF LastMessage
<1>9. CASE \E p \in net : ChallengeResponse(p) /\ clc' = clc
  <2>1. PICK p \in net : ChallengeResponse(p) /\ clc' = clc
    BY <1>9
  <2>2. ~AnswersClient(p) /\ p.type = "challengeResponse"
    BY <1>1, <2>1 DEF ChallengeResponse, AnswersClient, ClientType
  <2> QED
    BY <1>7, <2>1, <2>2 DEF ChallengeResponse
<1>10. CASE \E p \in net : ConnectResponse(p) /\ clc' = clc
  <2>1. PICK p \in net : ConnectResponse(p) /\ clc' = clc
    BY <1>10
  <2>2. ~AnswersClient(p) /\ p.type = "connectResponse" /\ began' = began
    BY <1>1, <2>1 DEF ConnectResponse, AnswersClient, ClientType
  <2> QED
    BY <1>7, <2>1, <2>2 DEF ConnectResponse
<1> QED
  BY <1>4, <1>5, <1>6, <1>8, <1>9, <1>10
-----------------------------------------------------------------------------
(***************************************************************************)
(* Nothing has begun at the start.                                         *)
(***************************************************************************)
LEMMA CourseInit == ConnectionInit => CourseInv
<1> SUFFICES ASSUME ConnectionInit
             PROVE  CourseInv
  OBVIOUS
<1>1. OwnNumbers
  BY DEF ConnectionInit, OwnNumbers, Wiped, Own
<1> QED
  BY <1>1 DEF ConnectionInit, CourseInv, OnCourse

(***************************************************************************)
(* A new attempt has a number of its own, which no response echoes.        *)
(***************************************************************************)
LEMMA CourseBegins ==
  ASSUME HandshakeInv, DelayInv, CourseInv, CL_Connect_f
  PROVE  CourseInv'
<1> USE CourseNumbers, LimitNumbers
<1>1. /\ clc'.state = "connecting" /\ clc'.connectTime = LongAgo /\ began' = now
      /\ clc'.attempt = clc.attempt + 1 /\ clc'.challenge.stamp = - (clc.attempt + 1)
      /\ UNCHANGED <<now, cl, bucket, net>>
  BY DEF CL_Connect_f, Wiped, Own
<1>2. OwnNumbers'
  BY <1>1 DEF CourseInv, OwnNumbers
<1>3. \A p \in net : p.type = "challengeResponse" => p.echo # clc'.challenge
  BY <1>1 DEF CourseInv, OwnNumbers
<1>4. Unasked'
  BY <1>1 DEF Unasked, LongAgo
<1>5. cl'.lastConnectTime <= began' + MaxDelay /\ \A p \in net' : p.sent <= began'
  BY <1>1
<1>6. Asking'
  BY <1>1, <1>3, <1>4, <1>5 DEF Asking
<1> QED
  BY <1>1, <1>2, <1>6 DEF CourseInv, OnCourse

(***************************************************************************)
(* An attempt that is given up, or succeeds, has no course any more.       *)
(***************************************************************************)
LEMMA CourseOver ==
  ASSUME HandshakeInv, DelayInv, CourseInv, UNCHANGED <<now, cl>>, began' = Never,
         clc'.attempt = clc.attempt, clc'.challenge.stamp >= - clc.attempt,
         \A q \in net' : q.type \in {"getchallenge", "challengeResponse"} => q \in net
  PROVE  CourseInv'
<1>1. OwnNumbers'
  BY DEF CourseInv, OwnNumbers
<1> QED
  BY <1>1 DEF CourseInv, OnCourse, Never

LEMMA CourseLeft ==
  ASSUME HandshakeInv, DelayInv, CourseInv,
         CL_Disconnect \/ \E p \in net : ConnectResponse(p) /\ clc' # clc
  PROVE  CourseInv'
<1>1. CASE CL_Disconnect
  <2>1. /\ clc'.attempt = clc.attempt /\ clc'.challenge.stamp = 0
        /\ UNCHANGED <<now, cl>> /\ began' = Never
    BY <1>1 DEF CL_Disconnect, Wiped, Own
  <2>2. Packet("disconnect", clc.challenge).type = "disconnect"
    BY DEF Packet, Datagram
  <2>3. \A q \in net' : q \in net \/ q.type = "disconnect"
    BY <1>1, <2>2 DEF CL_Disconnect
  <2> QED
    BY <2>1, <2>3, CourseNumbers, CourseOver
<1>2. CASE \E p \in net : ConnectResponse(p) /\ clc' # clc
  <2>1. PICK p \in net : ConnectResponse(p) /\ clc' # clc
    BY <1>2
  <2>2. net \subseteq DatagramType /\ clc \in ClientType
    BY TypeParts DEF HandshakeInv
  <2>3. /\ UNCHANGED <<now, cl>> /\ began' = Never /\ p.type = "connectResponse"
        /\ net' = Taken(p) /\ clc'.attempt = clc.attempt /\ clc'.challenge = clc.challenge
    BY <2>1, <2>2 DEF ConnectResponse, ClientType
  <2>4. clc'.challenge.stamp >= - clc.attempt
    BY <2>3 DEF CourseInv, OwnNumbers
  <2>5. \A q \in net' : q.type \in {"getchallenge", "challengeResponse"} => q \in net
    BY <2>2, <2>3, TakenRest
  <2> QED
    BY <2>3, <2>4, <2>5, CourseOver
<1> QED
  BY <1>1, <1>2

(***************************************************************************)
(* A challenge comes: the client tries to connect at once.                 *)
(***************************************************************************)
LEMMA CourseChallenged ==
  ASSUME TimeLimits, HandshakeInv, DelayInv, CourseInv,
         NEW p \in net, ChallengeResponse(p), clc' # clc
  PROVE  CourseInv'
<1> USE CourseNumbers, LimitNumbers DEF TimeLimits
<1>1. net \subseteq DatagramType /\ clc \in ClientType
  BY TypeParts DEF HandshakeInv
<1>2. /\ clc.state = "connecting" /\ p.echo = clc.challenge /\ p.type = "challengeResponse"
      /\ clc'.state = "challenging" /\ clc'.challenge = p.challenge
      /\ clc'.connectTime = LongAgo /\ clc'.attempt = clc.attempt
      /\ net' = Taken(p) /\ UNCHANGED <<now, cl, bucket, began>>
  BY <1>1 DEF ChallengeResponse, ClientType
<1>3. \A q \in net' : q \in net \/ (q.type = p.type /\ q.challenge = p.challenge /\ q.echo = p.echo)
  BY <1>1, <1>2, TakenRest
<1>4. OwnNumbers'
  BY <1>2, <1>3 DEF CourseInv, OwnNumbers
<1>5. Gets' = Gets
  BY <1>1, <1>2, TakenRest DEF Gets
<1>6. ASSUME Asking
      PROVE  Joining'
  <2>1. Fresh(p.challenge)
    BY <1>2, <1>6 DEF Asking
  <2>2. \A q \in net' : q.type = "connect" => q.sent <= began'
    BY <1>2, <1>3, <1>6 DEF Asking
  <2>3. now <= began + 2 * RETRANSMIT_TIMEOUT + 2 * MaxDelay
    <3>1. CASE Unasked
      BY <3>1 DEF Unasked
    <3>2. CASE AskedOnce \/ AskedTwice
      BY <3>2 DEF AskedOnce, AskedTwice, Waiting
    <3>3. CASE AskedThrice
      BY <3>3 DEF AskedThrice, Untaken, Answered
    <3> QED
      BY <1>6, <3>1, <3>2, <3>3 DEF Asking
  <2>4. now > began + 2 * RETRANSMIT_TIMEOUT => Few(Burst - 1)
    <3>1. ~Unasked \/ now <= began + 2 * RETRANSMIT_TIMEOUT
      BY DEF Unasked
    <3>2. (~AskedOnce /\ ~AskedTwice) \/ now <= began + 2 * RETRANSMIT_TIMEOUT
      BY DEF AskedOnce, AskedTwice, Waiting
    <3> QED
      BY <1>6, <3>1, <3>2 DEF Asking, AskedThrice
  <2>5. Challenged'
    BY <1>2, <1>5, <2>3, <2>4 DEF Challenged, Few, LongAgo
  <2>6. cl'.lastConnectTime <= began' + MaxDelay
    BY <1>2, <1>6 DEF Asking
  <2>7. Fresh(clc.challenge)'
    BY <1>2, <2>1 DEF Fresh, SV_CreateChallenge
  <2> QED
    BY <1>2, <2>2, <2>5, <2>6, <2>7 DEF Joining, Trying
<1>7. OnCourse'
  BY <1>2, <1>6 DEF CourseInv, OnCourse, Joining, Never
<1> QED
  BY <1>2, <1>4, <1>7 DEF CourseInv
-----------------------------------------------------------------------------
(***************************************************************************)
(* A retransmission: the request that is due is sent, those before it are  *)
(* no longer under way.                                                    *)
(***************************************************************************)
LEMMA CourseResends ==
  ASSUME TimeLimits, HandshakeInv, DelayInv, CourseInv, CL_CheckForResend
  PROVE  CourseInv'
<1> USE CourseNumbers, LimitNumbers DEF TimeLimits
<1>1. clc \in ClientType
  BY TypeParts DEF HandshakeInv
<1>2. PICK type : type = IF clc.state = "connecting" THEN "getchallenge" ELSE "connect"
  OBVIOUS
<1>3. PICK p : p = Packet(type, clc.challenge)
  OBVIOUS
<1>4. /\ p.type = type /\ p.challenge = clc.challenge /\ p.echo = clc.challenge
      /\ p.sent = now /\ p.copies = MaxCopies
  BY <1>2, <1>3 DEF Packet, Datagram, Copies
<1> HIDE <1>3
<1>5. /\ clc.state \in {"connecting", "challenging"}
      /\ clc'.state = clc.state /\ clc'.challenge = clc.challenge
      /\ clc'.attempt = clc.attempt /\ clc'.connectTime = now
      /\ net' = net \cup {p} /\ UNCHANGED <<now, cl, bucket, began>>
      /\ now - clc.connectTime >= RETRANSMIT_TIMEOUT
  BY <1>1, <1>2, <1>3 DEF CL_CheckForResend, ResendDue, ClientType
<1>6. OwnNumbers'
  BY <1>4, <1>5 DEF CourseInv, OwnNumbers
<1>7. \A challenge : Fresh(challenge)' <=> Fresh(challenge)
  BY <1>5 DEF Fresh, SV_CreateChallenge
<1>8. Waiting'
  BY <1>4, <1>5 DEF Waiting, Gets
<1>9. Untaken(type)'
  BY <1>4, <1>5 DEF Untaken
<1>10. ASSUME Asking, began <= now
       PROVE  Asking'
  <2>1. type = "getchallenge"
    BY <1>2, <1>10 DEF Asking
  <2>2. AskedOnce \/ AskedTwice => Gets = {}
    BY <1>5, <1>10 DEF AskedOnce, AskedTwice, Waiting, Gets
  <2>3. Gets' = Gets \cup {p}
    BY <1>4, <1>5, <2>1 DEF Gets
  <2>4. Unasked => AskedOnce'
    BY <1>5, <1>8 DEF Unasked, AskedOnce
  <2>5. AskedOnce => AskedTwice'
    <3>1. SUFFICES ASSUME AskedOnce
                   PROVE  AskedTwice'
      OBVIOUS
    <3>2. \A q, r \in Gets' : q = r
      BY <2>2, <2>3, <3>1
    <3>3. clc'.connectTime = began' + RETRANSMIT_TIMEOUT
      BY <1>5, <3>1 DEF AskedOnce, Waiting
    <3>4. bucket'.burst < Burst \/ ~cl'.justConnected
      BY <1>5, <3>1 DEF AskedOnce
    <3> QED
      BY <1>8, <1>9, <2>1, <3>2, <3>3, <3>4 DEF AskedTwice
  <2>6. AskedTwice => AskedThrice'
    <3>1. SUFFICES ASSUME AskedTwice
                   PROVE  AskedThrice'
      OBVIOUS
    <3>2. now = clc.connectTime + RETRANSMIT_TIMEOUT
          /\ clc'.connectTime = began' + 2 * RETRANSMIT_TIMEOUT
      BY <1>5, <3>1 DEF AskedTwice, Waiting
    <3>3. Draining
      BY <3>1, <3>2 DEF AskedTwice, Untaken, Answered
    <3>4. ~cl'.justConnected /\ bucket'.burst + MaxCopies <= Burst
      BY <1>5, <3>2, <3>3 DEF Draining
    <3>5. Few(Burst)'
      BY <1>4, <1>5, <2>2, <2>3, <3>1, <3>4 DEF Few
    <3> QED
      BY <1>5, <1>8, <1>9, <2>1, <3>2, <3>4, <3>5 DEF AskedThrice
  <2>7. ~AskedThrice
    BY <1>5 DEF AskedThrice, Untaken, Answered
  <2>8. cl'.lastConnectTime <= began' + MaxDelay /\ clc'.state = "connecting"
    BY <1>5, <1>10 DEF Asking
  <2>9. \A q \in net' : q.type = "connect" => q.sent <= began'
    BY <1>4, <1>5, <2>1, <1>10 DEF Asking
  <2>10. \A q \in net' :
            q.type = "challengeResponse" /\ q.echo = clc'.challenge => Fresh(q.challenge)'
    BY <1>4, <1>5, <1>7, <2>1, <1>10 DEF Asking
  <2> QED
    BY <2>4, <2>5, <2>6, <2>7, <2>8, <2>9, <2>10, <1>10 DEF Asking
<1>11. ASSUME Joining, began <= now
       PROVE  Joining'
  <2>1. type = "connect"
    BY <1>2, <1>11 DEF Joining
  <2>2. Gets' = Gets
    BY <1>4, <1>5, <2>1 DEF Gets
  <2>3. Few(Burst - 1) => Few(Burst - 1)'
    BY <1>5, <2>2 DEF Few
  <2>4. Replied => Replied'
    BY <1>5 DEF Replied
  <2>5. Challenged => Tried' \/ TriedLast'
    BY <1>5, <1>8, <1>9, <1>11, <2>1, <2>3 DEF Challenged, Tried, TriedLast
  <2>6. Tried => Tried' \/ TriedLast'
    <3>1. CASE now <= began + 2 * RETRANSMIT_TIMEOUT
      BY <1>5, <1>8, <1>11, <3>1 DEF Tried
    <3>2. CASE Tried /\ now > began + 2 * RETRANSMIT_TIMEOUT
      <4>1. bucket.burst < Burst /\ \A q \in Gets : FALSE
        BY <1>5, <3>2 DEF Tried, Waiting, Gets
      <4>2. Few(Burst - 1)
        BY <4>1 DEF Few
      <4> QED
        BY <1>5, <1>9, <2>1, <2>3, <3>2, <4>2 DEF Tried, TriedLast, Waiting
    <3> QED
      BY <3>1, <3>2
  <2>7. ~TriedLast
    BY <1>5 DEF TriedLast, Untaken
  <2>8. Trying => Trying'
    BY <1>5, <2>5, <2>6, <2>7 DEF Trying
  <2>9. \A q \in net' : q.type = "connect" => q.sent <= began' \/ q.challenge = clc'.challenge
    BY <1>4, <1>5, <1>11 DEF Joining
  <2> QED
    BY <1>5, <1>7, <1>11, <2>4, <2>8, <2>9 DEF Joining
<1>12. OnCourse'
  BY <1>5, <1>10, <1>11 DEF CourseInv, OnCourse, Never
<1> QED
  BY <1>5, <1>6, <1>12 DEF CourseInv
-----------------------------------------------------------------------------
(***************************************************************************)
(* What a getchallenge does: a copy less of it is under way, and a request *)
(* more in the bucket, or an answer too; and no number from nowhere.       *)
(***************************************************************************)
LEMMA Asks ==
  ASSUME HandshakeInv, DelayInv, OwnNumbers, NEW p \in net, SV_GetChallenge(p)
  PROVE  /\ p.type = "getchallenge" /\ UNCHANGED <<now, clc, cl, began>>
         /\ bucket'.burst = IF Limited THEN bucket.burst ELSE bucket.burst + 1
         /\ \A q \in net' : q.type \notin {"getchallenge", "challengeResponse"} => q \in net
         /\ \A q \in net' : q.type = "challengeResponse" =>
               \/ q \in net
               \/ q.challenge = SV_CreateChallenge(now \div Window)
         /\ \A q \in net : q # p => q \in net'
         /\ ~Limited =>
               \E q \in net' : /\ q.type = "challengeResponse" /\ q.copies = 1
                               /\ q.echo = p.challenge /\ q.sent = now
         /\ \E rest : /\ rest.copies = p.copies - 1 /\ rest.sent = p.sent
                      /\ Gets' \subseteq (Gets \ {p}) \cup {rest}
         /\ OwnNumbers'
<1> USE CourseNumbers, LimitNumbers
<1>1. p \in DatagramType /\ net \subseteq DatagramType /\ bucket \in BucketType
  BY TypeParts DEF HandshakeInv
<1>2. PICK rest : rest = [p EXCEPT !.copies = @ - 1]
  OBVIOUS
<1>3. /\ rest.type = p.type /\ rest.sent = p.sent /\ rest.challenge = p.challenge
      /\ rest.echo = p.echo /\ rest.copies = p.copies - 1
  BY <1>1, <1>2 DEF DatagramType
<1>4. Taken(p) \subseteq (net \ {p}) \cup {rest} /\ net \ {p} \subseteq Taken(p)
  BY <1>2 DEF Taken
<1> HIDE <1>2
<1>5. PICK made : made = SV_CreateChallenge(now \div Window)
  OBVIOUS
<1>6. made.stamp \in Nat
  <2>1. PICK current \in Nat : current = now \div Window
    BY WindowNumber
  <2>2. current % 2^16 \in 0 .. current
    BY Stamp
  <2> QED
    BY <1>5, <2>1, <2>2 DEF SV_CreateChallenge
<1>7. PICK answer : answer = Datagram("challengeResponse", made, p.challenge)
  OBVIOUS
<1>8. /\ answer.type = "challengeResponse" /\ answer.challenge = made
      /\ answer.echo = p.challenge /\ answer.sent = now /\ answer.copies = 1
  BY <1>7 DEF Datagram, Copies
<1>9. /\ p.type = "getchallenge" /\ UNCHANGED <<now, clc, cl, began>>
      /\ net' = Taken(p) \cup (IF Limited THEN {} ELSE {answer})
      /\ bucket' = SVC_RateLimit
  BY <1>5, <1>7 DEF SV_GetChallenge
<1> HIDE <1>7
<1>10. bucket'.burst = IF Limited THEN bucket.burst ELSE bucket.burst + 1
  BY <1>1, <1>9 DEF SVC_RateLimit, BucketType
<1>11. net' \subseteq (net \ {p}) \cup {rest, answer}
  BY <1>4, <1>9
<1>12. \A q \in net : q # p => q \in net'
  BY <1>4, <1>9
<1>13. Gets' \subseteq (Gets \ {p}) \cup {rest}
  BY <1>8, <1>11 DEF Gets
<1>14. OwnNumbers'
  BY <1>3, <1>6, <1>8, <1>9, <1>11 DEF OwnNumbers
<1>15. ~Limited =>
          \E q \in net' : /\ q.type = "challengeResponse" /\ q.copies = 1
                          /\ q.echo = p.challenge /\ q.sent = now
  BY <1>8, <1>9
<1> QED
  BY <1>3, <1>5, <1>8, <1>9, <1>10, <1>11, <1>12, <1>13, <1>14, <1>15

(***************************************************************************)
(* A getchallenge arrives.  It comes on time, so that in the phases that   *)
(* speak of later it changes nothing; the last one that the client sent    *)
(* is answered, or finds the bucket that a silent drop has filled.         *)
(***************************************************************************)
LEMMA CourseAsks ==
  ASSUME TimeLimits, HandshakeInv, DelayInv, CourseInv, NEW p \in net, SV_GetChallenge(p)
  PROVE  CourseInv'
<1> USE CourseNumbers, LimitNumbers DEF TimeLimits
<1>1. OwnNumbers
  BY DEF CourseInv
<1>2. /\ p.type = "getchallenge" /\ UNCHANGED <<now, clc, cl, began>>
      /\ bucket'.burst = IF Limited THEN bucket.burst ELSE bucket.burst + 1
      /\ \A q \in net' : q.type \notin {"getchallenge", "challengeResponse"} => q \in net
      /\ \A q \in net' : q.type = "challengeResponse" =>
            \/ q \in net
            \/ q.challenge = SV_CreateChallenge(now \div Window)
      /\ \A q \in net : q # p => q \in net'
      /\ OwnNumbers'
  BY <1>1, Asks
<1>3. ~Limited =>
         \E q \in net' : /\ q.type = "challengeResponse" /\ q.copies = 1
                         /\ q.echo = p.challenge /\ q.sent = now
  BY <1>1, Asks
<1>4. PICK rest : /\ rest.copies = p.copies - 1 /\ rest.sent = p.sent
                  /\ Gets' \subseteq (Gets \ {p}) \cup {rest}
  BY <1>1, Asks
<1>5. p \in Gets
  BY <1>2 DEF Gets
<1>6. Waiting => Waiting' /\ now <= clc.connectTime + MaxDelay
  BY <1>2, <1>4, <1>5 DEF Waiting
<1>7. Few(Burst) => ~Limited /\ Few(Burst)'
  BY <1>2, <1>4, <1>5 DEF Few, Limited, Gets
<1>8. Few(Burst - 1) => Few(Burst - 1)'
  BY <1>2, <1>4, <1>5 DEF Few, Limited, Gets
<1>9. (\A q, r \in Gets : q = r) => Gets = {p} /\ (\A q, r \in Gets : q = r)'
  BY <1>4, <1>5
<1>10. Answered => Answered'
  BY <1>2 DEF Answered
<1>11. Untaken("getchallenge") /\ Gets = {p} =>
         p.challenge = clc.challenge /\ p.sent = clc.connectTime
  BY DEF Untaken, Gets
<1>12. Untaken("getchallenge") /\ Gets = {p} /\ ~Limited => Answered'
  BY <1>2, <1>3, <1>11 DEF Answered
<1>13. ASSUME Asking, began <= now
       PROVE  Asking'
  <2>1. Unasked => Unasked'
    BY <1>2 DEF Unasked
  <2>2. AskedOnce => AskedOnce'
    BY <1>2, <1>6 DEF AskedOnce
  <2>3. AskedTwice => AskedTwice'
    <3>1. SUFFICES ASSUME AskedTwice
                   PROVE  AskedTwice'
      OBVIOUS
    <3>2. clc'.connectTime = began' + RETRANSMIT_TIMEOUT /\ Waiting'
          /\ now <= clc.connectTime + MaxDelay
      BY <1>2, <1>6, <3>1 DEF AskedTwice
    <3>3. Draining => Draining'
      BY <1>2, <3>2 DEF Draining
    <3>4. Limited /\ (bucket.burst < Burst \/ ~cl.justConnected) => Draining'
      BY <1>2, <3>2 DEF Draining, Limited
    <3> QED
      BY <1>9, <1>10, <1>12, <3>1, <3>2, <3>3, <3>4 DEF AskedTwice
  <2>4. AskedThrice => AskedThrice'
    <3>1. SUFFICES ASSUME AskedThrice
                   PROVE  AskedThrice'
      OBVIOUS
    <3>2. Few(Burst)' /\ ~Limited /\ (now' > clc'.connectTime => Few(Burst - 1)') /\ Waiting'
      BY <1>2, <1>6, <1>7, <1>8, <3>1 DEF AskedThrice
    <3>3. Answered'
      BY <1>9, <1>10, <1>12, <3>1, <3>2 DEF AskedThrice, Few
    <3> QED
      BY <1>2, <3>1, <3>2, <3>3 DEF AskedThrice
  <2>5. \A challenge : Fresh(challenge)' <=> Fresh(challenge)
    BY <1>2 DEF Fresh, SV_CreateChallenge
  <2>6. Fresh(SV_CreateChallenge(now \div Window))
    BY <1>13 DEF Fresh
  <2>7. \A q \in net' :
           q.type = "challengeResponse" /\ q.echo = clc'.challenge => Fresh(q.challenge)'
    BY <1>2, <1>13, <2>5, <2>6 DEF Asking
  <2>8. \A q \in net' : q.type = "connect" => q.sent <= began'
    BY <1>2, <1>13 DEF Asking
  <2> QED
    BY <1>2, <1>13, <2>1, <2>2, <2>3, <2>4, <2>7, <2>8 DEF Asking
<1>14. ASSUME Joining
       PROVE  Joining'
  <2>1. Replied => Replied'
    BY <1>2 DEF Replied
  <2>2. Challenged => Challenged'
    BY <1>2, <1>8 DEF Challenged
  <2>3. Tried => Tried'
    BY <1>2, <1>6 DEF Tried
  <2>4. TriedLast => TriedLast'
    BY <1>2, <1>8 DEF TriedLast, Untaken
  <2>5. Trying => Trying'
    BY <1>2, <2>2, <2>3, <2>4 DEF Trying
  <2>6. Fresh(clc.challenge)'
    BY <1>2, <1>14 DEF Joining, Fresh, SV_CreateChallenge
  <2>7. \A q \in net' : q.type = "connect" => q.sent <= began' \/ q.challenge = clc'.challenge
    BY <1>2, <1>14 DEF Joining
  <2> QED
    BY <1>2, <1>14, <2>1, <2>5, <2>6, <2>7 DEF Joining
<1>15. OnCourse'
  BY <1>2, <1>13, <1>14 DEF CourseInv, OnCourse, Never
<1> QED
  BY <1>2, <1>15 DEF CourseInv
-----------------------------------------------------------------------------
(***************************************************************************)
(* A connect that is sent after the second retransmission is accepted: its *)
(* challenge is valid, the bucket has room, and an old connect that took   *)
(* the slot did so long enough ago.                                        *)
(***************************************************************************)
LEMMA LastAccepted ==
  ASSUME TimeLimits, HandshakeInv, DelayInv, CourseInv, began # Never,
         Joining, TriedLast, cl.lastConnectTime <= began + MaxDelay,
         NEW p \in net, p.type = "connect"
  PROVE  ~Limited /\ SV_VerifyChallenge(p.challenge) /\ ~TooSoon
<1> USE CourseNumbers, LimitNumbers DEF TimeLimits
<1>1. now > began + 2 * RETRANSMIT_TIMEOUT /\ bucket.burst < Burst
  BY DEF TriedLast, Few
<1>2. p.challenge = clc.challenge
  BY <1>1 DEF Joining
<1>3. SV_VerifyChallenge(p.challenge)
  BY <1>2, FreshValid DEF Joining
<1>4. ~TooSoon
  BY <1>1 DEF TooSoon
<1> QED
  BY <1>1, <1>3, <1>4 DEF Limited

(***************************************************************************)
(* A connect arrives and is refused.  It counts when its challenge is not  *)
(* valid, which is so only of a connect of an earlier attempt.             *)
(***************************************************************************)
LEMMA CourseRefused ==
  ASSUME TimeLimits, HandshakeInv, DelayInv, CourseInv,
         NEW p \in net, p.type = "connect", UNCHANGED <<now, clc, began, cl>>,
         net' = Taken(p),
         \/ /\ bucket'.burst = bucket.burst
            /\ Limited \/ ~SV_VerifyChallenge(p.challenge) \/ TooSoon
         \/ /\ bucket'.burst = bucket.burst + 1
            /\ ~SV_VerifyChallenge(p.challenge)
  PROVE  CourseInv'
<1> USE CourseNumbers, LimitNumbers DEF TimeLimits
<1>1. net \subseteq DatagramType
  BY TypeParts DEF HandshakeInv
<1>2. Arrived
  BY <1>1, OtherArrived DEF AnswersClient
<1>3. OwnNumbers'
  BY <1>2, ArrivedSame DEF CourseInv
<1>4. CASE began = Never
  BY <1>3, <1>4 DEF CourseInv, OnCourse, Never
<1>5. CASE began # Never /\ now <= began + MaxDelay
  <2>1. OnCourse'
    BY <1>2, <1>5, CourseEarly
  <2> QED
    BY <1>3, <2>1 DEF CourseInv
<1>6. CASE began # Never /\ ~ (now <= began + MaxDelay)
  <2>1. ~ (p.sent <= began)
    BY <1>6
  <2>2. Joining /\ p.challenge = clc.challenge
    BY <1>6, <2>1 DEF CourseInv, OnCourse, Asking, Joining
  <2>3. SV_VerifyChallenge(p.challenge)
    BY <1>6, <2>2, FreshValid DEF Joining
  <2>4. TriedLast => Replied
    BY <1>6, <2>2, <2>3, LastAccepted DEF Joining, Trying
  <2> QED
    BY <1>2, <2>3, <2>4, CourseQuiet
<1> QED
  BY <1>4, <1>5, <1>6

(***************************************************************************)
(* A connect is accepted: that of an earlier attempt, which arrives within *)
(* one delay, or the client's own, which is answered.                      *)
(***************************************************************************)
LEMMA CourseAccepted ==
  ASSUME TimeLimits, HandshakeInv, DelayInv, CourseInv,
         NEW p \in net, p.type = "connect", UNCHANGED <<now, clc, began>>,
         bucket'.burst = bucket.burst, cl'.lastConnectTime = now,
         net' = Taken(p) \cup {Packet("connectResponse", p.challenge)}
  PROVE  CourseInv'
<1> USE CourseNumbers, LimitNumbers DEF TimeLimits
<1>1. net \subseteq DatagramType /\ JustConnectedTime \in Nat
  BY TypeParts, ConnectionAssumption DEF HandshakeInv
<1>2. PICK reply : reply = Packet("connectResponse", p.challenge)
  OBVIOUS
<1>3. /\ reply.type = "connectResponse" /\ reply.challenge = p.challenge
      /\ reply.sent = now /\ reply.copies = 1
  BY <1>2 DEF Packet, Datagram, Copies
<1>4. Arrived
  BY <1>1, <1>2, <1>3, OtherArrived DEF AnswersClient
<1>5. OwnNumbers'
  BY <1>4, ArrivedSame DEF CourseInv
<1>6. cl'.justConnected => now' <= cl'.lastConnectTime + JustConnectedTime + 1
  BY <1>1
<1>7. CASE began = Never
  BY <1>5, <1>6, <1>7 DEF CourseInv, OnCourse, Never
<1>8. CASE began # Never /\ now <= began + MaxDelay
  <2>1. OnCourse'
    BY <1>4, <1>8, CourseEarly
  <2> QED
    BY <1>5, <1>6, <2>1 DEF CourseInv
<1>9. CASE began # Never /\ ~ (now <= began + MaxDelay)
  <2>1. ~ (p.sent <= began)
    BY <1>9
  <2>2. Joining /\ p.challenge = clc.challenge
    BY <1>9, <2>1 DEF CourseInv, OnCourse, Asking, Joining
  <2>3. Replied \/ now <= began + 3 * RETRANSMIT_TIMEOUT + MaxDelay
    <3>1. Challenged \/ Tried => now <= began + 3 * RETRANSMIT_TIMEOUT + MaxDelay
      BY DEF Challenged, Tried, Waiting
    <3>2. TriedLast => now <= began + 3 * RETRANSMIT_TIMEOUT + MaxDelay
      BY DEF TriedLast, Untaken
    <3> QED
      BY <2>2, <3>1, <3>2 DEF Joining, Trying
  <2>4. Replied'
    <3>1. Replied => Replied'
      BY <1>4, <2>2, ArrivedSame DEF Joining
    <3>2. now <= began + 3 * RETRANSMIT_TIMEOUT + MaxDelay => Replied'
      BY <1>2, <1>3, <2>2 DEF Replied
    <3> QED
      BY <2>3, <3>1, <3>2
  <2>5. Joining'
    BY <1>4, <2>2, <2>4, ArrivedJoining
  <2> QED
    BY <1>5, <1>6, <1>9, <2>5 DEF CourseInv, OnCourse, Never
<1> QED
  BY <1>7, <1>8, <1>9

LEMMA CourseConnects ==
  ASSUME TimeLimits, HandshakeInv, DelayInv, CourseInv, NEW p \in net, DirectConnect(p)
  PROVE  CourseInv'
<1>1. bucket \in BucketType /\ p.type = "connect" /\ UNCHANGED <<now, clc, began>>
  BY TypeParts DEF HandshakeInv, DirectConnect
<1>2. SVC_RateLimit.burst = IF Limited THEN bucket.burst ELSE bucket.burst + 1
  BY <1>1 DEF SVC_RateLimit, BucketType
<1>3. bucket.burst \in Nat
  BY <1>1 DEF BucketType
<1>4. \A b \in BucketType :
         /\ RestoreBurst(b).burst = IF b.burst > 0 THEN b.burst - 1 ELSE 0
         /\ RestoreToxic(b).burst = b.burst
  BY DEF RestoreBurst, RestoreToxic, BucketType
<1>5. SVC_RateLimit \in BucketType /\ RestoreBurst(SVC_RateLimit) \in BucketType
  BY <1>1, BucketTypes
<1>6. ~Limited =>
         /\ RestoreBurst(SVC_RateLimit).burst = bucket.burst
         /\ RestoreToxic(RestoreBurst(SVC_RateLimit)).burst = bucket.burst
  BY <1>2, <1>3, <1>4, <1>5
<1>7. CASE /\ Limited \/ ~SV_VerifyChallenge(p.challenge)
           /\ bucket' = SVC_RateLimit /\ net' = Taken(p) /\ UNCHANGED cl
  BY <1>1, <1>2, <1>7, CourseRefused
<1>8. CASE /\ ~Limited /\ TooSoon
           /\ bucket' = RestoreBurst(SVC_RateLimit) /\ net' = Taken(p) /\ UNCHANGED cl
  BY <1>1, <1>6, <1>8, CourseRefused
<1>9. CASE /\ ~Limited
           /\ bucket' = RestoreToxic(RestoreBurst(SVC_RateLimit))
           /\ cl' = [state |-> "connected", challenge |-> p.challenge, justConnected |-> TRUE,
                     lastConnectTime |-> now]
           /\ net' = Taken(p) \cup {Packet("connectResponse", p.challenge)}
  <2>1. cl'.lastConnectTime = now /\ bucket'.burst = bucket.burst
    BY <1>6, <1>9
  <2> QED
    BY <1>1, <1>9, <2>1, CourseAccepted
<1> QED
  BY <1>7, <1>8, <1>9 DEF DirectConnect
-----------------------------------------------------------------------------
(***************************************************************************)
(* The slot is dropped as silent, and the bucket filled: by the time of    *)
(* the second retransmission at the latest, if an old connect took it.     *)
(***************************************************************************)
LEMMA CourseDropped ==
  ASSUME TimeLimits, HandshakeInv, DelayInv, CourseInv, SV_CheckTimeouts
  PROVE  CourseInv'
<1> USE CourseNumbers, LimitNumbers DEF TimeLimits
<1>1. bucket \in BucketType /\ cl \in HeldType /\ JustConnectedTime \in Nat
  BY TypeParts, ConnectionAssumption DEF HandshakeInv
<1>2. /\ cl.justConnected /\ now - cl.lastConnectTime > JustConnectedTime
      /\ ~cl'.justConnected /\ cl'.lastConnectTime = cl.lastConnectTime
      /\ UNCHANGED <<now, clc, net, began>>
  BY <1>1 DEF SV_CheckTimeouts, Unheard, HeldType
<1>3. bucket'.burst = Burst
  BY <1>1, <1>2, Score DEF SV_CheckTimeouts, SVC_RateDrop, BucketType
<1>4. now <= cl.lastConnectTime + JustConnectedTime + 1
  BY <1>2 DEF CourseInv
<1>5. Arrived
  BY <1>2 DEF Arrived
<1>6. OwnNumbers'
  BY <1>5, <1>2, ArrivedSame DEF CourseInv
<1>7. ASSUME cl.lastConnectTime <= began + MaxDelay
      PROVE  now <= began + 2 * RETRANSMIT_TIMEOUT
  BY <1>1, <1>4, <1>7
<1>8. ASSUME Asking
      PROVE  Asking'
  <2>1. Unasked => Unasked'
    BY <1>2 DEF Unasked
  <2>2. AskedOnce => AskedOnce'
    BY <1>2, <1>5, ArrivedSame DEF AskedOnce
  <2>3. AskedTwice => AskedTwice'
    BY <1>2, <1>5, <1>8, ArrivedSame DEF Asking, AskedTwice, Draining
  <2>4. ~AskedThrice
    BY <1>2 DEF AskedThrice
  <2>5. cl'.lastConnectTime <= began + MaxDelay
    BY <1>2, <1>8 DEF Asking
  <2> QED
    BY <1>2, <1>5, <1>8, <2>1, <2>2, <2>3, <2>4, <2>5, ArrivedAsking DEF Asking
<1>9. ASSUME Joining
      PROVE  Joining'
  <2>1. Replied => Replied'
    BY <1>2, <1>5, <1>9, ArrivedSame DEF Joining
  <2>2. Trying => Trying'
    <3>1. SUFFICES ASSUME Trying
                   PROVE  Trying'
      OBVIOUS
    <3>2. now <= began + 2 * RETRANSMIT_TIMEOUT
      BY <1>7, <3>1 DEF Trying
    <3>3. Challenged => Challenged'
      BY <1>2, <3>2 DEF Challenged
    <3>4. Tried => Tried'
      BY <1>2, <1>5, <3>2, ArrivedSame DEF Tried
    <3>5. ~TriedLast
      BY <3>2 DEF TriedLast
    <3> QED
      BY <1>2, <3>1, <3>3, <3>4, <3>5 DEF Trying
  <2> QED
    BY <1>2, <1>5, <1>9, <2>1, <2>2, ArrivedJoining DEF Joining
<1>10. OnCourse'
  BY <1>2, <1>8, <1>9 DEF CourseInv, OnCourse, Never
<1> QED
  BY <1>2, <1>6, <1>10 DEF CourseInv

(***************************************************************************)
(* A second passes.  What is late is gone, and if no copy of it arrived    *)
(* the attempt has lost a datagram; one request is forgotten.              *)
(***************************************************************************)
LEMMA CourseTicks ==
  ASSUME TimeLimits, HandshakeInv, DelayInv, CourseInv, Tick
  PROVE  CourseInv'
<1> USE CourseNumbers, LimitNumbers DEF TimeLimits
<1>1. bucket \in BucketType /\ cl \in HeldType /\ clc \in ClientType /\ JustConnectedTime \in Nat
  BY TypeParts, ConnectionAssumption DEF HandshakeInv
<1>2. now' = now + 1 /\ UNCHANGED <<clc, cl>> /\ ~ResendDue /\ ~Unheard
  BY DEF Tick
<1>3. bucket'.burst = IF bucket.burst > 0 THEN bucket.burst - 1 ELSE 0
  BY <1>1 DEF Tick, BucketType
<1>4. net' \subseteq net
  BY DEF Tick
<1>5. OwnNumbers'
  BY <1>2, <1>4 DEF CourseInv, OwnNumbers
<1>6. cl'.justConnected => now' <= cl'.lastConnectTime + JustConnectedTime + 1
  BY <1>1, <1>2 DEF Unheard
<1>7. CASE began' = Never
  BY <1>5, <1>6, <1>7 DEF CourseInv, OnCourse, Never
<1>8. CASE began' # Never
  <2>1. /\ began' = began
        /\ \A p \in net : p.copies = Copies(p.type) => p \in net' /\ now < p.sent + MaxDelay
    BY <1>8 DEF Tick
  <2>2. clc.state \in {"connecting", "challenging"} =>
           now < clc.connectTime + RETRANSMIT_TIMEOUT
    BY <1>2 DEF ResendDue
  <2>3. now < clc.connectTime + RETRANSMIT_TIMEOUT /\ Waiting => Waiting'
    BY <1>2, <1>4 DEF Waiting, Gets
  <2>4. \A challenge : Fresh(challenge) => Fresh(challenge)'
    <3>1. SUFFICES ASSUME NEW challenge, Fresh(challenge)
                   PROVE  Fresh(challenge)'
      OBVIOUS
    <3>2. PICK time \in began .. now : challenge = SV_CreateChallenge(time \div Window)
      BY <3>1 DEF Fresh
    <3>3. time \in began' .. now'
      BY <1>2, <2>1
    <3> QED
      BY <3>2, <3>3 DEF Fresh, SV_CreateChallenge
  <2>5. Gets' \subseteq Gets
    BY <1>4 DEF Gets
  <2>6. Few(Burst) => Few(Burst - 1)' /\ Few(Burst)'
    BY <1>3, <2>5 DEF Few, Gets
  <2>7. Few(Burst - 1) => Few(Burst - 1)'
    BY <1>3, <2>5 DEF Few, Gets
  <2>8. \A type \in {"getchallenge", "connect"} :
           Untaken(type) => Untaken(type)' /\ now < clc.connectTime + MaxDelay
    BY <1>2, <2>1 DEF Untaken, Copies
  <2>9. Answered => Answered'
    BY <1>2, <2>1 DEF Answered, Copies
  <2>10. Replied => Replied'
    BY <1>2, <2>1 DEF Replied, Copies
  <2>11. bucket'.burst \in Int /\ bucket'.burst < Burst
    BY <1>3
  <2>12. ASSUME Asking, began <= now
         PROVE  Asking'
    <3>1. now < clc.connectTime + RETRANSMIT_TIMEOUT
      BY <2>2, <2>12 DEF Asking
    <3>2. ~Unasked
      BY <1>2, <3>1, <2>1, TypeParts DEF Unasked, LongAgo, HandshakeInv
    <3>3. AskedOnce => AskedOnce'
      BY <1>2, <2>1, <2>3, <2>11, <3>1 DEF AskedOnce
    <3>4. AskedTwice => AskedTwice'
      <4>1. SUFFICES ASSUME AskedTwice
                     PROVE  AskedTwice'
        OBVIOUS
      <4>2. Waiting' /\ clc'.connectTime = began' + RETRANSMIT_TIMEOUT
        BY <1>2, <2>1, <2>3, <3>1, <4>1 DEF AskedTwice
      <4>3. Draining => Draining'
        BY <1>2, <1>3 DEF Draining
      <4>4. (\A p, q \in Gets : p = q) => (\A p, q \in Gets : p = q)'
        BY <2>5
      <4> QED
        BY <2>8, <2>9, <2>11, <4>1, <4>2, <4>3, <4>4 DEF AskedTwice
    <3>5. AskedThrice => AskedThrice'
      <4>1. SUFFICES ASSUME AskedThrice
                     PROVE  AskedThrice'
        OBVIOUS
      <4>2. Few(Burst)' /\ Few(Burst - 1)' /\ Waiting'
        BY <2>3, <2>6, <3>1, <4>1 DEF AskedThrice
      <4> QED
        BY <1>2, <2>1, <2>8, <2>9, <4>1, <4>2 DEF AskedThrice
    <3>6. cl'.lastConnectTime <= began' + MaxDelay /\ clc'.state = "connecting"
      BY <1>2, <2>1, <2>12 DEF Asking
    <3>7. \A q \in net' : q.type = "connect" => q.sent <= began'
      BY <1>4, <2>1, <2>12 DEF Asking
    <3>8. \A q \in net' :
             q.type = "challengeResponse" /\ q.echo = clc'.challenge => Fresh(q.challenge)'
      BY <1>2, <1>4, <2>4, <2>12 DEF Asking
    <3> QED
      BY <2>12, <3>2, <3>3, <3>4, <3>5, <3>6, <3>7, <3>8 DEF Asking
  <2>13. ASSUME Joining
         PROVE  Joining'
    <3>1. now < clc.connectTime + RETRANSMIT_TIMEOUT
      BY <2>2, <2>13 DEF Joining
    <3>2. ~Challenged
      BY <1>2, <3>1, <2>1, TypeParts DEF Challenged, LongAgo, HandshakeInv
    <3>3. Tried => Tried'
      BY <1>2, <1>3, <2>1, <2>3, <2>11, <3>1 DEF Tried
    <3>4. TriedLast => TriedLast'
      BY <1>2, <2>1, <2>7, <2>8 DEF TriedLast
    <3>5. Trying => Trying'
      BY <1>2, <2>1, <3>2, <3>3, <3>4 DEF Trying
    <3>6. \A q \in net' :
             q.type = "connect" => q.sent <= began' \/ q.challenge = clc'.challenge
      BY <1>2, <1>4, <2>1, <2>13 DEF Joining
    <3>7. Fresh(clc.challenge)'
      BY <1>2, <2>4, <2>13 DEF Joining
    <3> QED
      BY <1>2, <2>10, <2>13, <3>5, <3>6, <3>7 DEF Joining
  <2>14. OnCourse'
    BY <1>2, <1>8, <2>1, <2>12, <2>13 DEF CourseInv, OnCourse, Never
  <2> QED
    BY <1>5, <1>6, <2>14 DEF CourseInv
<1> QED
  BY <1>7, <1>8

(***************************************************************************)
(* Every step keeps an attempt on its course.                              *)
(***************************************************************************)
LEMMA CourseStep ==
  ASSUME TimeLimits, HandshakeInv, DelayInv, CourseInv, [ConnectionNext]_connectionVars
  PROVE  CourseInv'
<1>1. CASE UNCHANGED connectionVars
  <2>1. UNCHANGED <<now, clc, cl, bucket, net, began>>
    BY <1>1 DEF connectionVars
  <2>2. Arrived
    BY <2>1 DEF Arrived
  <2>3. TriedLast => Untaken("connect")'
    BY <2>1 DEF TriedLast, Untaken
  <2> QED
    BY <2>1, <2>2, <2>3, CourseQuiet
<1>2. ASSUME NEW p \in net, ChallengeResponse(p) \/ ConnectResponse(p)
      PROVE  CourseInv'
  <2>1. CASE clc' = clc
    BY <1>2, <2>1, CourseOther
  <2>2. CASE clc' # clc
    BY <1>2, <2>2, CourseChallenged, CourseLeft
  <2> QED
    BY <2>1, <2>2
<1>3. ASSUME NEW p \in net, SV_GetChallenge(p) \/ DirectConnect(p) \/ LastMessage(p)
      PROVE  CourseInv'
  BY <1>3, CourseAsks, CourseConnects, CourseOther
<1>4. CASE CL_Connect_f \/ CL_CheckForResend \/ CL_Disconnect
  BY <1>4, CourseBegins, CourseResends, CourseLeft
<1>5. CASE SV_PacketEvent \/ SV_CheckTimeouts \/ ServerDrops \/ BucketReclaimed \/ Tick
  BY <1>5, CourseOther, CourseDropped, CourseTicks
<1> QED
  BY <1>1, <1>2, <1>3, <1>4, <1>5 DEF ConnectionNext

(***************************************************************************)
(* The time limits fit together: whatever connects of its own arrive late, *)
(* whatever copies of its requests, and whatever it tried before, a client *)
(* none of whose datagrams is lost is connected within three               *)
(* retransmissions and two delays.                                         *)
(***************************************************************************)
THEOREM InTime ==
  ASSUME TimeLimits
  PROVE  ConnectionSpec => []ConnectsInTime
<1> DEFINE AttemptInv == HandshakeInv /\ DelayInv /\ CourseInv
<1>1. ConnectionInit => DelayInv /\ CourseInv
  BY DelayInit, CourseInit
<1>2. AttemptInv /\ [ConnectionNext]_connectionVars => DelayInv' /\ CourseInv'
  BY DelayStep, CourseStep
<1>3. AttemptInv => ConnectsInTime
  BY CourseEnds
<1> QED
  BY <1>1, <1>2, <1>3, HandshakeInductive, PTL DEF ConnectionSpec
=============================================================================
