----------------------------- MODULE Connection -----------------------------
(***************************************************************************)
(* The connection handshake of one client address with the one slot it can *)
(* hold: getchallenge, challengeResponse, connect, connectResponse, all of *)
(* them connectionless datagrams that are lost, duplicated and delayed;    *)
(* the stateless challenges and their time windows; the reconnect limit;   *)
(* the silent drop of a client that is never heard of, and the rate        *)
(* limiter it is reported to.                                              *)
(*                                                                         *)
(* A tick is a second.  Frames last milliseconds, so what a frame does     *)
(* once it is due (a retransmission, a timeout) happens before the next    *)
(* tick.  A datagram arrives while it is no older than MaxDelay, or never; *)
(* the requests of the client may arrive MaxCopies times.  Of the messages *)
(* of the channel only two matter: the ordinary ones, which arrive at once *)
(* or not at all, and the last one, which asks to disconnect and travels   *)
(* like the other datagrams; both carry the challenge in their checksum.   *)
(* Refusals are only printed, and left out.  A slot that was left is       *)
(* "left", zombie or free: a connect and a message find no difference.     *)
(* ClientSlots models how a slot is chosen, and the game's say; no name of *)
(* its is used here, so that one module can extend both.                   *)
(***************************************************************************)
EXTENDS Integers, FiniteSets

CONSTANTS
    RETRANSMIT_TIMEOUT,
    sv_reconnectlimit,
    Window,             \* 2 ^ TS_SHIFT milliseconds, about 16 seconds
    JustConnectedTime,  \* the 4000 milliseconds of SV_CheckTimeouts
    Burst,              \* 10 requests, one forgotten each second
    MaxDelay,           \* a datagram is delivered by then or lost
    MaxCopies,          \* times a request may be delivered
    StartTime,          \* svs.time when the client first appears
    MaxTime,            \* bound: time stops
    MaxAttempts         \* bound: connect commands of the user

ASSUME ConnectionAssumption ==
    /\ {RETRANSMIT_TIMEOUT, sv_reconnectlimit, Window,
        JustConnectedTime, Burst, MaxCopies} \subseteq Nat \ {0}
    /\ {MaxDelay, StartTime, MaxTime, MaxAttempts} \subseteq Nat
    /\ StartTime <= MaxTime

VARIABLES
    now,        \* svs.time, cls.realtime and Sys_Milliseconds
    clc,        \* the client: cls.state and the clc fields of the handshake
    cl,         \* the slot
    bucket,     \* the leaky bucket of the client's address
    net,        \* datagrams under way
    began       \* history: when this attempt began, Never once connected
                \* or once a datagram is lost

connectionVars == <<now, clc, cl, bucket, net, began>>

LongAgo == StartTime - Window
Never == MaxTime + 1

-----------------------------------------------------------------------------
(***************************************************************************)
(* A challenge is 31 bits made of the window's number and, in the top bit, *)
(* the window's parity.  The number the client draws for its getchallenge  *)
(* is of the same type; Own stands for one that occurs nowhere else.       *)
(***************************************************************************)
SV_CreateChallenge(timestamp) ==
    [stamp |-> timestamp % 2^16, period |-> timestamp % 2]

Own(attempt) == [stamp |-> - attempt, period |-> 0]

\* Mutant: only the current window counts.
SV_VerifyThisWindow(challenge) == challenge = SV_CreateChallenge(now \div Window)

SV_VerifyChallenge(challenge) ==
    LET current == now \div Window
        age == IF current % 2 = challenge.period THEN 0 ELSE 1
    IN  challenge = SV_CreateChallenge(current - age)

(***************************************************************************)
(* The leaky bucket of the address.  It loses one request a second, which  *)
(* SVC_RateLimit works out when it looks at it, and Tick as time passes.   *)
(* A bucket that another address reclaims, or none yet, is an empty one.   *)
(***************************************************************************)
Empty == [burst |-> 0, toxic |-> 0]

Limited == bucket.burst >= Burst

\* Mutant: a refused request counts as well.
SVC_RateCount == [bucket EXCEPT !.burst = @ + 1]

SVC_RateLimit == IF Limited THEN bucket ELSE [bucket EXCEPT !.burst = @ + 1]

RestoreBurst(b) == [b EXCEPT !.burst = IF @ > 0 THEN @ - 1 ELSE 0]

\* Mutant: a client that connects is not forgiven.
ToxicKept(b) == b

RestoreToxic(b) == [b EXCEPT !.toxic = IF @ > 0 THEN @ - 1 ELSE 0]

SVC_RateDrop ==
    [burst |-> Burst * (bucket.toxic + 1), toxic |-> bucket.toxic + 1]

-----------------------------------------------------------------------------
(***************************************************************************)
(* Datagrams; echo is the second argument of a challengeResponse.          *)
(***************************************************************************)
Copies(type) == IF type \in {"getchallenge", "connect"} THEN MaxCopies ELSE 1

Datagram(type, challenge, echo) ==
    [type |-> type, challenge |-> challenge, echo |-> echo,
     sent |-> now, copies |-> Copies(type)]

Packet(type, challenge) == Datagram(type, challenge, challenge)

Taken(p) ==
    (net \ {p}) \cup (IF p.copies > 1 THEN {[p EXCEPT !.copies = @ - 1]} ELSE {})

Wiped == [state |-> "disconnected", challenge |-> Own(0), connectTime |-> LongAgo,
          attempt |-> 0]

ConnectionInit ==
    /\ now = StartTime
    /\ clc = Wiped
    /\ cl = [state |-> "left", challenge |-> Own(0), justConnected |-> FALSE,
             lastConnectTime |-> LongAgo]
    /\ bucket = Empty
    /\ net = {}
    /\ began = Never

-----------------------------------------------------------------------------
(***************************************************************************)
(* The client.  CL_Connect_f also disconnects, in an action of its own.    *)
(***************************************************************************)
CL_Connect_f ==
    /\ clc.state = "disconnected"
    /\ clc.attempt < MaxAttempts
    /\ clc' = [Wiped EXCEPT !.state = "connecting", !.attempt = clc.attempt + 1,
                            !.challenge = Own(clc.attempt + 1)]
    /\ began' = now
    /\ UNCHANGED <<now, cl, bucket, net>>

ResendDue ==
    /\ clc.state \in {"connecting", "challenging"}
    /\ now - clc.connectTime >= RETRANSMIT_TIMEOUT

CL_CheckForResend ==
    /\ ResendDue
    /\ clc' = [clc EXCEPT !.connectTime = now]
    /\ net' = net \cup {Packet(IF clc.state = "connecting" THEN "getchallenge" ELSE "connect",
                               clc.challenge)}
    /\ UNCHANGED <<now, cl, bucket, began>>

ChallengeResponse(p) ==
    /\ p \in net
    /\ p.type = "challengeResponse"
    /\ net' = Taken(p)
    /\ clc' = IF clc.state = "connecting" /\ p.echo = clc.challenge
              THEN [clc EXCEPT !.state = "challenging", !.challenge = p.challenge,
                               !.connectTime = LongAgo]
              ELSE clc
    /\ UNCHANGED <<now, cl, bucket, began>>

ConnectResponse(p) ==
    /\ p \in net
    /\ p.type = "connectResponse"
    /\ net' = Taken(p)
    /\ IF clc.state = "challenging" /\ p.challenge = clc.challenge
       THEN clc' = [clc EXCEPT !.state = "connected"] /\ began' = Never
       ELSE UNCHANGED <<clc, began>>
    /\ UNCHANGED <<now, cl, bucket>>

(***************************************************************************)
(* When a connected client leaves, its last message says so.               *)
(***************************************************************************)
CL_Disconnect ==
    /\ clc.state # "disconnected"
    /\ clc' = [Wiped EXCEPT !.attempt = clc.attempt]
    /\ net' = IF clc.state = "connected"
              THEN net \cup {Packet("disconnect", clc.challenge)}
              ELSE net
    /\ began' = Never
    /\ UNCHANGED <<now, cl, bucket>>

-----------------------------------------------------------------------------
(***************************************************************************)
(* The server.                                                             *)
(***************************************************************************)
SV_GetChallenge(p) ==
    /\ p \in net
    /\ p.type = "getchallenge"
    /\ bucket' = SVC_RateLimit
    /\ net' = Taken(p) \cup
              (IF Limited THEN {}
               ELSE {Datagram("challengeResponse", SV_CreateChallenge(now \div Window),
                              p.challenge)})
    /\ UNCHANGED <<now, clc, cl, began>>

\* Mutant: only a slot that has been left is protected.
TooSoonIfLeft ==
    /\ cl.state = "left"
    /\ now - cl.lastConnectTime < sv_reconnectlimit

TooSoon == now - cl.lastConnectTime \in 0 .. sv_reconnectlimit - 1

(***************************************************************************)
(* SV_DirectConnect: too many requests, a wrong challenge and a reconnect  *)
(* that comes too soon are refused; else the slot is zeroed and given to   *)
(* the client, whatever it was doing.                                      *)
(***************************************************************************)
DirectConnect(p) ==
    /\ p \in net
    /\ p.type = "connect"
    /\ \/ /\ Limited \/ ~SV_VerifyChallenge(p.challenge)
          /\ bucket' = SVC_RateLimit
          /\ net' = Taken(p)
          /\ UNCHANGED cl
       \/ /\ ~Limited
          /\ SV_VerifyChallenge(p.challenge)
          /\ TooSoon
          /\ bucket' = RestoreBurst(SVC_RateLimit)
          /\ net' = Taken(p)
          /\ UNCHANGED cl
       \/ /\ ~Limited
          /\ SV_VerifyChallenge(p.challenge)
          /\ ~TooSoon
          /\ bucket' = RestoreToxic(RestoreBurst(SVC_RateLimit))
          /\ cl' = [state |-> "connected", challenge |-> p.challenge, justConnected |-> TRUE,
                    lastConnectTime |-> now]
          /\ net' = Taken(p) \cup {Packet("connectResponse", p.challenge)}
    /\ UNCHANGED <<now, clc, began>>

(***************************************************************************)
(* SV_PacketEvent and SV_ExecuteClientMessage.  The commands of a message  *)
(* are not read while the slot waits to be sent its gamestate.             *)
(***************************************************************************)
Heard(challenge, disconnects) ==
    IF cl.state \in {"connected", "active"} /\ cl.challenge = challenge
    THEN [cl EXCEPT !.justConnected = FALSE,
                    !.state = IF @ = "active" /\ disconnects THEN "left" ELSE "active"]
    ELSE cl

SV_PacketEvent ==
    /\ clc.state = "connected"
    /\ cl' = Heard(clc.challenge, FALSE)
    /\ UNCHANGED <<now, clc, bucket, net, began>>

LastMessage(p) ==
    /\ p \in net
    /\ p.type = "disconnect"
    /\ net' = Taken(p)
    /\ cl' = Heard(p.challenge, TRUE)
    /\ UNCHANGED <<now, clc, bucket, began>>

(***************************************************************************)
(* SV_CheckTimeouts, for a client that connected and was not heard of      *)
(* since: its lastPacketTime is still its lastConnectTime.                 *)
(***************************************************************************)
Unheard == cl.justConnected /\ now - cl.lastConnectTime > JustConnectedTime

SV_CheckTimeouts ==
    /\ Unheard
    /\ cl' = [cl EXCEPT !.state = "left", !.justConnected = FALSE]
    /\ bucket' = SVC_RateDrop
    /\ UNCHANGED <<now, clc, net, began>>

(***************************************************************************)
(* SV_DropClient: the server drops the client for a reason of its own.     *)
(***************************************************************************)
ServerDrops ==
    /\ cl.state \in {"connected", "active"}
    /\ cl' = [cl EXCEPT !.state = "left", !.justConnected = FALSE]
    /\ UNCHANGED <<now, clc, bucket, net, began>>

(***************************************************************************)
(* Another address needs a bucket and takes this one, which has run dry.   *)
(***************************************************************************)
BucketReclaimed ==
    /\ bucket.burst = 0
    /\ bucket # Empty
    /\ bucket' = Empty
    /\ UNCHANGED <<now, clc, cl, net, began>>

(***************************************************************************)
(* A second passes.                                                        *)
(***************************************************************************)
Tick ==
    LET late == {p \in net : now - p.sent >= MaxDelay}
    IN  /\ now < MaxTime
        /\ ~ResendDue /\ ~Unheard
        /\ now' = now + 1
        /\ net' = net \ late
        /\ began' = IF \E p \in late : p.copies = Copies(p.type) THEN Never ELSE began
        /\ bucket' = [bucket EXCEPT !.burst = IF @ > 0 THEN @ - 1 ELSE 0]
        /\ UNCHANGED <<clc, cl>>

ConnectionNext ==
    \/ CL_Connect_f \/ CL_CheckForResend \/ CL_Disconnect
    \/ SV_PacketEvent \/ SV_CheckTimeouts \/ ServerDrops \/ BucketReclaimed \/ Tick
    \/ \E p \in net :
        \/ ChallengeResponse(p) \/ ConnectResponse(p)
        \/ SV_GetChallenge(p) \/ DirectConnect(p) \/ LastMessage(p)

ConnectionSpec == ConnectionInit /\ [][ConnectionNext]_connectionVars
-----------------------------------------------------------------------------
(***************************************************************************)
(* Type invariant.                                                         *)
(***************************************************************************)
Times == LongAgo .. MaxTime

Challenges == [stamp : - MaxAttempts .. MaxTime \div Window, period : 0 .. 1]

ConnectionTypeOK ==
    /\ now \in StartTime .. MaxTime
    /\ clc \in [state : {"disconnected", "connecting", "challenging", "connected"},
                challenge : Challenges, connectTime : Times, attempt : 0 .. MaxAttempts]
    /\ cl \in [state : {"left", "connected", "active"}, challenge : Challenges,
               justConnected : BOOLEAN, lastConnectTime : Times]
    /\ cl.justConnected => cl.state = "connected"
    /\ bucket \in [burst : 0 .. Burst, toxic : Nat]
    /\ net \subseteq [type : {"getchallenge", "challengeResponse", "connect",
                              "connectResponse", "disconnect"},
                      challenge : Challenges, echo : Challenges, sent : Times, copies : 1 .. MaxCopies]
    /\ began \in StartTime .. Never

(***************************************************************************)
(* Each silent drop is preceded by an accepted connect, which takes one    *)
(* drop off the score: the "progressive multiplier" (sv_main.c:1023) never *)
(* grows beyond the slots an address has, whatever the order of drops,     *)
(* reconnects and reclaimed buckets.                                       *)
(***************************************************************************)
DropsForgiven == bucket.toxic + (IF cl.justConnected THEN 1 ELSE 0) <= 1

(***************************************************************************)
(* Retransmissions and duplicates of a connect reset no connection that    *)
(* stands: while the client is connected with the challenge of its slot,   *)
(* no connect is accepted.  It takes a reconnect limit longer than two     *)
(* datagrams can be under way.                                             *)
(***************************************************************************)
Established ==
    /\ clc.state = "connected"
    /\ cl.state \in {"connected", "active"}
    /\ cl.challenge = clc.challenge

EstablishedKept ==
    [][Established => \A p \in net : DirectConnect(p) => UNCHANGED cl]_connectionVars

(***************************************************************************)
(* The time limits fit together: a client none of whose datagrams is lost  *)
(* is connected within three retransmissions and two delays, be it that    *)
(* windows change in between, or that an old connect of its own has taken  *)
(* the slot: then its connects come too soon until the reconnect limit has *)
(* passed, and find the bucket full once the slot is dropped as silent.    *)
(***************************************************************************)
ConnectsInTime == now - began <= 3 * RETRANSMIT_TIMEOUT + 2 * MaxDelay
=============================================================================
