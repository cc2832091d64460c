--------------------------- MODULE ClientRequests ---------------------------
(***************************************************************************)
(* What a client is promised about what it asks of the server: commands    *)
(* are received in the order they were given, none left out and none       *)
(* twice, and carried out when they are received, but for game commands    *)
(* that the server ignores from a client that moves already; a move (a     *)
(* usercmd_t) may be left out, but is carried out at most once, in order,  *)
(* and only after every command given before it was received ("is          *)
(* guaranteed to not have future usercmd_t executed before it is           *)
(* executed", cl_main.c:99).                                               *)
(*                                                                         *)
(* Only leaving may be brought forward: the disconnect given last may be   *)
(* received before the commands in front of it, which then never are.      *)
(***************************************************************************)
EXTENDS Integers, SequencesExt

CONSTANT Command    \* each has a kind

VARIABLES
    issued,     \* the commands given
    moves,      \* for each move made, how many commands were given before it
    received,   \* the commands received
    ignored,    \* which of them, as indices, were not carried out
    moved       \* the moves carried out, as indices of moves

vars == <<issued, moves, received, ignored, moved>>

Gone == received # << >> /\ received[Len(received)].kind = "disconnect"
Increasing(s) == \A i, j \in 1 .. Len(s) : i < j => s[i] < s[j]

Init ==
    /\ issued = << >>
    /\ moves = << >>
    /\ received = << >>
    /\ ignored = {}
    /\ moved = << >>

Give ==
    /\ \E c \in Command : issued' = Append(issued, c)
    /\ UNCHANGED <<moves, received, ignored, moved>>

Make ==
    /\ moves' = Append(moves, Len(issued))
    /\ UNCHANGED <<issued, received, ignored, moved>>

\* Commands and then moves, as many as one message holds.
CarryOut ==
    /\ ~Gone
    /\ \E n \in Len(received) .. Len(issued) :
          /\ received' = received \o SubSeq(issued, Len(received) + 1, n)
          /\ ignored \subseteq ignored'
          /\ \A k \in ignored' \ ignored :
                /\ k \in Len(received) + 1 .. n
                /\ issued[k].kind = "game"
                /\ moved # << >>
          /\ moved' \in Seq(1 .. Len(moves))
          /\ IsPrefix(moved, moved') /\ Increasing(moved')
          /\ \A i \in Len(moved) + 1 .. Len(moved') : moves[moved'[i]] <= n
    /\ UNCHANGED <<issued, moves>>

LeaveEarly ==
    /\ ~Gone
    /\ issued # << >> /\ Last(issued).kind = "disconnect"
    /\ Len(received) < Len(issued)
    /\ received' = Append(received, Last(issued))
    /\ UNCHANGED <<issued, moves, ignored, moved>>

Next == Give \/ Make \/ CarryOut \/ LeaveEarly

Spec == Init /\ [][Next]_vars
=============================================================================
