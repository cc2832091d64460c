---------------------------- MODULE LossyChannel ----------------------------
(***************************************************************************)
(* What a netchan promises the code above it: the messages handed to it    *)
(* come out whole, in the order they were handed in, each at most once;    *)
(* any of them may be missing.                                             *)
(***************************************************************************)
EXTENDS Integers, Sequences

CONSTANT Lengths   \* the lengths a message can have

VARIABLES
    accepted,   \* the messages handed to the channel
    delivered   \* the messages the channel handed to the other side

LastId == IF delivered = << >> THEN 0 ELSE delivered[Len(delivered)].id

Init ==
    /\ accepted = << >>
    /\ delivered = << >>

Accept ==
    \E len \in Lengths :
        /\ accepted' = Append(accepted, [id |-> Len(accepted) + 1, length |-> len])
        /\ UNCHANGED delivered

Deliver ==
    \E i \in 1 .. Len(accepted) :
        /\ i > LastId
        /\ delivered' = Append(delivered, accepted[i])
        /\ UNCHANGED accepted

Next == Accept \/ Deliver

Spec == Init /\ [][Next]_<<accepted, delivered>>
=============================================================================
