--------------------------- MODULE CommandStream ---------------------------
(***************************************************************************)
(* What the command buffer promises: the lines given to it are run one by  *)
(* one in the order they stand, new ones behind the others, those of a     *)
(* script before all others, and none while frames are being waited for.   *)
(* Text is lost, or runs into the line before it, only when that is        *)
(* reported; an error drops all the lines there are, never some of them.   *)
(* Only a command makes frames be waited for, and they pass while none is  *)
(* being run.                                                              *)
(***************************************************************************)
EXTENDS Naturals, Sequences

CONSTANT Command    \* what a line is made of

VARIABLES
    pending,    \* the lines still to be run
    open,       \* the last of them was left without its end
    waiting,    \* frames to wait
    running,    \* a command is being run
    ran,        \* the line that the last step began to run, or the empty one
    reported,   \* overflows reported by the last step
    failed      \* the last step was an error

vars == <<pending, open, waiting, running, ran, reported, failed>>

Init ==
    /\ pending = <<>>
    /\ open = FALSE
    /\ waiting = 0
    /\ running = FALSE
    /\ ran = <<>>
    /\ reported = 0
    /\ failed = FALSE

Lengthened(c) ==
    IF open
    THEN [pending EXCEPT ![Len(pending)] = Append(@, c)]
    ELSE Append(pending, <<c>>)

Give(c) ==
    /\ pending' = Lengthened(c)
    /\ reported' = IF open' THEN 1 ELSE 0
    /\ ran' = <<>> /\ failed' = FALSE
    /\ UNCHANGED <<waiting, running>>

Lose ==
    /\ reported' > 0
    /\ open' => open
    /\ ran' = <<>> /\ failed' = FALSE
    /\ UNCHANGED <<pending, waiting, running>>

Insert(lines) ==
    /\ pending' = lines \o pending
    /\ ran' = <<>> /\ reported' = 0 /\ failed' = FALSE
    /\ UNCHANGED <<open, waiting, running>>

Run ==
    /\ pending # <<>>
    /\ ~running
    /\ waiting = 0
    /\ ran' = Head(pending)
    /\ pending' = Tail(pending)
    /\ open' = (open /\ Len(pending) > 1)
    /\ running' = TRUE
    /\ reported' = 0 /\ failed' = FALSE
    /\ UNCHANGED waiting

\* Commands are called and return; a call may end the wait.
Proceed ==
    /\ waiting' \in {0, waiting}
    /\ running' \in BOOLEAN
    /\ ran' = <<>> /\ reported' = 0 /\ failed' = FALSE
    /\ UNCHANGED <<pending, open>>

Wait ==
    /\ running
    /\ waiting' \in Nat
    /\ ran' = <<>> /\ reported' = 0 /\ failed' = FALSE
    /\ UNCHANGED <<pending, open, running>>

FrameEnds ==
    /\ waiting > 0
    /\ ~running
    /\ waiting' = waiting - 1
    /\ ran' = <<>> /\ reported' = 0 /\ failed' = FALSE
    /\ UNCHANGED <<pending, open, running>>

Fail ==
    /\ pending' = <<>>
    /\ open' = FALSE
    /\ running' = FALSE
    /\ ran' = <<>> /\ reported' = 0 /\ failed' = TRUE
    /\ UNCHANGED waiting

Next ==
    \/ \E c \in Command : Give(c)
    \/ Lose
    \/ \E a, b \in Command : Insert(<<<<a>>, <<b>>>>)
    \/ Run
    \/ Proceed
    \/ Wait
    \/ FrameEnds
    \/ Fail

Spec == Init /\ [][Next]_vars
=============================================================================
