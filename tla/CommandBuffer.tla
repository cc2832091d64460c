--------------------------- MODULE CommandBuffer ---------------------------
(***************************************************************************)
(* The command buffer and the frame it is run in: Com_Frame takes events,  *)
(* runs the buffer, runs the server, takes events, runs the buffer again   *)
(* and runs the client.  Console lines are added in two pieces, the text   *)
(* and its newline, either of which may not fit; scripts are inserted      *)
(* before everything else.  A command may wait, add, insert, run another   *)
(* command or the buffer itself within it, or end the frame with an error, *)
(* which empties the buffer.                                               *)
(*                                                                         *)
(* Text is a sequence of commands and newlines; a command is the number of *)
(* its bytes, and a newline is 0 and takes one byte.  Quotes, comments and *)
(* the cut at MAX_CMD_LINE are left out: no command contains a separator.  *)
(* What a command does is chosen while it runs.                            *)
(***************************************************************************)
EXTENDS Integers, Sequences

CONSTANTS
    MAX_CMD_BUFFER,
    Command,        \* lengths of commands
    MaxWait,        \* bound: the longest wait
    MaxCalls        \* bound: the depth of calls within calls

ASSUME CommandBufferAssumption ==
    /\ MAX_CMD_BUFFER \in Nat \ {0}
    /\ Command \subseteq Nat \ {0}
    /\ MaxWait \in Nat
    /\ MaxCalls \in Nat

VARIABLES
    cmd_text,   \* the bytes of the buffer in use
    cmd_wait,
    phase,      \* where Com_Frame is
    calls,      \* Cbuf_Executes and commands within each other, the innermost first
    ran,        \* the line of the buffer that the last step began to run (output)
    reported,   \* overflows reported by the last step (output)
    failed      \* the last step was an error (output)

vars == <<cmd_text, cmd_wait, phase, calls, ran, reported, failed>>

Phases == <<"events", "execute", "server", "events", "execute", "client">>

Newline == 0

-----------------------------------------------------------------------------
(***************************************************************************)
(* Cbuf_AddText and Cbuf_InsertText.                                       *)
(***************************************************************************)
Bytes(c) == IF c = Newline THEN 1 ELSE c

\* The size of every beginning of text, by its length.
SizeTo(text) ==
    LET size[i \in 0 .. Len(text)] == IF i = 0 THEN 0 ELSE size[i - 1] + Bytes(text[i])
    IN  size

Size(text) == SizeTo(text)[Len(text)]

Fits(text, added) == Size(text) + Size(added) < MAX_CMD_BUFFER

Cbuf_AddText(text, added) == IF Fits(text, added) THEN text \o added ELSE text

\* Mutant: the newline that is added has no room of its own.
FitsBeforeBare(text, added) == Size(text) + Size(added) <= MAX_CMD_BUFFER

FitsBefore(text, added) == Size(text) + Size(added) + 1 <= MAX_CMD_BUFFER

\* Mutant: the last line of the script has no newline.
InsertBare(text, added) == IF FitsBefore(text, added) THEN added \o text ELSE text

Cbuf_InsertText(text, added) ==
    IF FitsBefore(text, added) THEN added \o <<Newline>> \o text ELSE text

(***************************************************************************)
(* The first line, and what is left when it and the separators behind it   *)
(* have been taken out of the buffer.                                      *)
(***************************************************************************)
FirstLine(text) ==
    LET ends == {i \in 1 .. Len(text) : text[i] = Newline}
    IN  IF ends = {} THEN text
        ELSE SubSeq(text, 1, (CHOOSE i \in ends : \A j \in ends : i <= j) - 1)

Remaining(text) ==
    LET after == {i \in Len(FirstLine(text)) + 1 .. Len(text) : text[i] # Newline}
    IN  IF after = {} THEN <<>>
        ELSE SubSeq(text, CHOOSE i \in after : \A j \in after : i <= j, Len(text))

-----------------------------------------------------------------------------
Init ==
    /\ cmd_text = <<>>
    /\ cmd_wait = 0
    /\ phase = 1
    /\ calls = <<>>
    /\ ran = <<>>
    /\ reported = 0
    /\ failed = FALSE

Output(text, overflows, error) == ran' = text /\ reported' = overflows /\ failed' = error

Quiet == Output(<<>>, 0, FALSE)

(***************************************************************************)
(* The call of a Cbuf_Execute or of a command.                             *)
(***************************************************************************)
Call(c) == <<c>> \o calls

\* A command is being run, and nothing else within it.
InCommand == calls # <<>> /\ Head(calls) = "command"

\* A command, or a part of the frame other than Cbuf_Execute, may call.
MayCall == InCommand \/ (calls = <<>> /\ Phases[phase] # "execute")

(***************************************************************************)
(* Com_EventLoop, for a console line (and Key_ParseBinding, for a key):    *)
(* the text and its newline are added one after the other.                 *)
(***************************************************************************)
ConsoleEvent(c) ==
    LET typed == Cbuf_AddText(cmd_text, <<c>>)
    IN  /\ Phases[phase] = "events"
        /\ calls = <<>>
        /\ cmd_text' = Cbuf_AddText(typed, <<Newline>>)
        /\ Output(<<>>, (IF Fits(cmd_text, <<c>>) THEN 0 ELSE 1)
                        + (IF Fits(typed, <<Newline>>) THEN 0 ELSE 1), FALSE)
        /\ UNCHANGED <<cmd_wait, phase, calls>>

(***************************************************************************)
(* What the game, the client or a command may call: a whole line is added  *)
(* (Cbuf_AddText); a script of two lines is inserted (Cmd_Exec_f).         *)
(***************************************************************************)
AddLine(c) ==
    /\ MayCall
    /\ cmd_text' = Cbuf_AddText(cmd_text, <<c, Newline>>)
    /\ Output(<<>>, IF Fits(cmd_text, <<c, Newline>>) THEN 0 ELSE 1, FALSE)
    /\ UNCHANGED <<cmd_wait, phase, calls>>

InsertScript(a, b) ==
    LET script == <<a, Newline, b>>
    IN  /\ MayCall
        /\ cmd_text' = Cbuf_InsertText(cmd_text, script)
        /\ Output(<<>>, IF FitsBefore(cmd_text, script) THEN 0 ELSE 1, FALSE)
        /\ UNCHANGED <<cmd_wait, phase, calls>>

(***************************************************************************)
(* A command that is not in the buffer is run at once: by EXEC_NOW, which  *)
(* ends any wait, or without that (rcon, a script's console.cmd).          *)
(***************************************************************************)
ExecuteNow ==
    /\ MayCall
    /\ Len(calls) < MaxCalls
    /\ calls' = Call("command")
    /\ cmd_wait' \in {0, cmd_wait}
    /\ Quiet
    /\ UNCHANGED <<cmd_text, phase>>

(***************************************************************************)
(* The buffer is run within a command: by Cbuf_Execute, as Com_ExecuteCfg  *)
(* does under game_restart, or by EXEC_NOW without text, which ends any    *)
(* wait first.                                                             *)
(***************************************************************************)
ExecuteBuffer ==
    /\ MayCall
    /\ Len(calls) + 1 < MaxCalls
    /\ calls' = Call("execute")
    /\ cmd_wait' \in {0, cmd_wait}
    /\ Quiet
    /\ UNCHANGED <<cmd_text, phase>>

(***************************************************************************)
(* Cbuf_Execute: a line is taken out of the buffer before it is run.       *)
(***************************************************************************)
Cbuf_Execute ==
    LET first == FirstLine(cmd_text)
    IN  /\ calls # <<>> /\ Head(calls) = "execute"
        /\ cmd_wait = 0
        /\ cmd_text # <<>>
        /\ cmd_text' = Remaining(cmd_text)
        /\ calls' = IF first = <<>> THEN calls ELSE Call("command")
        /\ Output(first, 0, FALSE)
        /\ UNCHANGED <<cmd_wait, phase>>

\* It returns when it is called or a command has ended during a wait, or at the end of the text.
ExecuteReturns ==
    /\ calls # <<>> /\ Head(calls) = "execute"
    /\ cmd_wait > 0 \/ cmd_text = <<>>
    /\ calls' = Tail(calls)
    /\ Quiet
    /\ UNCHANGED <<cmd_text, cmd_wait, phase>>

Cmd_Wait_f(n) ==
    /\ InCommand
    /\ cmd_wait' = n
    /\ Quiet
    /\ UNCHANGED <<cmd_text, phase, calls>>

CommandReturns ==
    /\ InCommand
    /\ calls' = Tail(calls)
    /\ Quiet
    /\ UNCHANGED <<cmd_text, cmd_wait, phase>>

(***************************************************************************)
(* Com_Error(ERR_DROP) empties the buffer (Cbuf_Init) and leaves all calls *)
(* and the frame at once: the wait stays, and Cbuf_Wait is not called.     *)
(***************************************************************************)
Com_Error ==
    /\ MayCall
    /\ cmd_text' = <<>>
    /\ phase' = 1
    /\ calls' = <<>>
    /\ Output(<<>>, 0, TRUE)
    /\ UNCHANGED cmd_wait

(***************************************************************************)
(* Com_Frame goes on; at its end Cbuf_Wait counts the frame.               *)
(***************************************************************************)
Com_Frame ==
    /\ calls = <<>>
    /\ phase' = IF phase = Len(Phases) THEN 1 ELSE phase + 1
    /\ calls' = IF Phases[phase'] = "execute" THEN Call("execute") ELSE calls
    /\ cmd_wait' = IF phase = Len(Phases) /\ cmd_wait > 0 THEN cmd_wait - 1 ELSE cmd_wait
    /\ Quiet
    /\ UNCHANGED cmd_text

Next ==
    \/ \E c \in Command : ConsoleEvent(c) \/ AddLine(c)
    \/ \E a, b \in Command : InsertScript(a, b)
    \/ ExecuteNow
    \/ ExecuteBuffer
    \/ Cbuf_Execute
    \/ ExecuteReturns
    \/ \E n \in 0 .. MaxWait : Cmd_Wait_f(n)
    \/ CommandReturns
    \/ Com_Error
    \/ Com_Frame

Spec == Init /\ [][Next]_vars
-----------------------------------------------------------------------------
(***************************************************************************)
(* Type invariant; the text never outgrows the buffer, whatever mix of     *)
(* adding and inserting fills it.                                          *)
(***************************************************************************)
TypeOK ==
    /\ cmd_text \in Seq(Command \cup {Newline})
    /\ Size(cmd_text) <= MAX_CMD_BUFFER
    /\ cmd_wait \in 0 .. MaxWait
    /\ phase \in 1 .. Len(Phases)
    /\ calls \in Seq({"execute", "command"})
    /\ ran \in Seq(Command)
    /\ reported \in 0 .. 2
    /\ failed \in BOOLEAN

(***************************************************************************)
(* The lines of the buffer: runs of commands between newlines.             *)
(***************************************************************************)
Extended(lines, c) == [lines EXCEPT ![Len(lines)] = Append(@, c)]

\* The lines of the first i, where lines are those of the first i - 1.
WithNext(lines, text, i) ==
    IF text[i] = Newline THEN lines
    ELSE IF i > 1 /\ text[i - 1] # Newline THEN Extended(lines, text[i])
    ELSE Append(lines, <<text[i]>>)

LinesTo(text) ==
    LET lines[i \in 0 .. Len(text)] ==
            IF i = 0 THEN <<>> ELSE WithNext(lines[i - 1], text, i)
    IN  lines

LinesOf(text) == LinesTo(text)[Len(text)]

\* The last line has no newline yet.
Unended(text) == text # <<>> /\ text[Len(text)] # Newline

Stream == INSTANCE CommandStream WITH
    pending <- LinesOf(cmd_text),
    open <- Unended(cmd_text),
    waiting <- cmd_wait,
    running <- InCommand

(***************************************************************************)
(* The buffer implements CommandStream: through waits, scripts inserted by *)
(* scripts, the buffer run by its own commands, and overflows, no line is  *)
(* run twice, skipped, out of order, run together with another or run too  *)
(* early, unless an overflow was reported; an error drops all of them.     *)
(***************************************************************************)
ImplementsCommandStream == Stream!Spec
=============================================================================
