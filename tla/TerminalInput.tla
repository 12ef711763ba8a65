--------------------------- MODULE TerminalInput ---------------------------
(***************************************************************************)
(* The keyboard's line buffers and terminal_read().                        *)
(*                                                                         *)
(* keyboard_handler() runs with interrupts off: a key is one action.       *)
(* read() executes sti() before it calls terminal_read(), so the reader    *)
(* of each terminal is interrupted between any two of its steps by the     *)
(* keyboard and by the timer, which gives the processor to the next        *)
(* terminal.  A step of terminal_read() is one access to a shared global.  *)
(***************************************************************************)
EXTENDS Integers, Sequences, FiniteSets

CONSTANTS
    NTerminals,
    SizeLimit,      \* BUFF_SIZE_LIMIT; the arrays have SizeLimit + 1 columns
    Chars,          \* the characters a user types
    Requests,       \* the nbytes the program of terminal 0 asks for
    OtherRequests,  \* what the programs of the other terminals ask for
    MaxHaste        \* bound: how often the user does not wait for the readers

Terminals == 0 .. NTerminals - 1
Columns == 0 .. SizeLimit
NUL == "\\0"
NL == "\\n"

ASSUME InputAssumption ==
    /\ NTerminals \in Nat \ {0}
    /\ SizeLimit \in Nat \ {0}
    /\ Requests \subseteq Int /\ OtherRequests \subseteq Int
    /\ NUL \notin Chars /\ NL \notin Chars
    /\ MaxHaste \in Nat

VARIABLES
    key_buf, key_buff_size,     \* terminal -> the line being typed
    out_buf,                    \* terminal -> the line handed to readers
    read_ready,                 \* 0 when a line is to be read, in any terminal
    terminal_id,                \* the terminal on the display
    current_terminal_id,        \* the terminal that has the processor
    pc, nbytes, i, buf          \* terminal -> its reader in terminal_read()

\* History variables.
VARIABLES
    entered,    \* terminal -> the line out_buf was given and that was not read
    due,        \* terminal -> that line has not been claimed in vain either
    alone,      \* terminal -> no key and no reader has disturbed its read
    haste       \* how often the user did not wait for the readers

buffers == <<key_buf, key_buff_size, out_buf>>
readers == <<pc, nbytes, i, buf>>
history == <<entered, due, alone, haste>>
vars == <<buffers, read_ready, terminal_id, current_terminal_id, readers, history>>

Symbols == Chars \cup {NUL, NL}
NoLine == <<>>

(* The characters before the first NUL of a buffer. *)
Text(b) ==
    LET ends == {j \in Columns : b[j] = NUL}
        end == IF ends = {} THEN SizeLimit + 1 ELSE CHOOSE j \in ends : \A k \in ends : j <= k
    IN  [j \in 1 .. end |-> b[j - 1]]

TypeOK ==
    /\ key_buf \in [Terminals -> [Columns -> Symbols]]
    /\ key_buff_size \in [Terminals -> 0 .. SizeLimit]
    /\ out_buf \in [Terminals -> [Columns -> Symbols]]
    /\ read_ready \in {0, 1}
    /\ terminal_id \in Terminals
    /\ current_terminal_id \in Terminals
    /\ pc \in [Terminals -> {"user", "ready", "display", "claim", "test", "copy", "finish"}]
    /\ nbytes \in [Terminals -> Requests \cup OtherRequests \cup {0}]
    /\ i \in [Terminals -> 0 .. SizeLimit]
    /\ buf \in [Terminals -> Seq(Symbols)]
    /\ entered \in [Terminals -> Seq(Symbols)]
    /\ due \in [Terminals -> BOOLEAN]
    /\ alone \in [Terminals -> BOOLEAN]
    /\ haste \in 0 .. MaxHaste

Init ==
    /\ key_buf = [t \in Terminals |-> [c \in Columns |-> NUL]]
    /\ key_buff_size = [t \in Terminals |-> 0]
    /\ out_buf = [t \in Terminals |-> [c \in Columns |-> NUL]]
    /\ read_ready = 1
    /\ terminal_id = 0
    /\ current_terminal_id = 0
    /\ pc = [t \in Terminals |-> "user"]
    /\ nbytes = [t \in Terminals |-> 0]
    /\ i = [t \in Terminals |-> 0]
    /\ buf = [t \in Terminals |-> <<>>]
    /\ entered = [t \in Terminals |-> NoLine]
    /\ due = [t \in Terminals |-> FALSE]
    /\ alone = [t \in Terminals |-> FALSE]
    /\ haste = 0

-----------------------------------------------------------------------------
(* A definition whose name ends in _ and a defect is not used by the       *)
(* specification: it is what the next definition would be with that defect *)
(* in the code.  The properties are tested against these.                  *)

\* The keyboard.
d == terminal_id

(* A reader that has left its waiting loop.                                *)
Reading(t) == pc[t] \in {"claim", "test", "copy", "finish"}
Copying(t) == pc[t] \in {"test", "copy", "finish"}

(* No line is due and no reader is beyond the first test of its loop.  It  *)
(* is haste to press Enter, or to leave the terminal, before; when         *)
(* everything is settled again, it is forgotten.                           *)
Settled ==
    /\ read_ready = 1
    /\ \A t \in Terminals : ~due[t] /\ pc[t] \in {"user", "ready"}

MovesOn ==
    /\ Settled \/ haste < MaxHaste
    /\ haste' = IF Settled' THEN 0 ELSE IF Settled THEN haste ELSE haste + 1

GoesOn == haste' = IF Settled' THEN 0 ELSE haste

TypeChar(c) ==
    /\ key_buff_size[d] # SizeLimit
    /\ key_buf' = [key_buf EXCEPT ![d][key_buff_size[d]] = c]
    /\ key_buff_size' = [key_buff_size EXCEPT ![d] = @ + 1]
    /\ UNCHANGED <<out_buf, read_ready, terminal_id, current_terminal_id, readers, history>>

Backspace_NotCleared ==
    /\ key_buff_size[d] > 0
    /\ key_buff_size' = [key_buff_size EXCEPT ![d] = @ - 1]
    /\ UNCHANGED <<key_buf, out_buf, read_ready, terminal_id, current_terminal_id,
                   readers, history>>

Backspace ==
    /\ key_buff_size[d] > 0
    /\ key_buff_size' = [key_buff_size EXCEPT ![d] = @ - 1]
    /\ key_buf' = [key_buf EXCEPT ![d][key_buff_size[d] - 1] = NUL]
    /\ UNCHANGED <<out_buf, read_ready, terminal_id, current_terminal_id, readers, history>>

(* The last column Enter moves to out_buf when n characters were typed. *)
LastMoved(n) == IF n < SizeLimit THEN n + 1 ELSE n

(* What Enter leaves in read_ready: the read signal. *)
Signal_NotSent == read_ready

Signal == 0

(* Enter ends the line, moves it to out_buf and signals the readers. *)
Enter ==
    LET n == key_buff_size[d]
        size == LastMoved(n)
        line == IF n < SizeLimit
                THEN [key_buf[d] EXCEPT ![n] = NL, ![n + 1] = NUL]
                ELSE [key_buf[d] EXCEPT ![n] = NUL]
    IN
    /\ out_buf' = [out_buf EXCEPT ![d] = [c \in Columns |-> IF c <= size THEN line[c] ELSE @[c]]]
    /\ key_buf' = [key_buf EXCEPT ![d] = [c \in Columns |-> IF c <= size THEN NUL ELSE line[c]]]
    /\ key_buff_size' = [key_buff_size EXCEPT ![d] = 0]
    /\ read_ready' = Signal
    /\ entered' = [entered EXCEPT ![d] = Text(line)]
    /\ due' = [due EXCEPT ![d] = TRUE]
    /\ alone' = [t \in Terminals |-> alone[t] /\ ~Copying(t)]
    /\ UNCHANGED <<terminal_id, current_terminal_id, readers>>
    /\ MovesOn

(* Alt-F1..F3: switch_terminal(). *)
SwitchTerminal ==
    /\ \E t \in Terminals \ {d} : terminal_id' = t
    /\ alone' = [t \in Terminals |-> FALSE]
    /\ UNCHANGED <<buffers, read_ready, current_terminal_id, readers, entered, due>>
    /\ MovesOn

Key == (\E c \in Chars : TypeChar(c)) \/ Backspace \/ Enter \/ SwitchTerminal

(* The timer: schedule_handler(). *)
Tick ==
    /\ current_terminal_id' = (current_terminal_id + 1) % NTerminals
    /\ current_terminal_id' # current_terminal_id
    /\ UNCHANGED <<buffers, read_ready, terminal_id, readers, history>>

-----------------------------------------------------------------------------
\* The reader of terminal t.
GoTo(t, label) == pc' = [pc EXCEPT ![t] = label]

At(t, label) == current_terminal_id = t /\ pc[t] = label

RequestsOf(t) == IF t = 0 THEN Requests ELSE OtherRequests

(* read(0, buf, n) *)
Call(t) ==
    /\ At(t, "user")
    /\ \E n \in RequestsOf(t) : nbytes' = [nbytes EXCEPT ![t] = n]
    /\ GoTo(t, "ready")
    /\ UNCHANGED <<buffers, read_ready, terminal_id, current_terminal_id, i, buf, history>>

(* while (read_ready || terminal_id != current_terminal_id): two loads. *)
LoadReady_Always(t) ==
    /\ At(t, "ready")
    /\ GoTo(t, "display")
    /\ UNCHANGED <<buffers, read_ready, terminal_id, current_terminal_id,
                   nbytes, i, buf, history>>

LoadReady(t) ==
    /\ At(t, "ready")
    /\ read_ready = 0
    /\ GoTo(t, "display")
    /\ UNCHANGED <<buffers, read_ready, terminal_id, current_terminal_id,
                   nbytes, i, buf, history>>

LoadDisplay_Any(t) ==
    /\ At(t, "display")
    /\ GoTo(t, "claim")
    /\ alone' = [alone EXCEPT ![t] = \A u \in Terminals \ {t} : ~Reading(u)]
    /\ UNCHANGED <<buffers, read_ready, terminal_id, current_terminal_id,
                   nbytes, i, buf, entered, due>>
    /\ GoesOn

LoadDisplay(t) ==
    /\ At(t, "display")
    /\ GoTo(t, IF terminal_id = current_terminal_id THEN "claim" ELSE "ready")
    /\ alone' = [alone EXCEPT ![t] = \A u \in Terminals \ {t} : ~Reading(u)]
    /\ UNCHANGED <<buffers, read_ready, terminal_id, current_terminal_id,
                   nbytes, i, buf, entered, due>>
    /\ GoesOn

(* A read is over: its variables are gone. *)
Return(t) ==
    /\ GoTo(t, "user")
    /\ nbytes' = [nbytes EXCEPT ![t] = 0]
    /\ i' = [i EXCEPT ![t] = 0]
    /\ buf' = [buf EXCEPT ![t] = <<>>]
    /\ due' = [due EXCEPT ![d] = FALSE]
    /\ alone' = [alone EXCEPT ![t] = FALSE]

(* read_ready = 1, and the return of 0 when nothing is asked for. *)
Claim(t) ==
    /\ At(t, "claim")
    /\ read_ready' = 1
    /\ \/ nbytes[t] <= 0 /\ Return(t)
       \/ nbytes[t] > 0 /\ GoTo(t, "test") /\ UNCHANGED <<nbytes, i, buf, due, alone>>
    /\ UNCHANGED <<buffers, terminal_id, current_terminal_id, entered>>
    /\ GoesOn

(* The condition of the copy loop... *)
Test(t) ==
    /\ At(t, "test")
    /\ GoTo(t, IF i[t] < nbytes[t] /\ out_buf[d][i[t]] # NUL /\ i[t] < SizeLimit
               THEN "copy" ELSE "finish")
    /\ UNCHANGED <<buffers, read_ready, terminal_id, current_terminal_id,
                   nbytes, i, buf, history>>

(* ... and its body: out_buf and the display are read anew. *)
Copy(t) ==
    /\ At(t, "copy")
    /\ buf' = [buf EXCEPT ![t] = Append(@, out_buf[d][i[t]])]
    /\ i' = [i EXCEPT ![t] = @ + 1]
    /\ GoTo(t, "test")
    /\ UNCHANGED <<buffers, read_ready, terminal_id, current_terminal_id,
                   nbytes, history>>

(* out_buf[0][terminal_id] = 0; buf[i] = NUL; return i: a NUL behind the i *)
(* bytes of buf.                                                           *)
Finish(t) ==
    /\ At(t, "finish")
    /\ out_buf' = [out_buf EXCEPT ![d][0] = NUL]
    /\ Return(t)
    /\ entered' = [entered EXCEPT ![d] = NoLine]
    /\ UNCHANGED <<key_buf, key_buff_size, read_ready, terminal_id, current_terminal_id>>
    /\ GoesOn

Reader(t) ==
    LoadReady(t) \/ LoadDisplay(t) \/ Claim(t) \/ Test(t) \/ Copy(t) \/ Finish(t)

Next == Key \/ Tick \/ \E t \in Terminals : Call(t) \/ Reader(t)

Spec == Init /\ [][Next]_vars

(* The timer goes on for ever, and between two ticks a program executes    *)
(* far more instructions than a step of terminal_read() has: a reader that *)
(* has the processor again and again takes its next step.                  *)
FairSpec ==
    /\ Spec
    /\ WF_vars(Tick)
    /\ \A t \in Terminals : SF_vars(Reader(t))

-----------------------------------------------------------------------------
(* The scan of terminal_read() ends inside the arrays: every out_buf holds *)
(* a NUL, and what is typed so far is followed by NULs only.               *)
BuffersTerminated ==
    \A t \in Terminals :
        /\ \E c \in Columns : out_buf[t][c] = NUL
        /\ \A c \in key_buff_size[t] .. SizeLimit : key_buf[t][c] = NUL

Returns(t) == pc[t] # "user" /\ pc'[t] = "user"
Asked(t) == SubSeq(entered[t], 1, IF nbytes[t] < Len(entered[t]) THEN nbytes[t] ELSE Len(entered[t]))

(* Whatever the user does: what a read returns is the line entered at the  *)
(* reader's own terminal, from its start, in one piece and cut to the      *)
(* request, or nothing when none is there.  Excepted are the reads that    *)
(* terminal.c:26 spoils: a switch comes after the reader has left its      *)
(* loop, an Enter while it copies, or the reader of another terminal is    *)
(* still past its loop and will clear a line that is not its own.          *)
WholeLines == [][\A t \in Terminals : Returns(t) /\ alone[t] => buf[t] = Asked(t)]_vars

(* A read that asks for something returns only when a line is due at its   *)
(* terminal: the loop "while readable and displaying index is the same as  *)
(* current_terminal_id, go ahead" (terminal.c).                            *)
Awaited(t) == Returns(t) /\ nbytes[t] > 0 => due[t]

(* So it is as long as the user waits for the readers.  The flag is one    *)
(* for all terminals: when the user does not wait, the reader of another   *)
(* terminal can take the signal (ReadsAlwaysWait).                         *)
ReadsWaitForALine == [][haste = 0 => \A t \in Terminals : Awaited(t)]_vars

(* A line entered at a terminal whose program is reading is read, as long  *)
(* as the terminal stays on the display and the user waits; or a read that *)
(* asks for nothing takes its signal, and the line is lost                 *)
(* (terminal.c:22-25).                                                     *)
LinesGetRead ==
    \A t \in Terminals :
        (due[t] /\ haste = 0 /\ terminal_id = t /\ pc[t] # "user")
            ~> (~due[t] \/ haste > 0 \/ terminal_id # t)

(* What the comments at terminal.c:21 and keyboard_handler.c:253 say,      *)
(* without regard to the user.                                             *)
ReadsAlwaysWait == [][\A t \in Terminals : Awaited(t)]_vars
LinesAlwaysRead ==
    \A t \in Terminals :
        (due[t] /\ terminal_id = t /\ pc[t] # "user") ~> (~due[t] \/ terminal_id # t)

(* terminal_read() stores within the nbytes of the caller's buffer. *)
BufferFits == [][\A t \in Terminals : Copy(t) \/ Finish(t) => i[t] < nbytes[t]]_vars
=============================================================================
