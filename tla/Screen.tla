------------------------------- MODULE Screen -------------------------------
(***************************************************************************)
(* The screens of the terminals (lib.c): every terminal has a page of      *)
(* video memory and a position in it, written by the program that runs on  *)
(* it and by the keys typed while it is on the display.  The keyboard      *)
(* handler and the write system call run with interrupts off.  Attributes  *)
(* and the hardware cursor are left out.                                   *)
(***************************************************************************)
EXTENDS Integers, Sequences

CONSTANTS
    NTerminals,
    NRows,          \* NUMBER_OF_ROWS
    NCols,          \* NUMBER_OF_COLS
    BUFF_SIZE_LIMIT,
    Characters,     \* what may be written, without the line feed
    TidyClear       \* Ctrl-L is pressed only when no line has been begun

Terminals == 0 .. NTerminals - 1
Cells == 0 .. NRows * NCols - 1
Blank == " "

(* The line being typed fits on a page without its last row. *)
ASSUME ScreenAssumption ==
    /\ NTerminals \in Nat \ {0}
    /\ NRows \in Nat \ {0, 1} /\ NCols \in Nat \ {0}
    /\ BUFF_SIZE_LIMIT \in Nat /\ BUFF_SIZE_LIMIT <= (NRows - 1) * NCols
    /\ TidyClear \in BOOLEAN

VARIABLES
    page,                 \* terminal -> what its video memory shows
    screen_x, screen_y,   \* terminal -> the position it writes at
    key_buff_size,        \* terminal -> length of the line being typed
    terminal_id,          \* the terminal on the display
    current_terminal_id   \* the terminal that runs

vars == <<page, screen_x, screen_y, key_buff_size, terminal_id, current_terminal_id>>

TypeOK ==
    /\ page \in [Terminals -> [Cells -> Characters \cup {Blank}]]
    /\ screen_x \in [Terminals -> Int]
    /\ screen_y \in [Terminals -> Int]
    /\ key_buff_size \in [Terminals -> 0 .. BUFF_SIZE_LIMIT]
    /\ terminal_id \in Terminals
    /\ current_terminal_id \in Terminals

BlankPage == [i \in Cells |-> Blank]

(* keybrd_init() and the first tick.  The pages of the other terminals are *)
(* taken to be blank when the kernel starts.                               *)
Init ==
    /\ page = [t \in Terminals |-> BlankPage]
    /\ screen_x = [t \in Terminals |-> 0]
    /\ screen_y = [t \in Terminals |-> 0]
    /\ key_buff_size = [t \in Terminals |-> 0]
    /\ terminal_id = 0
    /\ current_terminal_id = 0

-----------------------------------------------------------------------------
(* A definition whose name ends in _ and a defect is not used by the       *)
(* specification: it is what the next definition would be with that defect *)
(* in the code.                                                            *)

(* A screen: a page with its position. *)
Of(t) == [page |-> page[t], x |-> screen_x[t], y |-> screen_y[t]]

SetScreen(t, s) ==
    /\ page' = [page EXCEPT ![t] = s.page]
    /\ screen_x' = [screen_x EXCEPT ![t] = s.x]
    /\ screen_y' = [screen_y EXCEPT ![t] = s.y]

(* scroll_screen(): each row takes the next one, the last is blanked. *)
Scrolled_NotUp(s) ==
    [s EXCEPT !.page = [i \in Cells |->
                           IF i < (NRows - 1) * NCols THEN s.page[i + NCols] ELSE Blank]]

Scrolled(s) ==
    [s EXCEPT !.page = [i \in Cells |->
                           IF i < (NRows - 1) * NCols THEN s.page[i + NCols] ELSE Blank],
              !.y = @ - 1]

(* print_new_line(). *)
NewLine(s) ==
    LET down == [s EXCEPT !.y = @ + 1]
    IN  IF down.y = NRows THEN Scrolled(down) ELSE down

(* putc() of a line feed. *)
PutFeed_KeepsColumn(s) == NewLine(s)

PutFeed(s) == [NewLine(s) EXCEPT !.x = 0]

(* putc() of another character. *)
PutChar(s, c) ==
    LET at == s.y * NCols + s.x
        put == [s EXCEPT !.page[at] = c, !.x = @ + 1]
        wrapped == IF put.x = NCols THEN NewLine(put) ELSE put
    IN  [wrapped EXCEPT !.x = @ % NCols, !.y = @ % NRows]

(* backspace(): from the start of a row to the end of the one before. *)
Back(s) ==
    LET to == IF s.x = 0 THEN [s EXCEPT !.y = @ - 1, !.x = NCols - 1] ELSE [s EXCEPT !.x = @ - 1]
        at == to.y * NCols + to.x
    IN  [to EXCEPT !.page = [i \in Cells |-> IF i = at THEN Blank ELSE @[i]]]

-----------------------------------------------------------------------------
(* A byte of terminal_write(), by the program that runs. *)
Write ==
    LET t == current_terminal_id IN
    /\ SetScreen(t, PutFeed(Of(t))) \/ \E c \in Characters : SetScreen(t, PutChar(Of(t), c))
    /\ UNCHANGED <<key_buff_size, terminal_id, current_terminal_id>>

(* The keys: a character that still fits in the line, ... *)
HasRoom(t) == key_buff_size[t] < BUFF_SIZE_LIMIT

TypeChar ==
    LET t == terminal_id IN
    /\ HasRoom(t)
    /\ key_buff_size' = [key_buff_size EXCEPT ![t] = @ + 1]
    /\ \E c \in Characters : SetScreen(t, PutChar(Of(t), c))
    /\ UNCHANGED <<terminal_id, current_terminal_id>>

(* ... Backspace when there is a character to take back, ... *)
Backspace ==
    LET t == terminal_id IN
    /\ key_buff_size[t] > 0
    /\ key_buff_size' = [key_buff_size EXCEPT ![t] = @ - 1]
    /\ SetScreen(t, Back(Of(t)))
    /\ UNCHANGED <<terminal_id, current_terminal_id>>

(* ... Enter, ... *)
Enter ==
    LET t == terminal_id IN
    /\ key_buff_size' = [key_buff_size EXCEPT ![t] = 0]
    /\ SetScreen(t, PutFeed(Of(t)))
    /\ UNCHANGED <<terminal_id, current_terminal_id>>

(* ... Ctrl-L: clear() the page, but not the line being typed, ... *)
CtrlL ==
    LET t == terminal_id IN
    /\ TidyClear => key_buff_size[t] = 0
    /\ SetScreen(t, [page |-> BlankPage, x |-> 0, y |-> 0])
    /\ UNCHANGED <<key_buff_size, terminal_id, current_terminal_id>>

(* ... and Alt-F1 to F3: switch_terminal() stores temp and pre_ATTRIB,     *)
(* which are always 0, at place s, which is always 0, of the page it       *)
(* leaves.  A NUL shows as a blank.                                        *)
SwitchTerminal ==
    /\ \E t \in Terminals : terminal_id' = t
    /\ page' = [page EXCEPT ![terminal_id][0] = Blank]
    /\ UNCHANGED <<screen_x, screen_y, key_buff_size, current_terminal_id>>

Tick ==
    /\ current_terminal_id' = (current_terminal_id + 1) % NTerminals
    /\ UNCHANGED <<page, screen_x, screen_y, key_buff_size, terminal_id>>

Next == Write \/ TypeChar \/ Backspace \/ Enter \/ CtrlL \/ SwitchTerminal \/ Tick

Spec == Init /\ [][Next]_vars

-----------------------------------------------------------------------------
(* putc() and backspace() write inside the page of their terminal: what    *)
(* may be taken back has been typed since the page was cleared, and the    *)
(* rows a scroll takes away were not part of the line being typed.         *)
PositionOnPage ==
    \A t \in Terminals :
        /\ screen_x[t] \in 0 .. NCols - 1
        /\ screen_y[t] \in 0 .. NRows - 1
        /\ screen_y[t] * NCols + screen_x[t] >= key_buff_size[t]

(* The rows of a page down to the position, the last one up to it. *)
Shown ==
    [t \in Terminals |->
        [r \in 1 .. screen_y[t] + 1 |->
            [k \in 1 .. (IF r = screen_y[t] + 1 THEN screen_x[t] ELSE NCols) |->
                page[t][(r - 1) * NCols + k - 1]]]]

Text == INSTANCE TerminalText WITH lines <- Shown

(* Every page shows the last lines of the text of its terminal, whoever    *)
(* writes to it and to the others in between.                              *)
ImplementsText == Text!Spec
=============================================================================
