--------------------------- MODULE TypedLaunches ---------------------------
(***************************************************************************)
(* Scheduler with what makes a shell call execute() or halt(): a line      *)
(* typed at its terminal.  A shell that nobody has typed for waits in      *)
(* terminal_read(), the one on a terminal never displayed for ever.        *)
(***************************************************************************)
EXTENDS Scheduler

VARIABLE typed  \* terminals with a line that their shell has not taken yet

typedVars == <<vars, typed>>

TypedInit == Init /\ typed = {}

(* Enter: lines go to the terminal on the display. *)
TypeLine ==
    /\ cpu # LOST
    /\ typed' = typed \cup {terminal_id}
    /\ UNCHANGED vars

(* The shell takes its line and starts the program it names, or exits. *)
ShellTakesLine ==
    /\ current_terminal_id \in typed
    /\ typed' = typed \ {current_terminal_id}
    /\ Execute \/ HaltRoot

OtherSteps ==
    /\ BootExecute \/ HaltChild \/ Tick \/ SwitchTerminal
    /\ UNCHANGED typed

TypedNext == TypeLine \/ ShellTakesLine \/ OtherSteps

TypedSpec == TypedInit /\ [][TypedNext]_typedVars
=============================================================================
