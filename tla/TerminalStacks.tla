--------------------------- MODULE TerminalStacks ---------------------------
(***************************************************************************)
(* What execute, halt and the scheduler promise, without their mechanism:  *)
(* each terminal has a stack of processes, a program goes on top of the    *)
(* stack of the terminal it was called from, its exit returns to the one   *)
(* below, the shell at the bottom is replaced when it exits, and the       *)
(* processor goes round the terminals.                                     *)
(***************************************************************************)
EXTENDS Integers, Sequences, SequencesExt

CONSTANTS NTerminals, Processes

Terminals == 0 .. NTerminals - 1
Nobody == -1

VARIABLES stack,     \* terminal -> its processes, the running one last
          running    \* the terminal that has the processor

Init ==
    /\ stack = [t \in Terminals |-> <<>>]
    /\ running = Nobody

Used == UNION {ToSet(stack[t]) : t \in Terminals}

StartShell ==
    LET t == (running + 1) % NTerminals IN
    /\ stack[t] = <<>>
    /\ \E p \in Processes \ Used : stack' = [stack EXCEPT ![t] = <<p>>]
    /\ running' = t

Switch ==
    LET t == (running + 1) % NTerminals IN
    /\ stack[t] # <<>>
    /\ running' = t
    /\ UNCHANGED stack

Launch ==
    /\ running # Nobody
    /\ \E p \in Processes \ Used : stack' = [stack EXCEPT ![running] = Append(@, p)]
    /\ UNCHANGED running

Exit ==
    /\ running # Nobody
    /\ Len(stack[running]) > 1
    /\ stack' = [stack EXCEPT ![running] = Front(@)]
    /\ UNCHANGED running

(* The new shell may or may not get the slot of the old one. *)
Respawn ==
    /\ running # Nobody
    /\ Len(stack[running]) = 1
    /\ \E p \in (Processes \ Used) \cup ToSet(stack[running]) :
         stack' = [stack EXCEPT ![running] = <<p>>]
    /\ UNCHANGED running

Next == StartShell \/ Switch \/ Launch \/ Exit \/ Respawn

vars == <<stack, running>>

(* What a step may never do, and that the round of the terminals goes on.  *)
Safely == Init /\ [][Next]_vars
Spec == Safely /\ WF_vars(StartShell \/ Switch)
=============================================================================
