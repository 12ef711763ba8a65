------------------------ MODULE SchedulerRefinement ------------------------
(* The scheduler implements TerminalStacks: the stack of a terminal is the *)
(* chain of parents, in the PCBs, of the process terminal_process_info     *)
(* names for it.                                                           *)
EXTENDS Scheduler, Sequences

(* The ancestors of p, oldest first, p last; n bounds the walk. *)
ChainTo[n \in 0 .. NSlots] ==
    [p \in PcbIndex |->
        IF p = UNUSED \/ n = 0 THEN <<>>
        ELSE Append(ChainTo[n - 1][parent[p]], p)]

StackOf == [t \in Terminals |-> ChainTo[NSlots][terminal_process_info[t]]]

Stacks == INSTANCE TerminalStacks
    WITH Processes <- Slots, stack <- StackOf, running <- current_terminal_id

(* The kernel does what the abstract stacks do, step for step: a launch    *)
(* pushes on the caller's terminal a slot no stack uses, an exit returns   *)
(* to the launcher, and no terminal is left out of the round.              *)
ImplementsStacks == Stacks!Spec
=============================================================================
