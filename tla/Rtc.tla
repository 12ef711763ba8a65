-------------------------------- MODULE Rtc --------------------------------
(***************************************************************************)
(* The real time clock as a file (rtc.c): programs on several terminals    *)
(* open, read and close it.  rtc_read() runs with interrupts on and waits  *)
(* on busy_rtc, of which there is one; everything else runs with           *)
(* interrupts off.  The rate of the clock is left out.                     *)
(***************************************************************************)
EXTENDS I8259

CONSTANTS
    Programs,  \* one on each terminal
    MaxOpen    \* descriptors a program may open: MAX_FILE_NUM - MIN_FD_NUM in the code

ASSUME MaxOpenAssumption == MaxOpen \in Nat \ {0}

RTC_IRQ == 40    \* 0x28: what rtc.c passes, a vector instead of a line
TIMER == 0
KEYBOARD == 1
CLOCK == 8
MOUSE == 12

VARIABLES
    busy_rtc,
    pc,        \* program -> "user" or "wait"
    opened,    \* program -> how many of its descriptors are of the clock
    heard,     \* history: programs that have opened the clock since its last close()
    ticked     \* history: waiting programs that the clock has interrupted since their call

vars == <<masks, busy_rtc, pc, opened, heard, ticked>>

TypeOK ==
    /\ master_mask \subseteq Lines
    /\ slave_mask \subseteq Lines
    /\ busy_rtc \in {0, 1}
    /\ pc \in [Programs -> {"user", "wait"}]
    /\ opened \in [Programs -> 0 .. MaxOpen]
    /\ heard \subseteq Programs
    /\ ticked \subseteq Programs

(* entry(): all masked by i8259_init(), then rtc_initialization() and the  *)
(* four lines of the kernel.                                               *)
Booted == Enabled(Enabled(Enabled(Enabled(Enabled(AllMasked, RTC_IRQ), CLOCK), KEYBOARD), TIMER), MOUSE)

Init ==
    /\ master_mask = Booted.master
    /\ slave_mask = Booted.slave
    /\ busy_rtc = 0
    /\ pc = [p \in Programs |-> "user"]
    /\ opened = [p \in Programs |-> 0]
    /\ heard = {}
    /\ ticked = {}

-----------------------------------------------------------------------------
(* open() with a descriptor left; rtc_open() is rtc_initialization().      *)
Open(p) ==
    /\ pc[p] = "user"
    /\ opened[p] < MaxOpen
    /\ SetMasks(Enabled(Masks, RTC_IRQ))
    /\ opened' = [opened EXCEPT ![p] = @ + 1]
    /\ heard' = heard \cup {p}
    /\ UNCHANGED <<busy_rtc, pc, ticked>>

(* close() of one descriptor: rtc_close() shuts the line for all of them,  *)
(* those the same program still has included.                              *)
Close(p) ==
    /\ pc[p] = "user"
    /\ opened[p] > 0
    /\ SetMasks(Disabled(Masks, RTC_IRQ))
    /\ opened' = [opened EXCEPT ![p] = @ - 1]
    /\ heard' = {}
    /\ UNCHANGED <<busy_rtc, pc, ticked>>

Halt_Closing(p) ==
    /\ pc[p] = "user"
    /\ opened' = [opened EXCEPT ![p] = 0]
    /\ heard' = heard \ {p}
    /\ IF opened[p] > 0 THEN SetMasks(Disabled(Masks, RTC_IRQ)) ELSE UNCHANGED masks
    /\ UNCHANGED <<busy_rtc, pc, ticked>>

(* halt() drops the descriptors and leaves the clock as it is. *)
Halt(p) ==
    /\ pc[p] = "user"
    /\ opened' = [opened EXCEPT ![p] = 0]
    /\ heard' = heard \ {p}
    /\ UNCHANGED <<masks, busy_rtc, pc, ticked>>

(* rtc_read() sets the flag... *)
Armed_NotSet == busy_rtc

Armed == 1

Read(p) ==
    /\ pc[p] = "user"
    /\ opened[p] > 0
    /\ busy_rtc' = Armed
    /\ pc' = [pc EXCEPT ![p] = "wait"]
    /\ UNCHANGED <<masks, opened, heard, ticked>>

(* ... and returns when it finds it cleared. *)
Return(p) ==
    /\ pc[p] = "wait"
    /\ busy_rtc = 0
    /\ pc' = [pc EXCEPT ![p] = "user"]
    /\ ticked' = ticked \ {p}
    /\ UNCHANGED <<masks, busy_rtc, opened, heard>>

(* rtc_handler(). *)
Cleared_Lost == busy_rtc

Cleared == 0

Interrupt ==
    /\ Passes(CLOCK)
    /\ busy_rtc' = Cleared
    /\ ticked' = {p \in Programs : pc[p] = "wait"}
    /\ UNCHANGED <<masks, pc, opened, heard>>

Next ==
    \/ Interrupt
    \/ \E p \in Programs : Open(p) \/ Close(p) \/ Halt(p) \/ Read(p) \/ Return(p)

Spec == Init /\ [][Next]_vars

(* The clock interrupts again and again if its line is opened again and    *)
(* again (the controller keeps a request that comes while it is masked),   *)
(* and the scheduler runs the loop of every program that waits.            *)
FairSpec == Spec /\ SF_vars(Interrupt) /\ \A p \in Programs : WF_vars(Return(p))

-----------------------------------------------------------------------------
(* A read of the clock returns after an interrupt that came later than the *)
(* call, though all programs share one flag: whoever sets or finds it      *)
(* cleared, no program takes an old interrupt for a new one.               *)
ReadsWaitForTick ==
    [][\A p \in Programs : pc[p] = "wait" /\ pc'[p] = "user" => p \in ticked]_vars

(* disable_irq() tests the slave's mask before it changes it, so that line *)
(* 2 of the master is not masked while a device of the slave, the mouse,   *)
(* is still to be heard; and the timer and the keyboard are as they were.  *)
OthersHeard == Passes(MOUSE) /\ Passes(TIMER) /\ Passes(KEYBOARD)

(* A program that has the clock open can be interrupted by it, unless the  *)
(* clock has been closed since: enable_irq() and disable_irq() agree on    *)
(* the line whatever line their argument names, and no exit of another     *)
(* program shuts it.  close() of another descriptor does, of another       *)
(* program or of its own: the exception is what rtc_close() does.          *)
OpenIsHeard == heard # {} => Passes(CLOCK)

(* A read waits for ever only while other reads keep returning, which take *)
(* its ticks by setting the flag again before it has seen it cleared, or   *)
(* with the clock closed and not opened again.                             *)
StarvedByOthersOnly ==
    \A p \in Programs : []<>(pc[p] = "user")
        \/ []<><<\E q \in Programs \ {p} : Return(q)>>_vars
        \/ <>[](~Passes(CLOCK))
=============================================================================
