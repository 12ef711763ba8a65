---------------------------- MODULE Interrupts -----------------------------
(***************************************************************************)
(* The ways into the kernel and out of it: the wrappers of interrupts      *)
(* (interrupt_wrapper.S), system calls (systemcall_wrapper.S) and          *)
(* exceptions (exception_wrappers.S), with the end-of-interrupt protocol,  *)
(* the interrupt flag, the word save_eax and the bytes of the mouse.  It   *)
(* extends Rtc: the clock's readers run here under the scheduler.          *)
(*                                                                         *)
(* Every gate of the IDT clears the interrupt flag, so nothing but a       *)
(* device runs between the entry and the return of a handler.  The sti of  *)
(* a wrapper takes effect after the iret behind it.                        *)
(***************************************************************************)
EXTENDS Rtc, FiniteSets

CONSTANT Disorder   \* what the devices may do: see DisorderAssumption

(***************************************************************************)
(* "key": a key is pressed while bytes of the mouse are handled.           *)
(* "overflow": the mouse moves too fast for its packet.                    *)
(***************************************************************************)
ASSUME DisorderAssumption == Disorder \subseteq {"key", "overflow"}

NPrograms == Cardinality(Programs)

ASSUME ProgramsAssumption ==
    /\ IsFiniteSet(Programs) /\ NPrograms \in Nat \ {0}
    /\ Programs = 0 .. NPrograms - 1

BOOT == -1       \* the context of entry(), which no tick returns to

None == [stage |-> "none", irq |-> TIMER]

\* behind its send_eoi() a handler does the same whatever the line
Leaving == [stage |-> "leaving", irq |-> TIMER]

VARIABLES
    current_terminal_id,  \* the program the processor runs, or BOOT
    started,              \* programs run_a_new_shell() has started
    at,                   \* program -> where it stands, see TypeOKInterrupts
    gate,                 \* the interrupt being handled
    in_service,           \* lines acknowledged and not yet ended
    requested,            \* lines of the keyboard controller with a request
    port,                 \* the byte in the keyboard controller's buffer
    unsent,               \* bytes of its packet the mouse has still to send
    awaited,              \* bytes mouse_handler() still waits for
    save_eax,             \* whose result the word holds
    stopped,              \* an exception has been taken
    overtaken             \* history: programs preempted with their result in save_eax

bytes == <<requested, port, unsent, awaited>>
flow == <<current_terminal_id, started, at, gate, in_service>>
results == <<save_eax, overtaken>>
allVars == <<vars, flow, bytes, results, stopped>>

(* "call": a system call between the store of its result and the load;     *)
(* "read": in read(), interrupts on; "stored": read() has returned and the *)
(* flags of the caller are not yet popped.                                 *)
TypeOKInterrupts ==
    /\ current_terminal_id \in Programs \cup {BOOT}
    /\ started \subseteq Programs
    /\ at \in [Programs -> {"user", "call", "read", "stored"}]
    /\ gate \in [stage : {"none", "entered", "waiting", "leaving"}, irq : {TIMER, KEYBOARD, CLOCK, MOUSE}]
    /\ in_service \in [master : SUBSET Lines, slave : SUBSET Lines]
    /\ requested \subseteq {KEYBOARD, MOUSE}
    /\ port \in {"empty", "key", "head", "move"}
    /\ unsent \in 0 .. 2
    /\ awaited \in 0 .. 2
    /\ save_eax \in Programs \cup {BOOT}
    /\ stopped \in BOOLEAN
    /\ overtaken \subseteq Programs

InterruptInit ==
    /\ Init
    /\ current_terminal_id = BOOT
    /\ started = {}
    /\ at = [p \in Programs |-> "user"]
    /\ gate = None
    /\ in_service = NothingInService
    /\ requested = {}
    /\ port = "empty"
    /\ unsent = 0
    /\ awaited = 0
    /\ save_eax = BOOT
    /\ stopped = FALSE
    /\ overtaken = {}

-----------------------------------------------------------------------------
(* The interrupt flag.  A wrapper runs with it clear from the entry to the *)
(* sti before its iret; only read() sets it, and it stays set until popfl. *)
InterruptsOn_EarlySti ==
    /\ gate.stage = "none"
    /\ ~stopped

InterruptsOn ==
    /\ gate.stage = "none"
    /\ ~stopped
    /\ current_terminal_id \in Programs => at[current_terminal_id] # "call"

(* p has the processor. *)
Runs(p) == current_terminal_id = p /\ gate.stage = "none" /\ ~stopped

Stands(p, here) == Runs(p) /\ at[p] = here

Goes(p, there) == at' = [at EXCEPT ![p] = there]

-----------------------------------------------------------------------------
(* System calls.  All but read() run with interrupts off: what they do and *)
(* the store of their result are one step.  Those that concern the clock   *)
(* are the actions of Rtc.                                                 *)
Call(p) ==
    /\ Stands(p, "user")
    /\ Open(p) \/ Close(p) \/ Halt(p) \/ UNCHANGED vars
    /\ Goes(p, "call")
    /\ save_eax' = p
    /\ UNCHANGED <<current_terminal_id, started, gate, in_service, bytes, overtaken, stopped>>

(* read() of the clock, or of something that does not wait for it. *)
CallRead(p) ==
    /\ Stands(p, "user")
    /\ Read(p) \/ UNCHANGED vars
    /\ Goes(p, "read")
    /\ UNCHANGED <<current_terminal_id, started, gate, in_service, bytes, results, stopped>>

ClockSeen(p) ==
    /\ Stands(p, "read")
    /\ Return(p)
    /\ UNCHANGED <<flow, bytes, results, stopped>>

(* call *jump returns from read(): movl %eax,save_eax, interrupts still on. *)
ReadReturns(p) ==
    /\ Stands(p, "read")
    /\ pc[p] = "user"
    /\ Goes(p, "stored")
    /\ save_eax' = p
    /\ UNCHANGED <<vars, current_terminal_id, started, gate, in_service, bytes, overtaken, stopped>>

(* popfl, popal, movl save_eax,%eax, sti, iret. *)
Load(p) ==
    /\ Stands(p, "call") \/ Stands(p, "stored")
    /\ Goes(p, "user")
    /\ overtaken' = overtaken \ {p}
    /\ UNCHANGED <<vars, current_terminal_id, started, gate, in_service, bytes, save_eax, stopped>>

(* An exception: each handler clears the screen, prints a name and loops,  *)
(* interrupts off, so that its wrapper never gets to its iret.             *)
HandleException == stopped' = TRUE

Exception(p) ==
    /\ Stands(p, "user")
    /\ HandleException
    /\ UNCHANGED <<vars, flow, bytes, results>>

-----------------------------------------------------------------------------
(* The processor takes an interrupt.  The timer and the clock may interrupt *)
(* at any time; the keyboard controller latches its requests.              *)
Accept(irq) ==
    /\ InterruptsOn
    /\ Passes(irq)
    /\ NotHeldUp(in_service, irq)
    /\ irq \in {KEYBOARD, MOUSE} => irq \in requested
    /\ irq = MOUSE => KEYBOARD \notin requested
    /\ gate' = [stage |-> "entered", irq |-> irq]
    /\ in_service' = Acknowledged(in_service, irq)
    /\ requested' = requested \ {irq}
    /\ UNCHANGED <<vars, current_terminal_id, started, at, port, unsent, awaited, results, stopped>>

Entered(irq) == gate = [stage |-> "entered", irq |-> irq] /\ ~stopped

(* A handler ends its interrupt and leaves. *)
Ends(irq) ==
    /\ in_service' = send_eoi(in_service, irq)
    /\ gate' = Leaving

NextTerminal == (current_terminal_id + 1) % NPrograms

(* What run_a_new_shell() leaves in service: its execute() does not return *)
(* to the send_eoi() of schedule_handler().                                *)
EndedForShell_NotSent == in_service

EndedForShell == send_eoi(in_service, TIMER)

(* schedule_handler(): the program interrupted stays in its handler until a *)
(* later tick returns to it; the next one leaves that handler, or starts.  *)
Tick ==
    /\ Entered(TIMER)
    /\ current_terminal_id' = NextTerminal
    /\ started' = started \cup {NextTerminal}
    /\ overtaken' = overtaken \cup {p \in {current_terminal_id} \cap Programs : at[p] = "stored"}
    /\ IF NextTerminal \in started
       THEN Ends(TIMER)
       ELSE in_service' = EndedForShell /\ gate' = None
    /\ UNCHANGED <<vars, at, bytes, save_eax, stopped>>

(* rtc_handler(). *)
Clock ==
    /\ Entered(CLOCK)
    /\ Interrupt
    /\ Ends(CLOCK)
    /\ UNCHANGED <<current_terminal_id, started, at, bytes, results, stopped>>

(* keyboard_handler(): all its returns are behind a send_eoi(1).           *)
Key ==
    /\ Entered(KEYBOARD)
    /\ port' = "empty"
    /\ Ends(KEYBOARD)
    /\ UNCHANGED <<vars, current_terminal_id, started, at, requested, unsent, awaited, results, stopped>>

(* The bytes mouse_handler() takes for the head of a packet whose two other *)
(* bytes it has to read: of bytes that are not, any may look like one.     *)
LooksLikeHead(b) == CASE b = "head" -> IF "overflow" \in Disorder THEN BOOLEAN ELSE {TRUE}
                      [] b = "empty" -> {FALSE}
                      [] OTHER -> BOOLEAN

(* mouse_handler() up to its first byte... *)
Mouse ==
    /\ Entered(MOUSE)
    /\ port' = "empty"
    /\ \E wait \in LooksLikeHead(port) :
         IF wait
         THEN awaited' = 2 /\ gate' = [stage |-> "waiting", irq |-> MOUSE] /\ UNCHANGED in_service
         ELSE Ends(MOUSE) /\ UNCHANGED awaited
    /\ UNCHANGED <<vars, current_terminal_id, started, at, requested, unsent, results, stopped>>

(* ... and the two read_mouse(), each of which waits for a byte.           *)
read_mouse ==
    /\ gate.stage = "waiting" /\ ~stopped
    /\ port # "empty"
    /\ port' = "empty"
    /\ awaited' = awaited - 1
    /\ IF awaited = 1 THEN Ends(MOUSE) ELSE UNCHANGED <<gate, in_service>>
    /\ UNCHANGED <<vars, current_terminal_id, started, at, requested, unsent, results, stopped>>

(* popfl, popal, sti, iret. *)
Leave ==
    /\ gate.stage = "leaving" /\ ~stopped
    /\ gate' = None
    /\ UNCHANGED <<vars, current_terminal_id, started, at, in_service, bytes, results, stopped>>

-----------------------------------------------------------------------------
(* The devices put a byte in the one buffer they share; what they send to  *)
(* a machine that has stopped is left out.                                 *)
Sends(b, irq) ==
    /\ port = "empty" /\ ~stopped
    /\ port' = b
    /\ requested' = requested \cup {irq}
    /\ UNCHANGED <<vars, flow, awaited, results, stopped>>

PressKey ==
    /\ "key" \in Disorder \/ (unsent = 0 /\ MOUSE \notin requested /\ gate.irq # MOUSE)
    /\ Sends("key", KEYBOARD)
    /\ UNCHANGED unsent

MoveMouse ==
    /\ unsent = 0
    /\ Sends("head", MOUSE)
    /\ unsent' = 2

SendRest ==
    /\ unsent > 0
    /\ Sends("move", MOUSE)
    /\ unsent' = unsent - 1

-----------------------------------------------------------------------------
Handlers == Tick \/ Clock \/ Key \/ Mouse \/ read_mouse \/ Leave

Proceed(p) == ClockSeen(p) \/ ReadReturns(p) \/ Load(p)

InterruptNext ==
    \/ \E p \in Programs : Call(p) \/ CallRead(p) \/ Proceed(p) \/ Exception(p)
    \/ \E irq \in {TIMER, KEYBOARD, CLOCK, MOUSE} : Accept(irq)
    \/ Handlers
    \/ PressKey \/ MoveMouse \/ SendRest

InterruptSpec == InterruptInit /\ [][InterruptNext]_allVars

(* The processor runs what it has entered; the timer and the clock interrupt *)
(* for ever, and too slowly to keep out the lines below them or a program  *)
(* that is scheduled again and again; the mouse finishes its packets.      *)
FairInterruptSpec ==
    /\ InterruptSpec
    /\ WF_allVars(Handlers)
    /\ WF_allVars(SendRest)
    /\ \A irq \in {TIMER, KEYBOARD, CLOCK, MOUSE} : SF_allVars(Accept(irq))
    /\ \A p \in Programs : SF_allVars(Proceed(p))

-----------------------------------------------------------------------------
(* The result a system call leaves in eax is its own: only read(), which   *)
(* turned interrupts on, can be preempted with its result in save_eax.     *)
ResultsDelivered ==
    \A p \in Programs :
        /\ at[p] = "call" => save_eax = p
        /\ at[p] = "stored" /\ p \notin overtaken => save_eax = p

(* No interrupt stays in service when the processor can be interrupted     *)
(* again: each path through a handler, the one that starts a shell and     *)
(* never returns included, has ended the interrupt that led to it.         *)
NothingLeftInService == InterruptsOn => in_service = NothingInService

(* Until an exception stops the machine, ticks keep coming, every byte of  *)
(* the keyboard and the mouse is looked at, and a clock's reader waits for *)
(* ever only while other reads keep returning.                             *)
LinesHeard ==
    \/ <>stopped
    \/ /\ []<><<Tick>>_allVars
       /\ []<>(KEYBOARD \notin requested)
       /\ []<>(MOUSE \notin requested)

ReadersStarvedByOthersOnly == <>stopped \/ StarvedByOthersOnly

(* What systemcall.c says of read(): it returns what the function of the   *)
(* file returned.                                                          *)
ReadsReturnTheirOwn == [][\A p \in Programs : Load(p) => save_eax = p]_allVars
=============================================================================
