----------------------------- MODULE Scheduler -----------------------------
(***************************************************************************)
(* Processes, terminals and the round-robin scheduler of the kernel:      *)
(* execute() and halt() of systemcall.c, schedule_handler() of schedule.c  *)
(* and the terminal switch of keyboard_handler.c.                          *)
(*                                                                         *)
(* Every gate of the IDT is an interrupt gate, so execute, halt and the    *)
(* tick run with interrupts off: each is one action.  A kernel stack       *)
(* pointer is modelled by the slot whose stack it points into, and what    *)
(* lies there by frame: the frame parked on the stack of a slot.  The boot *)
(* code runs on the stack at 0x800000, which is the kernel stack of slot 0.*)
(***************************************************************************)
EXTENDS Integers, FiniteSets

CONSTANTS
    NTerminals,     \* TERMINAL_MAXIMUM
    NSlots,         \* length of process_state
    FullPid,        \* the pid at which execute() refuses
    Disorder        \* what the environment may do: see DisorderAssumption

UNUSED == -1
LOST == -2          \* the processor left the kernel's known contexts

Terminals == 0 .. NTerminals - 1
Slots == 0 .. NSlots - 1
Frames == {"none", "execute", "schedule_handler"}

ASSUME SizesAssumption ==
    /\ NTerminals \in Nat \ {0}
    /\ NSlots \in Nat /\ NSlots > NTerminals
    /\ FullPid \in Nat /\ FullPid >= NTerminals

(***************************************************************************)
(* "background": a program is started, or a root shell left, by a process  *)
(* whose terminal is not on the display.                                   *)
(* "crowded": a program is started when no slot is free.                   *)
(* "early": a program is started before every terminal has its shell.      *)
(***************************************************************************)
ASSUME DisorderAssumption == Disorder \subseteq {"background", "crowded", "early"}

VARIABLES
    pid,                    \* the global "current pid" of systemcall.c
    process_state,          \* slot -> 1 when taken
    terminal_process_info,  \* terminal -> its process; -1 is the word before the array
    current_terminal_id,    \* terminal of the running process
    next_sche_terminal,
    sche_ready,
    terminal_id,            \* terminal on the display
    parent, esp, esp0,      \* PCB fields: parent's pid, its execute frame, its esp0
    sche_esp,               \* PCB field: the schedule_handler frame to resume
    pd,                     \* slot mapped at the user page
    tss_esp0,               \* slot whose kernel stack the next interrupt uses
    frame,                  \* slot -> what is parked on its kernel stack
    cpu                     \* slot whose stack the processor runs on

pcbs == <<parent, esp, esp0, sche_esp>>
machine == <<pd, tss_esp0, frame, cpu>>
vars == <<pid, process_state, terminal_process_info, current_terminal_id,
          next_sche_terminal, sche_ready, terminal_id, pcbs, machine>>

(* A PCB is also addressed at index -1, one PCB above slot 0. *)
PcbIndex == Slots \cup {UNUSED}

TypeOK ==
    /\ pid \in Slots \cup {UNUSED}
    /\ process_state \in [Slots -> {0, 1}]
    /\ terminal_process_info \in [Terminals \cup {UNUSED} -> Slots \cup {UNUSED}]
    /\ current_terminal_id \in Terminals \cup {UNUSED}
    /\ next_sche_terminal \in Terminals
    /\ sche_ready \in {0, 1}
    /\ terminal_id \in Terminals
    /\ parent \in [PcbIndex -> Slots \cup {UNUSED}]
    /\ esp \in [PcbIndex -> Slots \cup {UNUSED}]
    /\ esp0 \in [PcbIndex -> Slots \cup {UNUSED}]
    /\ sche_esp \in [PcbIndex -> Slots \cup {UNUSED}]
    /\ pd \in Slots \cup {UNUSED}
    /\ tss_esp0 \in Slots \cup {UNUSED}
    /\ frame \in [Slots -> Frames]
    /\ cpu \in Slots \cup {LOST}

(* entry() up to its sti(): no process, no terminal, the boot stack. *)
Init ==
    /\ pid = UNUSED
    /\ process_state = [s \in Slots |-> 0]
    /\ terminal_process_info = [t \in Terminals \cup {UNUSED} |-> UNUSED]
    /\ current_terminal_id = UNUSED
    /\ next_sche_terminal = 0
    /\ sche_ready = 1
    /\ terminal_id = 0
    /\ parent = [p \in PcbIndex |-> UNUSED]
    /\ esp = [p \in PcbIndex |-> UNUSED]
    /\ esp0 = [p \in PcbIndex |-> UNUSED]
    /\ sche_esp = [p \in PcbIndex |-> UNUSED]
    /\ pd = UNUSED
    /\ tss_esp0 = UNUSED
    /\ frame = [s \in Slots |-> "none"]
    /\ cpu = 0

-----------------------------------------------------------------------------
(* A definition whose name ends in _ and a defect is not used by the       *)
(* specification: it is what the next definition would be with that defect *)
(* in the code.  The properties are tested against these.                  *)

Running == current_terminal_id # UNUSED /\ cpu # LOST
AllStarted == \A t \in Terminals : terminal_process_info[t] # UNUSED

(* The slot the allocation loop of execute() leaves in pid: the first free *)
(* one, or the old value of pid when the loop finds none.                  *)
FirstFree_OffByOne(ps, oldpid) ==
    IF \A s \in Slots : ps[s] # 0
    THEN {oldpid}
    ELSE {s + 1 : s \in {r \in Slots : ps[r] = 0 /\ \A q \in 0 .. r - 1 : ps[q] # 0}}

FirstFree(ps, oldpid) ==
    IF \A s \in Slots : ps[s] # 0
    THEN {oldpid}
    ELSE {s \in Slots : ps[s] = 0 /\ \A r \in 0 .. s - 1 : ps[r] # 0}

(* Map the user page of slot p and let interrupts use its kernel stack. *)
SwitchTo_NoEsp0(p) == pd' = p /\ UNCHANGED tss_esp0

SwitchTo(p) == pd' = p /\ tss_esp0' = p

(* execute() past its checks, called with the process table ps, the        *)
(* terminals tpi, terminal cur running, the PCB fields as after `esches`   *)
(* and the given tss.esp0: take slot new and attach it to terminal t.      *)
StartProgram(new, t, oldparent, ps, tpi, tss, esches, parked) ==
    /\ pid' = new
    /\ process_state' = [ps EXCEPT ![new] = 1]
    /\ terminal_process_info' = [tpi EXCEPT ![t] = new]
    /\ sche_ready' = 0
    /\ parent' = [parent EXCEPT ![new] = oldparent]
    /\ esp' = [esp EXCEPT ![new] = cpu]
    /\ esp0' = [esp0 EXCEPT ![new] = tss]
    /\ sche_esp' = esches
    /\ SwitchTo(new)
    /\ frame' = [parked EXCEPT ![new] = "none"]
    /\ cpu' = new

(* The terminal execute() attaches the new process to. *)
AttachTo(ready, cur) == IF ready = 1 THEN cur ELSE terminal_id

(* The process table once halt() has freed the slot of p. *)
Freed_AfterPidChange(p) == [process_state EXCEPT ![parent[p]] = 0]

Freed(p) == [process_state EXCEPT ![p] = 0]

(* Resume the context parked in stack s as a frame of the given kind: the  *)
(* processor is lost when s holds no such frame.                           *)
Resume(s, kind, frames) ==
    IF s \in Slots /\ frames[s] = kind
    THEN cpu' = s /\ frame' = [frames EXCEPT ![s] = "none"]
    ELSE cpu' = LOST /\ frame' = frames

-----------------------------------------------------------------------------
(* The boot loop's execute("shell"), when it gets to its cli() before the  *)
(* first tick: it indexes terminal_process_info with -1, and what it reads *)
(* there as the parent's pid is whatever the linker put before the array.  *)
BootExecute ==
    /\ current_terminal_id = UNUSED
    /\ pid = UNUSED
    /\ \E junk \in {UNUSED, 0}, new \in FirstFree(process_state, pid) :
         StartProgram(new, UNUSED, junk, process_state, terminal_process_info,
                      tss_esp0, sche_esp, frame)
    /\ UNCHANGED <<current_terminal_id, next_sche_terminal, terminal_id>>

(* The execute system call of the running process.  A command that names   *)
(* no executable, and a call refused because pid is FullPid, return -1 and *)
(* change nothing.                                                         *)
Execute ==
    /\ Running
    /\ terminal_id = current_terminal_id \/ "background" \in Disorder
    /\ AllStarted \/ "early" \in Disorder
    /\ (\E s \in Slots : process_state[s] = 0) \/ "crowded" \in Disorder
    /\ pid # FullPid
    /\ \E new \in FirstFree(process_state, pid) :
         LET t == AttachTo(sche_ready, current_terminal_id) IN
         StartProgram(new, t, terminal_process_info[t], process_state,
                      terminal_process_info, tss_esp0, sche_esp,
                      [frame EXCEPT ![cpu] = "execute"])
    /\ UNCHANGED <<current_terminal_id, next_sche_terminal, terminal_id>>

(* halt() of a process with a parent: free the slot and return through the *)
(* execute frame its PCB names.                                            *)
HaltChild ==
    LET p == terminal_process_info[current_terminal_id] IN
    /\ Running
    /\ p # UNUSED
    /\ parent[p] # UNUSED
    /\ process_state' = Freed(p)
    /\ pid' = parent[p]
    /\ terminal_process_info' =
         [terminal_process_info EXCEPT ![current_terminal_id] = parent[p]]
    /\ tss_esp0' = esp0[p]
    /\ pd' = parent[p]
    /\ Resume(esp[p], "execute", frame)
    /\ UNCHANGED <<current_terminal_id, next_sche_terminal, sche_ready,
                   terminal_id, pcbs>>

(* halt() of a process without a parent: execute("shell") on the stack of  *)
(* the process that ended.                                                 *)
HaltRoot ==
    LET p == terminal_process_info[current_terminal_id]
        ps == Freed(p)
        tpi == [terminal_process_info EXCEPT ![current_terminal_id] = UNUSED]
        t == AttachTo(sche_ready, current_terminal_id)
    IN
    /\ Running
    /\ terminal_id = current_terminal_id \/ "background" \in Disorder
    /\ p # UNUSED
    /\ parent[p] = UNUSED
    /\ \E new \in FirstFree(ps, UNUSED) :
         StartProgram(new, t, tpi[t], ps, tpi, esp0[p], sche_esp,
                      [frame EXCEPT ![cpu] = "execute"])
    /\ UNCHANGED <<current_terminal_id, next_sche_terminal, terminal_id>>

-----------------------------------------------------------------------------
NextTerminal_WrapsEarly ==
    IF next_sche_terminal >= NTerminals - 1
    THEN (current_terminal_id + 1) % (NTerminals - 1)
    ELSE current_terminal_id + 1

NextTerminal_NoWrap ==
    IF next_sche_terminal >= NTerminals - 1
    THEN current_terminal_id
    ELSE current_terminal_id + 1

NextTerminal ==
    IF next_sche_terminal >= NTerminals - 1
    THEN (current_terminal_id + 1) % NTerminals
    ELSE current_terminal_id + 1

(* The PCB schedule_handler() saves the running context in. *)
SavedPcb_OfNext ==
    IF terminal_process_info[NextTerminal] = UNUSED /\ pid = UNUSED
    THEN NextTerminal
    ELSE terminal_process_info[NextTerminal]

SavedPcb ==
    IF terminal_process_info[NextTerminal] = UNUSED /\ pid = UNUSED
    THEN NextTerminal
    ELSE terminal_process_info[current_terminal_id]

Saved == [sche_esp EXCEPT ![SavedPcb] = cpu]
Parked == [frame EXCEPT ![cpu] = "schedule_handler"]

(* A tick whose next terminal has a process: resume it. *)
TickSwitch ==
    LET q == terminal_process_info[NextTerminal] IN
    /\ cpu # LOST
    /\ q # UNUSED
    /\ next_sche_terminal' = NextTerminal
    /\ current_terminal_id' = NextTerminal
    /\ sche_esp' = Saved
    /\ SwitchTo(q)
    /\ Resume(Saved[q], "schedule_handler", Parked)
    /\ UNCHANGED <<pid, process_state, terminal_process_info, sche_ready,
                   terminal_id, parent, esp, esp0>>

(* What run_a_new_shell() puts in sche_ready for its execute to find. *)
ShellReady == 1

(* A tick whose next terminal has none: run_a_new_shell(), whose execute   *)
(* attaches the shell to the terminal just made current.                   *)
TickNewShell ==
    /\ cpu # LOST
    /\ terminal_process_info[NextTerminal] = UNUSED
    /\ pid # FullPid
    /\ next_sche_terminal' = NextTerminal
    /\ current_terminal_id' = NextTerminal
    /\ \E new \in FirstFree(process_state, pid) :
         LET t == AttachTo(ShellReady, NextTerminal) IN
         StartProgram(new, t, terminal_process_info[t], process_state,
                      terminal_process_info, tss_esp0, Saved, Parked)
    /\ UNCHANGED terminal_id

(* The same when execute refuses: the interrupted process is resumed under *)
(* the next terminal's number, with sche_ready left at 1.                  *)
TickNoShell ==
    /\ cpu # LOST
    /\ terminal_process_info[NextTerminal] = UNUSED
    /\ pid = FullPid
    /\ next_sche_terminal' = NextTerminal
    /\ current_terminal_id' = NextTerminal
    /\ sche_ready' = ShellReady
    /\ sche_esp' = Saved
    /\ tss_esp0' = SavedPcb
    /\ Resume(cpu, "schedule_handler", Parked)
    /\ UNCHANGED <<pid, process_state, terminal_process_info, terminal_id,
                   parent, esp, esp0, pd>>

Tick == TickSwitch \/ TickNewShell \/ TickNoShell

(* Alt-F1..F3. *)
SwitchTerminal ==
    /\ cpu # LOST
    /\ \E t \in Terminals \ {terminal_id} : terminal_id' = t
    /\ UNCHANGED <<pid, process_state, terminal_process_info, pcbs, machine,
                   current_terminal_id, next_sche_terminal, sche_ready>>

Next == BootExecute \/ Execute \/ HaltChild \/ HaltRoot \/ Tick \/ SwitchTerminal

Spec == Init /\ [][Next]_vars

(* The timer interrupts for ever and every path back to a program restores *)
(* the interrupt flag, so ticks keep coming.                               *)
FairSpec == Spec /\ WF_vars(Tick)

-----------------------------------------------------------------------------
Live == {s \in Slots : process_state[s] = 1}

(* The process BootExecute started, which no terminal owns. *)
Orphan == terminal_process_info[UNUSED]
Owned == Live \ {Orphan}
Tops == {terminal_process_info[t] : t \in Terminals} \ {UNUSED}

(* The processor runs the process of the current terminal, in its own      *)
(* address space, and the next interrupt lands on its own kernel stack.    *)
(* This is what schedule_handler, execute and halt each have to restore.   *)
RunningContext ==
    /\ cpu # LOST
    /\ \A t \in Terminals : current_terminal_id = t =>
         /\ terminal_process_info[t] = cpu
         /\ pd = cpu
         /\ tss_esp0 = cpu

(* The process of every other terminal that has one can be resumed: its    *)
(* PCB points at the schedule_handler frame on its own kernel stack.       *)
ParkedContexts ==
    \A t \in Terminals \ {current_terminal_id} :
        LET p == terminal_process_info[t] IN
        p # UNUSED => sche_esp[p] = p /\ frame[p] = "schedule_handler"

(* Every process halt() returns from has its parent waiting, with the      *)
(* execute frame and the esp0 saved in the child's PCB still its own.      *)
ReturnPaths ==
    \A p \in Owned : parent[p] # UNUSED =>
        /\ parent[p] \in Owned
        /\ esp[p] = parent[p]
        /\ esp0[p] = parent[p]
        /\ frame[parent[p]] = "execute"

(* No slot serves two: terminals have different live processes, a process  *)
(* has at most one child, and a process on top of a terminal has none.     *)
NoSharing ==
    /\ Tops \subseteq Owned
    /\ \A t, u \in Terminals : t # u /\ terminal_process_info[t] # UNUSED =>
         terminal_process_info[t] # terminal_process_info[u]
    /\ \A p, q \in Owned : p # q /\ parent[p] # UNUSED => parent[p] # parent[q]
    /\ \A p \in Owned : parent[p] \notin Tops

(* execute() and halt() leak no slot: a taken slot is the process on top   *)
(* of a terminal, or the waiting parent of another one, or the boot one.   *)
NoLeak ==
    \A p \in Owned : p \in Tops \/ \E q \in Owned : parent[q] = p

(* Each tick moves to the terminal after the current one, whichever branch *)
(* of the index computation in schedule_handler was taken.                 *)
RoundRobin ==
    [][current_terminal_id' # current_terminal_id =>
         /\ current_terminal_id' = (current_terminal_id + 1) % NTerminals
         /\ next_sche_terminal' = current_terminal_id']_vars

(* A step changes the process of no terminal but the one it leaves running: *)
(* neither a launch nor an exit disturbs another terminal.                 *)
OthersUndisturbed ==
    [][\A t \in Terminals :
         terminal_process_info'[t] # terminal_process_info[t]
             => t = current_terminal_id']_vars

(* Every terminal gets the processor again and again. *)
TerminalsRun ==
    \A t \in Terminals : []<>(current_terminal_id = t /\ cpu = terminal_process_info[t])

(* The limit of execute() (systemcall.c, "handling maximum number of       *)
(* shells"): never more than FullPid + 1 processes at a time...            *)
AtMostMaximum == Cardinality(Live) <= FullPid + 1

(* ... and a program is refused only when there are that many.             *)
RefusedOnlyWhenFull == Running /\ pid = FullPid => Cardinality(Live) >= FullPid + 1

(* The global pid is "the current pid": the process that is running.       *)
PidIsCurrent == current_terminal_id # UNUSED => pid = cpu

(* The parent's pid the PCB of a new process stores is that of the process *)
(* that called execute.                                                    *)
ParentIsCaller == [][Execute => parent'[cpu'] = cpu]_vars
=============================================================================
