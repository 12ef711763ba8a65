-------------------------- MODULE InterruptsProofs -------------------------
(***************************************************************************)
(* For any number of programs: the clock's readers wait for a tick, and    *)
(* opening and closing the clock shuts off nothing else (of Rtc alone).    *)
(* Whatever the devices send: results of system calls do not mix, no       *)
(* interrupt stays in service, and the clock under the wrappers and the    *)
(* scheduler is still the clock of Rtc.                                    *)
(***************************************************************************)
EXTENDS Interrupts, TLAPS

-----------------------------------------------------------------------------
(* The clock alone *)

(* A program that waits and has not been interrupted since its call finds  *)
(* the flag set, whoever else reads: this is what makes returning safe.    *)
Unticked == \A p \in Programs : pc[p] = "wait" /\ p \notin ticked => busy_rtc = 1

(* The lines the kernel opens at boot stay open, but for the clock's.      *)
LinesOpen ==
    /\ master_mask \cap {TIMER, KEYBOARD, ICW3_SLAVE} = {}
    /\ 4 \notin slave_mask
    /\ heard # {} => 0 \notin slave_mask

IInv == TypeOK /\ Unticked /\ LinesOpen

(* What SlaveLines makes of the arguments in use: the vector rtc.c passes  *)
(* instead of a line happens to name line 0 of the slave, as 8 does.       *)
LEMMA SlaveLinesValues ==
    /\ SlaveLines(RTC_IRQ) = {0}
    /\ SlaveLines(CLOCK) = {0}
    /\ SlaveLines(MOUSE) = {4}
BY SMT DEF SlaveLines, RTC_IRQ, CLOCK, MOUSE, Lines

(* The masks entry() leaves. *)
LEMMA BootedMasks ==
    /\ Booted.master = Lines \ {ICW3_SLAVE, KEYBOARD, TIMER}
    /\ Booted.slave = Lines \ {0, 4}
<1> USE DEF RTC_IRQ, CLOCK, KEYBOARD, TIMER, MOUSE, ICW3_SLAVE, AllMasked
<1> DEFINE m1 == Enabled(AllMasked, RTC_IRQ)
           m2 == Enabled(m1, CLOCK)
           m3 == Enabled(m2, KEYBOARD)
           m4 == Enabled(m3, TIMER)
<1>1. m1 = [master |-> Lines \ {2}, slave |-> Lines \ {0}]
  BY SlaveLinesValues DEF Enabled
<1>2. m2 = [master |-> Lines \ {2}, slave |-> Lines \ {0}]
  <2> HIDE DEF m1
  <2>1. (Lines \ {2}) \ {2} = Lines \ {2} /\ (Lines \ {0}) \ {0} = Lines \ {0}
    OBVIOUS
  <2> QED BY <1>1, <2>1, SlaveLinesValues DEF Enabled
<1>3. m3 = [master |-> Lines \ {2, 1}, slave |-> Lines \ {0}]
  <2> HIDE DEF m2
  <2>1. (Lines \ {2}) \ {1} = Lines \ {2, 1}
    OBVIOUS
  <2> QED BY <1>2, <2>1 DEF Enabled
<1>4. m4 = [master |-> Lines \ {2, 1, 0}, slave |-> Lines \ {0}]
  <2> HIDE DEF m3
  <2>1. (Lines \ {2, 1}) \ {0} = Lines \ {2, 1, 0}
    OBVIOUS
  <2> QED BY <1>3, <2>1 DEF Enabled
<1>5. Enabled(m4, MOUSE) = [master |-> Lines \ {2, 1, 0}, slave |-> Lines \ {0, 4}]
  <2> HIDE DEF m4
  <2>1. (Lines \ {2, 1, 0}) \ {2} = Lines \ {2, 1, 0} /\ (Lines \ {0}) \ {4} = Lines \ {0, 4}
    OBVIOUS
  <2> QED BY <1>4, <2>1, SlaveLinesValues DEF Enabled
<1> QED BY <1>5 DEF Booted

LEMMA InitIInv == Init => IInv
<1> SUFFICES ASSUME Init PROVE IInv
  OBVIOUS
<1>1. TypeOK
  BY BootedMasks, MaxOpenAssumption DEF Init, TypeOK
<1>2. Unticked
  BY DEF Init, Unticked
<1>3. LinesOpen
  BY BootedMasks DEF Init, LinesOpen, TIMER, KEYBOARD, ICW3_SLAVE
<1> QED BY <1>1, <1>2, <1>3 DEF IInv

(* One step per action. *)
LEMMA NextIInv == IInv /\ [Next]_vars => IInv'
<1> SUFFICES ASSUME IInv, [Next]_vars PROVE IInv'
  OBVIOUS
<1> USE MaxOpenAssumption DEF IInv, TypeOK
<1>1. CASE Interrupt
  BY <1>1 DEF Interrupt, Unticked, LinesOpen, masks, Cleared
<1>2. ASSUME NEW p \in Programs, Open(p) PROVE IInv'
  <2>1. master_mask' = master_mask \ {ICW3_SLAVE} /\ slave_mask' = slave_mask \ {0}
    BY <1>2, SlaveLinesValues DEF Open, SetMasks, Enabled, Masks, RTC_IRQ
  <2> QED BY <1>2, <2>1 DEF Open, Unticked, LinesOpen, ICW3_SLAVE, TIMER, KEYBOARD, Lines
<1>3. ASSUME NEW p \in Programs, Close(p) PROVE IInv'
  <2>1. slave_mask # Lines
    BY DEF LinesOpen, Lines
  <2>2. master_mask' = master_mask /\ slave_mask' = slave_mask \cup {0}
    BY <1>3, <2>1, SlaveLinesValues DEF Close, SetMasks, Disabled, Masks, RTC_IRQ
  <2> QED BY <1>3, <2>2 DEF Close, Unticked, LinesOpen, Lines
<1>4. ASSUME NEW p \in Programs, Halt(p) PROVE IInv'
  BY <1>4 DEF Halt, Unticked, LinesOpen, masks
<1>5. ASSUME NEW p \in Programs, Read(p) PROVE IInv'
  BY <1>5 DEF Read, Unticked, LinesOpen, masks, Armed
<1>6. ASSUME NEW p \in Programs, Return(p) PROVE IInv'
  BY <1>6 DEF Return, Unticked, LinesOpen, masks
<1>7. CASE UNCHANGED vars
  BY <1>7 DEF vars, masks, Unticked, LinesOpen
<1> QED BY <1>1, <1>2, <1>3, <1>4, <1>5, <1>6, <1>7 DEF Next

(* The invariant holds for any set of programs and number of descriptors. *)
THEOREM Invariance == Spec => []IInv
BY InitIInv, NextIInv, PTL DEF Spec

(* The masks stay bytes, the flag a flag: rtc_read(), rtc_handler() and    *)
(* the calls of i8259.c keep the types.                                    *)
THEOREM TypeCorrect == Spec => []TypeOK
<1>1. IInv => TypeOK
  BY DEF IInv
<1> QED BY <1>1, Invariance, PTL

(* rtc_read() returns after a tick later than its call, for any number of  *)
(* programs that share busy_rtc.                                           *)
THEOREM ReadsWaitForTickSafe == Spec => ReadsWaitForTick
<1> DEFINE Waited == \A p \in Programs : pc[p] = "wait" /\ pc'[p] = "user" => p \in ticked
<1>1. IInv /\ [Next]_vars => [Waited]_vars
  <2> SUFFICES ASSUME IInv, Next, NEW p \in Programs, pc[p] = "wait", pc'[p] = "user"
               PROVE  p \in ticked
    OBVIOUS
  <2>1. pc' # pc
    OBVIOUS
  <2>2. Return(p)
    BY <2>1 DEF Next, Interrupt, Open, Close, Halt, Read, Return, IInv, TypeOK
  <2> QED BY <2>2 DEF Return, IInv, Unticked
<1> QED BY <1>1, Invariance, PTL DEF Spec, ReadsWaitForTick

(* The mouse, the timer and the keyboard are heard whatever programs do    *)
(* with the clock.                                                         *)
THEOREM OthersHeardSafe == Spec => []OthersHeard
<1>1. IInv => OthersHeard
  BY DEF IInv, LinesOpen, OthersHeard, Passes, MOUSE, TIMER, KEYBOARD, ICW3_SLAVE
<1> QED BY <1>1, Invariance, PTL

(* A program that has opened the clock since it was last closed can be     *)
(* interrupted by it, whatever number of descriptors the programs hold and *)
(* whoever exits.                                                          *)
THEOREM OpenIsHeardSafe == Spec => []OpenIsHeard
<1>1. IInv => OpenIsHeard
  BY DEF IInv, LinesOpen, OpenIsHeard, Passes, CLOCK, ICW3_SLAVE
<1> QED BY <1>1, Invariance, PTL

-----------------------------------------------------------------------------
(* The wrappers *)

IRQs == {TIMER, KEYBOARD, CLOCK, MOUSE}

(* The parts of the type invariant the argument needs. *)
FlowType ==
    /\ current_terminal_id \in Programs \cup {BOOT}
    /\ at \in [Programs -> {"user", "call", "read", "stored"}]
    /\ gate \in [stage : {"none", "entered", "waiting", "leaving"}, irq : IRQs]

(* A call with its result in save_eax and interrupts off has the processor; *)
(* so does a read, unless it has been preempted.                           *)
HeldResults ==
    \A p \in Programs :
        /\ at[p] = "call" =>
             current_terminal_id = p /\ gate.stage = "none" /\ save_eax = p
        /\ at[p] = "stored" /\ p \notin overtaken =>
             current_terminal_id = p /\ save_eax = p

(* In service is the interrupt being handled, until its handler ends it.   *)
InService ==
    /\ gate.stage \in {"entered", "waiting"} =>
         in_service = Acknowledged(NothingInService, gate.irq)
    /\ gate.stage \in {"none", "leaving"} => in_service = NothingInService
    /\ gate.stage = "waiting" => gate.irq = MOUSE

GInv == FlowType /\ HeldResults /\ InService

-----------------------------------------------------------------------------
(* send_eoi() undoes what taking the interrupt did, on both controllers.   *)
LEMMA EoiEnds ==
    \A irq \in IRQs : send_eoi(Acknowledged(NothingInService, irq), irq) = NothingInService
<1> SUFFICES ASSUME NEW irq \in IRQs
             PROVE  send_eoi(Acknowledged(NothingInService, irq), irq) = NothingInService
  OBVIOUS
<1>1. CASE irq < 8
  <2>1. Acknowledged(NothingInService, irq) = [master |-> {irq}, slave |-> {}]
    BY <1>1 DEF Acknowledged, NothingInService
  <2>2. {irq} \ {irq} = {}
    OBVIOUS
  <2> QED BY <1>1, <2>1, <2>2 DEF send_eoi, NothingInService
<1>2. CASE ~(irq < 8)
  <2>1. Acknowledged(NothingInService, irq) = [master |-> {ICW3_SLAVE}, slave |-> {irq - 8}]
    BY <1>2 DEF Acknowledged, NothingInService
  <2>2. {ICW3_SLAVE} \ {ICW3_SLAVE} = {} /\ {irq - 8} \ {irq - 8} = {}
    OBVIOUS
  <2> QED BY <1>2, <2>1, <2>2 DEF send_eoi, NothingInService
<1> QED BY <1>1, <1>2

(* The terminal after the one that runs is one of the programs. *)
LEMMA NextTerminalIsProgram ==
    current_terminal_id \in Programs \cup {BOOT} => NextTerminal \in Programs
<1> SUFFICES ASSUME current_terminal_id \in Programs \cup {BOOT}
             PROVE  NextTerminal \in Programs
  OBVIOUS
<1>1. current_terminal_id + 1 \in Int
  BY ProgramsAssumption DEF BOOT
<1>2. \A i \in Int, n \in Nat \ {0} : i % n \in 0 .. n - 1
  BY SMT
<1> QED BY <1>1, <1>2, ProgramsAssumption DEF NextTerminal

LEMMA InitGInv == InterruptInit => GInv
BY DEF InterruptInit, GInv, FlowType, HeldResults, InService, None, NothingInService,
       TIMER, IRQs

-----------------------------------------------------------------------------
(* The steps of a program. *)
LEMMA ProgramSteps ==
    ASSUME GInv, NEW p \in Programs,
           Call(p) \/ CallRead(p) \/ ClockSeen(p) \/ ReadReturns(p) \/ Load(p) \/ Exception(p)
    PROVE  GInv'
<1> USE DEF GInv, FlowType, Stands, Runs, Goes
<1>1. CASE Call(p)
  BY <1>1 DEF Call, HeldResults, InService
<1>2. CASE CallRead(p)
  BY <1>2 DEF CallRead, HeldResults, InService, results
<1>3. CASE ClockSeen(p)
  BY <1>3 DEF ClockSeen, HeldResults, InService, results, flow
<1>4. CASE ReadReturns(p)
  BY <1>4 DEF ReadReturns, HeldResults, InService
<1>5. CASE Load(p)
  BY <1>5 DEF Load, HeldResults, InService, results
<1>6. CASE Exception(p)
  BY <1>6 DEF Exception, HeldResults, InService, results, flow
<1> QED BY <1>1, <1>2, <1>3, <1>4, <1>5, <1>6

(* An interrupt is only taken when none is being handled, and not between  *)
(* the store and the load of a result with interrupts off.                 *)
LEMMA AcceptStep ==
    ASSUME GInv, NEW irq \in IRQs, Accept(irq)
    PROVE  GInv'
<1>1. FlowType'
  BY DEF GInv, FlowType, Accept
<1>2. HeldResults'
  BY DEF GInv, FlowType, Accept, HeldResults, InterruptsOn, results
<1>3. InService'
  BY DEF GInv, Accept, InService, InterruptsOn
<1> QED BY <1>1, <1>2, <1>3 DEF GInv

(* What every handler but the tick does to the invariant. *)
LEMMA EndStep ==
    ASSUME GInv, NEW irq \in IRQs, gate.stage \in {"entered", "waiting"}, gate.irq = irq,
           Ends(irq), UNCHANGED <<current_terminal_id, at, save_eax, overtaken>>
    PROVE  GInv'
<1>1. gate' = [stage |-> "leaving", irq |-> TIMER] /\ in_service' = NothingInService
  BY EoiEnds DEF Ends, Leaving, GInv, InService
<1>2. FlowType'
  BY <1>1 DEF GInv, FlowType, IRQs
<1>3. HeldResults'
  BY <1>1 DEF GInv, HeldResults
<1>4. InService'
  BY <1>1 DEF GInv, InService
<1> QED BY <1>2, <1>3, <1>4 DEF GInv

(* The tick: whoever is preempted with a result in save_eax is overtaken,  *)
(* and the two ways out of schedule_handler() both end the interrupt.      *)
LEMMA TickStep == ASSUME GInv, Tick PROVE GInv'
<1>1. NextTerminal \in Programs
  BY NextTerminalIsProgram DEF GInv, FlowType
<1>2. gate = [stage |-> "entered", irq |-> TIMER]
  BY DEF Tick, Entered
<1>3. send_eoi(in_service, TIMER) = NothingInService
  BY <1>2, EoiEnds DEF GInv, InService, IRQs
<1>4. in_service' = NothingInService
      /\ gate' \in {None, Leaving}
  BY <1>3 DEF Tick, Ends, EndedForShell
<1>5. FlowType'
  BY <1>1, <1>4 DEF Tick, GInv, FlowType, None, Leaving, IRQs
<1>6. HeldResults'
  <2> SUFFICES ASSUME NEW p \in Programs
               PROVE  /\ at[p] # "call"
                      /\ at[p] = "stored" => p \in overtaken'
    BY DEF Tick, HeldResults
  <2>1. at[p] # "call"
    BY <1>2 DEF GInv, HeldResults
  <2>2. ASSUME at[p] = "stored" PROVE p \in overtaken'
    BY <2>2 DEF GInv, HeldResults, Tick
  <2> QED BY <2>1, <2>2
<1>7. InService'
  BY <1>4 DEF InService, None, Leaving
<1> QED BY <1>5, <1>6, <1>7 DEF GInv

(* The other handlers. *)
LEMMA HandlerSteps ==
    ASSUME GInv, Clock \/ Key \/ Mouse \/ read_mouse \/ Leave
    PROVE  GInv'
<1>1. CASE Clock
  <2>1. gate.stage = "entered" /\ gate.irq = CLOCK /\ Ends(CLOCK)
        /\ UNCHANGED <<current_terminal_id, at, save_eax, overtaken>>
    BY <1>1 DEF Clock, Entered, results
  <2> QED BY <2>1, EndStep DEF IRQs
<1>2. CASE Key
  <2>1. gate.stage = "entered" /\ gate.irq = KEYBOARD /\ Ends(KEYBOARD)
        /\ UNCHANGED <<current_terminal_id, at, save_eax, overtaken>>
    BY <1>2 DEF Key, Entered, results
  <2> QED BY <2>1, EndStep DEF IRQs
<1>3. CASE Mouse
  <2>1. gate.stage = "entered" /\ gate.irq = MOUSE
        /\ UNCHANGED <<current_terminal_id, at, save_eax, overtaken>>
    BY <1>3 DEF Mouse, Entered, results
  <2>2. CASE Ends(MOUSE)
    BY <2>1, <2>2, EndStep DEF IRQs
  <2>3. CASE gate' = [stage |-> "waiting", irq |-> MOUSE] /\ UNCHANGED in_service
    BY <2>1, <2>3 DEF GInv, FlowType, HeldResults, InService, IRQs
  <2> QED BY <1>3, <2>2, <2>3 DEF Mouse
<1>4. CASE read_mouse
  <2>1. gate.stage = "waiting" /\ gate.irq = MOUSE
        /\ UNCHANGED <<current_terminal_id, at, save_eax, overtaken>>
    BY <1>4 DEF read_mouse, results, GInv, InService
  <2>2. CASE Ends(MOUSE)
    BY <2>1, <2>2, EndStep DEF IRQs
  <2>3. CASE UNCHANGED <<gate, in_service>>
    BY <2>1, <2>3 DEF GInv, FlowType, HeldResults, InService
  <2> QED BY <1>4, <2>2, <2>3 DEF read_mouse
<1>5. CASE Leave
  BY <1>5 DEF Leave, GInv, FlowType, HeldResults, InService, None, results, IRQs
<1> QED BY <1>1, <1>2, <1>3, <1>4, <1>5

(* What the devices send changes nothing the invariant speaks of. *)
LEMMA DeviceSteps ==
    ASSUME GInv, (PressKey \/ MoveMouse \/ SendRest) \/ UNCHANGED allVars
    PROVE  GInv'
<1>1. UNCHANGED <<current_terminal_id, at, gate, in_service, save_eax, overtaken>>
  BY DEF PressKey, MoveMouse, SendRest, Sends, allVars, flow, results
<1> QED BY <1>1 DEF GInv, FlowType, HeldResults, InService

LEMMA NextGInv == GInv /\ [InterruptNext]_allVars => GInv'
<1> SUFFICES ASSUME GInv, [InterruptNext]_allVars PROVE GInv'
  OBVIOUS
<1>1. CASE \E p \in Programs : Call(p) \/ CallRead(p) \/ Proceed(p) \/ Exception(p)
  BY <1>1, ProgramSteps DEF Proceed
<1>2. CASE \E irq \in IRQs : Accept(irq)
  BY <1>2, AcceptStep
<1>3. CASE Handlers
  BY <1>3, TickStep, HandlerSteps DEF Handlers
<1>4. CASE PressKey \/ MoveMouse \/ SendRest \/ UNCHANGED allVars
  BY <1>4, DeviceSteps
<1> QED BY <1>1, <1>2, <1>3, <1>4 DEF InterruptNext, IRQs

(* The invariant holds for any number of programs and any behaviour of the *)
(* devices.                                                                *)
THEOREM GateInvariance == InterruptSpec => []GInv
BY InitGInv, NextGInv, PTL DEF InterruptSpec

(* systemcall_wrapper: for any number of programs, save_eax holds a call's *)
(* own result unless it is a read preempted before it popped its flags.    *)
THEOREM ResultsDeliveredSafe == InterruptSpec => []ResultsDelivered
<1>1. GInv => ResultsDelivered
  BY DEF GInv, HeldResults, ResultsDelivered
<1> QED BY <1>1, GateInvariance, PTL

(* Every path of every handler has ended its interrupt by the time the     *)
(* processor can be interrupted again.                                     *)
THEOREM NothingLeftInServiceSafe == InterruptSpec => []NothingLeftInService
<1>1. GInv => NothingLeftInService
  BY DEF GInv, InService, NothingLeftInService, InterruptsOn
<1> QED BY <1>1, GateInvariance, PTL

(* The wrappers, the tick and the other devices leave the clock as Rtc has *)
(* it: what is proved of Rtc holds under them.                             *)
THEOREM ImplementsRtc == InterruptSpec => Spec
<1>1. InterruptInit => Init
  BY DEF InterruptInit
<1>2. [InterruptNext]_allVars => [Next]_vars
  <2> SUFFICES ASSUME [InterruptNext]_allVars PROVE [Next]_vars
    OBVIOUS
  <2>1. ASSUME NEW p \in Programs, Call(p) \/ CallRead(p) \/ Proceed(p) \/ Exception(p)
        PROVE  [Next]_vars
    BY <2>1 DEF Call, CallRead, Proceed, ClockSeen, ReadReturns, Load, Exception, Next
  <2>2. CASE \E irq \in IRQs : Accept(irq)
    BY <2>2 DEF Accept
  <2>3. CASE Handlers
    BY <2>3 DEF Handlers, Tick, Clock, Key, Mouse, read_mouse, Leave, Next
  <2>4. CASE PressKey \/ MoveMouse \/ SendRest \/ UNCHANGED allVars
    BY <2>4 DEF PressKey, MoveMouse, SendRest, Sends, allVars
  <2> QED BY <2>1, <2>2, <2>3, <2>4 DEF InterruptNext, IRQs
<1> QED BY <1>1, <1>2, PTL DEF InterruptSpec, Spec

(* Under the wrappers, the tick and preemption inside read(), the readers  *)
(* of the clock still wait for an interrupt, an open clock is heard until  *)
(* it is closed, and no other line is masked.                              *)
THEOREM ClockUnderWrappers ==
    InterruptSpec => ReadsWaitForTick /\ []OpenIsHeard /\ []OthersHeard
BY ImplementsRtc, ReadsWaitForTickSafe, OpenIsHeardSafe, OthersHeardSafe, PTL
=============================================================================
