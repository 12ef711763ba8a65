------------------------------- MODULE I8259 -------------------------------
(***************************************************************************)
(* The two interrupt controllers (i8259.c).  A mask is the set of its      *)
(* lines that are masked; the slave hangs on line 2 of the master.  What   *)
(* is in service is kept the same way, by whoever takes interrupts.        *)
(***************************************************************************)
EXTENDS Integers

Lines == 0 .. 7
ICW3_SLAVE == 2

VARIABLES master_mask, slave_mask

masks == <<master_mask, slave_mask>>

AllMasked == [master |-> Lines, slave |-> Lines]

-----------------------------------------------------------------------------
(* A definition whose name ends in _ and a defect is not used by the       *)
(* specification: it is what the next definition would be with that defect *)
(* in the code.                                                            *)

(* The bit 1 << (irq_num - 8) of the slave's byte: the processor takes the *)
(* shift count modulo 32, and a bit above the byte is lost.                *)
SlaveLines(irq) == {(irq - 8) % 32} \cap Lines

(* The masks after enable_irq(irq)... *)
Enabled(m, irq) ==
    IF irq < 8
    THEN [m EXCEPT !.master = @ \ {irq}]
    ELSE [master |-> m.master \ {ICW3_SLAVE}, slave |-> m.slave \ SlaveLines(irq)]

Disabled_AllLines(m, irq) ==
    IF irq < 8
    THEN [m EXCEPT !.master = @ \cup {irq}]
    ELSE [master |-> m.master, slave |-> Lines]

(* ... and after disable_irq(irq): line 2 is masked when every line of the *)
(* slave was so before.                                                    *)
Disabled(m, irq) ==
    IF irq < 8
    THEN [m EXCEPT !.master = @ \cup {irq}]
    ELSE [master |-> IF m.slave = Lines THEN m.master \cup {ICW3_SLAVE} ELSE m.master,
          slave |-> m.slave \cup SlaveLines(irq)]

Masks == [master |-> master_mask, slave |-> slave_mask]

SetMasks(m) == master_mask' = m.master /\ slave_mask' = m.slave

(* Whether a device on the line can interrupt. *)
Passes(irq) ==
    IF irq < 8 THEN irq \notin master_mask
    ELSE ICW3_SLAVE \notin master_mask /\ irq - 8 \notin slave_mask

-----------------------------------------------------------------------------
NothingInService == [master |-> {}, slave |-> {}]

(* The processor takes an interrupt of the line... *)
Acknowledged(s, irq) ==
    IF irq < 8
    THEN [master |-> s.master \cup {irq}, slave |-> s.slave]
    ELSE [master |-> s.master \cup {ICW3_SLAVE}, slave |-> s.slave \cup {irq - 8}]

(* ... which it may while no line of the same or a higher priority is in   *)
(* service.                                                                *)
NotHeldUp(s, irq) ==
    /\ \A l \in s.master : (IF irq < 8 THEN irq ELSE ICW3_SLAVE) < l
    /\ irq >= 8 => \A l \in s.slave : irq - 8 < l

(* send_eoi(): the end of an interrupt of the slave is told to both.       *)
send_eoi_SlaveOnly(s, irq) ==
    IF irq < 8
    THEN [master |-> s.master \ {irq}, slave |-> s.slave]
    ELSE [master |-> s.master, slave |-> s.slave \ {irq - 8}]

send_eoi(s, irq) ==
    IF irq < 8
    THEN [master |-> s.master \ {irq}, slave |-> s.slave]
    ELSE [master |-> s.master \ {ICW3_SLAVE}, slave |-> s.slave \ {irq - 8}]
=============================================================================
