------------------------------- MODULE Malloc -------------------------------
(***************************************************************************)
(* malloc() and free() of malloc.c, system calls 11 and 12.  The table has *)
(* one byte per kilobyte: at the first kilobyte of a block its length, 0   *)
(* everywhere else.  malloc() is taken one turn of its loop at a time; it  *)
(* runs with interrupts off, so nothing else happens between two turns.    *)
(***************************************************************************)
EXTENDS Integers, FiniteSets

CONSTANTS
    KB_4,       \* length of dynamic_memory_table
    KB_1,       \* bytes per cell
    Modulus,    \* 256: KB_size and the table are of type uint8_t
    Sizes       \* the sizes programs ask for, in bytes

ASSUME MallocAssumption ==
    /\ KB_4 \in Nat \ {0}
    /\ KB_1 \in Nat \ {0}
    /\ Modulus \in Nat \ {0}
    /\ Sizes \subseteq Nat

VARIABLES
    dynamic_memory_table,
    pc,             \* "user", "malloc", or "null": the last malloc returned NULL
    size,           \* argument of the call in progress
    new_index,      \* its loop index
    blocks          \* the blocks callers hold: first cell -> size asked for

vars == <<dynamic_memory_table, pc, size, new_index, blocks>>

Cells == 0 .. KB_4 - 1

(* The cells a caller who asked for n bytes may use. *)
Needed(n) == (n + KB_1 - 1) \div KB_1

(* The cells malloc() reserves.  A definition whose name ends in _ and a   *)
(* defect is not used by the specification: it is what the next definition *)
(* would be with that defect in the code.                                  *)
KBSize_NotRoundedUp(n) == (n \div KB_1) % Modulus

KBSize(n) == (n \div KB_1 + 1) % Modulus

TypeOK ==
    /\ dynamic_memory_table \in [Cells -> 0 .. Modulus - 1]
    /\ pc \in {"user", "malloc", "null"}
    /\ size \in Sizes \cup {0}
    /\ new_index \in 0 .. KB_4 + Modulus
    /\ DOMAIN blocks \subseteq Cells
    /\ \A b \in DOMAIN blocks : blocks[b] \in Sizes

(* init_dynamic_memory() *)
Init ==
    /\ dynamic_memory_table = [c \in Cells |-> 0]
    /\ pc = "user"
    /\ size = 0
    /\ new_index = 0
    /\ blocks = [b \in {} |-> 0]

Call ==
    /\ pc # "malloc"
    /\ \E n \in Sizes : size' = n
    /\ new_index' = 0
    /\ pc' = "malloc"
    /\ UNCHANGED <<dynamic_memory_table, blocks>>

(* What the check of KB_size cells from new_index finds.  Past the end of  *)
(* the table it reads whatever the linker put there.                       *)
SpaceChecks ==
    LET last == new_index + KBSize(size) - 1
        taken == \E c \in Cells : c >= new_index /\ c <= last /\ dynamic_memory_table[c] # 0
    IN  IF taken THEN {FALSE} ELSE IF last >= KB_4 THEN BOOLEAN ELSE {TRUE}

(* The cell is the start of a block: jump over the block. *)
Jump_ByOne ==
    /\ pc = "malloc"
    /\ new_index < KB_4
    /\ dynamic_memory_table[new_index] # 0
    /\ new_index' = new_index + 1
    /\ UNCHANGED <<dynamic_memory_table, pc, size, blocks>>

Jump_IndexKept ==
    /\ pc = "malloc"
    /\ new_index < KB_4
    /\ dynamic_memory_table[new_index] # 0
    /\ UNCHANGED vars

Jump ==
    /\ pc = "malloc"
    /\ new_index < KB_4
    /\ dynamic_memory_table[new_index] # 0
    /\ new_index' = new_index + dynamic_memory_table[new_index]
    /\ UNCHANGED <<dynamic_memory_table, pc, size, blocks>>

(* The cell is free and so is the space the block needs. *)
Take ==
    /\ pc = "malloc"
    /\ new_index < KB_4
    /\ dynamic_memory_table[new_index] = 0
    /\ TRUE \in SpaceChecks
    /\ dynamic_memory_table' = [dynamic_memory_table EXCEPT ![new_index] = KBSize(size)]
    /\ blocks' = [b \in DOMAIN blocks \cup {new_index} |->
                    IF b = new_index THEN size ELSE blocks[b]]
    /\ pc' = "user"
    /\ UNCHANGED <<size, new_index>>

(* The cell is free and the space is not: the loop goes round again with   *)
(* the same index.                                                         *)
GapTooShort ==
    /\ pc = "malloc"
    /\ new_index < KB_4
    /\ dynamic_memory_table[new_index] = 0
    /\ FALSE \in SpaceChecks

Stuck == GapTooShort /\ UNCHANGED vars

Full_OneEarly ==
    /\ pc = "malloc"
    /\ new_index >= KB_4 - 1
    /\ pc' = "null"
    /\ UNCHANGED <<dynamic_memory_table, size, new_index, blocks>>

Full ==
    /\ pc = "malloc"
    /\ new_index >= KB_4
    /\ pc' = "null"
    /\ UNCHANGED <<dynamic_memory_table, size, new_index, blocks>>

(* free() of a pointer malloc() returned. *)
Free ==
    /\ pc # "malloc"
    /\ \E b \in DOMAIN blocks :
         /\ dynamic_memory_table' = [dynamic_memory_table EXCEPT ![b] = 0]
         /\ blocks' = [c \in DOMAIN blocks \ {b} |-> blocks[c]]
    /\ UNCHANGED <<pc, size, new_index>>

Loop == Jump \/ Take \/ Stuck \/ Full
Next == Call \/ Loop \/ Free
Spec == Init /\ [][Next]_vars

(* The loop runs with interrupts off: it is not stopped half-way. *)
FairSpec == Spec /\ WF_vars(Loop)

-----------------------------------------------------------------------------
(* The blocks callers hold do not overlap. *)
NoOverlap ==
    \A a, b \in DOMAIN blocks : a < b => a + Needed(blocks[a]) <= b

(* A block is inside the arena malloc() manages ("check if we have enough  *)
(* consecutive availble space", malloc.c).                                 *)
InArena == \A b \in DOMAIN blocks : b + Needed(blocks[b]) <= KB_4

(* The loop never lands inside a block: what it takes is never in use.     *)
IndexOutsideBlocks ==
    pc = "malloc" =>
        \A b \in DOMAIN blocks :
            ~(b < new_index /\ new_index < b + dynamic_memory_table[b])

(* malloc() returns NULL only when "all the space has been allocated"      *)
(* (malloc.c): the lengths in the table cover every cell.                  *)
NullMeansFull ==
    [][pc = "malloc" /\ pc' = "null" =>
         \A c \in Cells : \E b \in Cells :
            b <= c /\ c < b + dynamic_memory_table[b]]_vars

(* malloc() comes to an end, however the blocks lie, unless the search is  *)
(* at free space too short for the request: it never passes over such a    *)
(* gap.                                                                    *)
SearchEnds == pc = "malloc" ~> pc # "malloc" \/ GapTooShort

(* malloc(), "looking for next available spot" (malloc.c), finds one or     *)
(* returns NULL.  It does not: see SearchEnds.                             *)
MallocReturns == pc = "malloc" ~> pc # "malloc"
=============================================================================
