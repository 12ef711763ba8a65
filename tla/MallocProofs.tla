---------------------------- MODULE MallocProofs ----------------------------
(***************************************************************************)
(* The blocks of malloc() do not overlap when no size reaches the limit of *)
(* a uint8_t, for any length of the table and any sequence of calls.       *)
(***************************************************************************)
EXTENDS Malloc, TLAPS

(* Every size asked for fits KB_size. *)
SmallSizes == \A n \in Sizes : n \div KB_1 + 1 < Modulus

(* The table and the blocks agree. *)
Inv ==
    /\ dynamic_memory_table \in [Cells -> 0 .. Modulus - 1]
    /\ pc \in {"user", "malloc", "null"}
    /\ pc = "malloc" => size \in Sizes /\ new_index \in Nat
    /\ DOMAIN blocks \subseteq Cells
    /\ \A b \in DOMAIN blocks :
         blocks[b] \in Sizes /\ dynamic_memory_table[b] = KBSize(blocks[b])
    /\ \A c \in Cells \ DOMAIN blocks : dynamic_memory_table[c] = 0
    /\ \A a, b \in DOMAIN blocks : a < b => a + dynamic_memory_table[a] <= b
    /\ IndexOutsideBlocks

(* A size in kilobytes rounded up is at most the one malloc() computes.    *)
LEMMA Division ==
    ASSUME NEW n \in Nat, NEW k \in Nat \ {0}
    PROVE  /\ n \div k \in Nat
           /\ (n + k - 1) \div k <= n \div k + 1
           /\ (n + k - 1) \div k \in Nat
OBVIOUS

(* The block a size gets is not empty and holds what the caller asked for. *)
LEMMA BlockSize ==
    ASSUME SmallSizes, NEW n \in Sizes
    PROVE  /\ KBSize(n) \in 1 .. Modulus - 1
           /\ Needed(n) \in Nat /\ Needed(n) <= KBSize(n)
<1>1. n \in Nat /\ KB_1 \in Nat \ {0} /\ Modulus \in Nat
  BY MallocAssumption
<1>2. n \div KB_1 \in Nat /\ n \div KB_1 + 1 < Modulus
  BY <1>1, Division DEF SmallSizes
<1> DEFINE q == n \div KB_1
<1> HIDE DEF q
<1>3. q \in Nat /\ q + 1 < Modulus => (q + 1) % Modulus = q + 1
  BY <1>1
<1>4. KBSize(n) = n \div KB_1 + 1
  BY <1>2, <1>3 DEF KBSize, q
<1> QED BY <1>1, <1>2, <1>4, Division DEF Needed

(* Jumping over one block does not land inside another. *)
LEMMA JumpInv ==
    ASSUME Inv, Jump
    PROVE  Inv'
<1> DEFINE b == new_index
<1>1. b \in Cells /\ dynamic_memory_table[b] # 0 /\ b \in DOMAIN blocks
  BY MallocAssumption DEF Jump, Inv, Cells
<1>2. dynamic_memory_table[b] \in Nat
  BY <1>1, MallocAssumption DEF Inv
<1>3. /\ new_index' = b + dynamic_memory_table[b]
      /\ UNCHANGED <<dynamic_memory_table, pc, size, blocks>>
  BY DEF Jump
<1>4. IndexOutsideBlocks'
  <2> SUFFICES ASSUME NEW a \in DOMAIN blocks, a < new_index',
                      new_index' < a + dynamic_memory_table[a]
               PROVE  FALSE
    BY <1>3 DEF IndexOutsideBlocks
  <2>1. a \in Int /\ b \in Int /\ dynamic_memory_table[a] \in Int
    BY <1>1, MallocAssumption DEF Inv, Cells
  <2>2. CASE a < b
    BY <2>1, <2>2, <1>1, <1>2, <1>3 DEF Inv
  <2>3. CASE b < a
    BY <2>1, <2>3, <1>1, <1>2, <1>3 DEF Inv
  <2>4. CASE a = b
    BY <2>1, <2>4, <1>3
  <2> QED BY <2>1, <2>2, <2>3, <2>4
<1> QED BY <1>1, <1>2, <1>3, <1>4 DEF Inv, Cells

(* A block is put where the check found its cells free of other blocks.    *)
LEMMA TakeInv ==
    ASSUME SmallSizes, Inv, Take
    PROVE  Inv'
<1> DEFINE b == new_index
           n == KBSize(size)
<1>1. b \in Cells /\ size \in Sizes /\ n \in 1 .. Modulus - 1 /\ dynamic_memory_table[b] = 0
  <2>1. b \in Cells /\ size \in Sizes /\ dynamic_memory_table[b] = 0
    BY MallocAssumption DEF Take, Inv, Cells
  <2> QED BY <2>1, BlockSize
<1>2. b \notin DOMAIN blocks
  BY <1>1, BlockSize DEF Inv
<1>3. \A c \in Cells : c >= b /\ c <= b + n - 1 => dynamic_memory_table[c] = 0
  BY DEF Take, SpaceChecks
<1>4. /\ dynamic_memory_table' = [dynamic_memory_table EXCEPT ![b] = n]
      /\ blocks' = [a \in DOMAIN blocks \cup {b} |-> IF a = b THEN size ELSE blocks[a]]
      /\ pc' = "user" /\ UNCHANGED <<size, new_index>>
  BY DEF Take
<1> HIDE DEF n
<1>5. \A a \in DOMAIN blocks :
         /\ a \in Int /\ dynamic_memory_table[a] \in Nat /\ dynamic_memory_table[a] # 0
         /\ a < b => a + dynamic_memory_table[a] <= b
         /\ b < a => b + n <= a
  <2> SUFFICES ASSUME NEW a \in DOMAIN blocks
               PROVE  /\ a \in Int /\ dynamic_memory_table[a] \in Nat
                      /\ dynamic_memory_table[a] # 0
                      /\ a < b => a + dynamic_memory_table[a] <= b
                      /\ b < a => b + n <= a
    OBVIOUS
  <2>1. a \in Cells /\ a \in Int /\ dynamic_memory_table[a] \in Nat
    BY MallocAssumption DEF Inv, Cells
  <2>2. dynamic_memory_table[a] # 0
    BY BlockSize DEF Inv
  <2>3. a < b => a + dynamic_memory_table[a] <= b
    BY <2>1, <1>1 DEF Inv, IndexOutsideBlocks, Take, Cells
  <2>4. b < a => b + n <= a
    BY <2>1, <2>2, <1>1, <1>3 DEF Cells
  <2> QED BY <2>1, <2>2, <2>3, <2>4
<1>6. dynamic_memory_table' \in [Cells -> 0 .. Modulus - 1]
  BY <1>1, <1>4, MallocAssumption DEF Inv
<1>7. DOMAIN blocks' = DOMAIN blocks \cup {b} /\ DOMAIN blocks' \subseteq Cells
  BY <1>1, <1>4 DEF Inv
<1>8. \A a \in DOMAIN blocks' :
         blocks'[a] \in Sizes /\ dynamic_memory_table'[a] = KBSize(blocks'[a])
  BY <1>1, <1>2, <1>4, <1>7 DEF Inv, n
<1>9. \A c \in Cells \ DOMAIN blocks' : dynamic_memory_table'[c] = 0
  BY <1>1, <1>4, <1>7 DEF Inv
<1>10. \A x, y \in DOMAIN blocks' : x < y => x + dynamic_memory_table'[x] <= y
  <2> SUFFICES ASSUME NEW x \in DOMAIN blocks', NEW y \in DOMAIN blocks', x < y
               PROVE  x + dynamic_memory_table'[x] <= y
    OBVIOUS
  <2>1. b \in Int /\ n \in Int /\ dynamic_memory_table'[b] = n
    BY <1>1, <1>4, MallocAssumption DEF Inv, Cells
  <2>2. \A a \in DOMAIN blocks : dynamic_memory_table'[a] = dynamic_memory_table[a]
    BY <1>2, <1>4, <1>7 DEF Inv
  <2>3. CASE x = b
    BY <2>1, <2>3, <1>5, <1>7
  <2>4. CASE y = b
    BY <2>2, <2>4, <1>5, <1>7, <2>1
  <2>5. CASE x # b /\ y # b
    BY <2>2, <2>5, <1>7 DEF Inv
  <2> QED BY <2>3, <2>4, <2>5
<1> QED BY <1>4, <1>6, <1>7, <1>8, <1>9, <1>10 DEF Inv, IndexOutsideBlocks

(* Freeing a block empties its cell of the table and no other. *)
LEMMA FreeInv ==
    ASSUME Inv, Free
    PROVE  Inv'
<1>1. PICK b \in DOMAIN blocks :
         /\ dynamic_memory_table' = [dynamic_memory_table EXCEPT ![b] = 0]
         /\ blocks' = [c \in DOMAIN blocks \ {b} |-> blocks[c]]
  BY DEF Free
<1>2. b \in Cells /\ 0 \in 0 .. Modulus - 1 /\ DOMAIN blocks' = DOMAIN blocks \ {b}
  BY <1>1, MallocAssumption DEF Inv
<1>3. dynamic_memory_table' \in [Cells -> 0 .. Modulus - 1]
  BY <1>1, <1>2 DEF Inv
<1>4. \A a \in DOMAIN blocks' :
         /\ blocks'[a] = blocks[a] /\ dynamic_memory_table'[a] = dynamic_memory_table[a]
  BY <1>1, <1>2 DEF Inv
<1>5. \A c \in Cells \ DOMAIN blocks' : dynamic_memory_table'[c] = 0
  BY <1>1, <1>2 DEF Inv
<1> QED BY <1>2, <1>3, <1>4, <1>5 DEF Inv, Free, IndexOutsideBlocks

(* The table and the blocks agree in every state. *)
THEOREM Invariance ==
    ASSUME SmallSizes
    PROVE  Spec => []Inv
<1>1. Init => Inv
  BY MallocAssumption DEF Init, Inv, IndexOutsideBlocks
<1>2. Inv /\ [Next]_vars => Inv'
  <2> SUFFICES ASSUME Inv, [Next]_vars PROVE Inv'
    OBVIOUS
  <2>1. CASE Call
    BY <2>1, MallocAssumption DEF Call, Inv, IndexOutsideBlocks, Cells
  <2>2. CASE Jump
    BY <2>2, JumpInv
  <2>3. CASE Take
    BY <2>3, TakeInv
  <2>4. CASE Stuck \/ UNCHANGED vars
    BY <2>4 DEF Stuck, vars, Inv, IndexOutsideBlocks
  <2>5. CASE Full
    BY <2>5 DEF Full, Inv, IndexOutsideBlocks
  <2>6. CASE Free
    BY <2>6, FreeInv
  <2> QED BY <2>1, <2>2, <2>3, <2>4, <2>5, <2>6 DEF Next, Loop
<1> QED BY <1>1, <1>2, PTL DEF Spec

(* Callers never hold overlapping blocks, for any arena and any sequence   *)
(* of calls with sizes below the limit of KB_size.                         *)
THEOREM NoOverlapSafe ==
    ASSUME SmallSizes
    PROVE  Spec => []NoOverlap
<1>1. Inv => NoOverlap
  <2> SUFFICES ASSUME Inv, NEW a \in DOMAIN blocks, NEW b \in DOMAIN blocks, a < b
               PROVE  a + Needed(blocks[a]) <= b
    BY DEF NoOverlap
  <2>1. a \in Int /\ b \in Int /\ a + dynamic_memory_table[a] <= b
    BY DEF Inv, Cells
  <2>2. dynamic_memory_table[a] \in Int /\ Needed(blocks[a]) \in Nat
        /\ Needed(blocks[a]) <= dynamic_memory_table[a]
    BY BlockSize DEF Inv
  <2> QED BY <2>1, <2>2
<1> QED BY <1>1, Invariance, PTL

(* The loop of malloc() only ever looks at the start of a block or at a    *)
(* free cell, never at the inside of a block a caller holds.               *)
THEOREM IndexOutsideBlocksSafe ==
    ASSUME SmallSizes
    PROVE  Spec => []IndexOutsideBlocks
<1>1. Inv => IndexOutsideBlocks
  BY DEF Inv
<1> QED BY <1>1, Invariance, PTL

-----------------------------------------------------------------------------
(* What the loop has passed lies under some length in the table.  This     *)
(* takes no limit on the sizes: a length that has wrapped to 0 is not      *)
(* jumped over.                                                            *)
Covered(c) == \E b \in Cells : b <= c /\ c < b + dynamic_memory_table[b]

SearchInv ==
    /\ dynamic_memory_table \in [Cells -> 0 .. Modulus - 1]
    /\ size \in Nat
    /\ pc = "malloc" => new_index \in Nat /\ \A c \in 0 .. new_index - 1 : c \in Cells => Covered(c)

(* A jump passes the cells of the block it jumps over, and no others.      *)
LEMMA JumpCovers ==
    ASSUME SearchInv, Jump
    PROVE  SearchInv'
<1> DEFINE b == new_index
           n == dynamic_memory_table[new_index]
<1>1. b \in Cells /\ b \in Nat /\ n \in Nat
  BY MallocAssumption DEF Jump, SearchInv, Cells
<1>2. new_index' = b + n /\ UNCHANGED <<dynamic_memory_table, pc, size>>
  BY DEF Jump
<1>3. ASSUME NEW c \in Cells, c < b + n
      PROVE  Covered(c)
  <2>1. CASE c < b
    BY <1>1, <2>1 DEF SearchInv, Jump, Cells
  <2>2. CASE b <= c
    BY <1>1, <1>3, <2>2 DEF Covered
  <2> QED BY <1>1, <2>1, <2>2 DEF Cells
<1> HIDE DEF b, n
<1>4. b + n \in Nat
  BY <1>1
<1>5. \A c \in 0 .. (b + n) - 1 : c \in Cells => Covered(c)
  BY <1>1, <1>3
<1> QED BY <1>2, <1>4, <1>5 DEF SearchInv, Covered

(* malloc() returns NULL only when the lengths in the table cover every    *)
(* cell: none has been passed over, whatever the sizes.                    *)
THEOREM NullMeansFullSafe == Spec => NullMeansFull
<1>1. Init => SearchInv
  BY MallocAssumption DEF Init, SearchInv
<1>2. SearchInv /\ [Next]_vars => SearchInv'
  <2> SUFFICES ASSUME SearchInv, [Next]_vars PROVE SearchInv'
    OBVIOUS
  <2>1. CASE Call
    BY <2>1, MallocAssumption DEF Call, SearchInv
  <2>2. CASE Jump
    BY <2>2, JumpCovers
  <2>3. CASE Take
    <3>1. KBSize(size) \in 0 .. Modulus - 1
      <4>1. size \div KB_1 + 1 \in Nat
        BY MallocAssumption, Division DEF SearchInv
      <4>2. \A q \in Nat : q % Modulus \in 0 .. Modulus - 1
        BY MallocAssumption
      <4> QED BY <4>1, <4>2 DEF KBSize
    <3> QED BY <2>3, <3>1 DEF Take, SearchInv
  <2>4. CASE Free
    <3>1. PICK b : dynamic_memory_table' = [dynamic_memory_table EXCEPT ![b] = 0]
      BY <2>4 DEF Free
    <3>2. 0 \in 0 .. Modulus - 1 /\ pc # "malloc" /\ UNCHANGED <<pc, size>>
      BY <2>4, MallocAssumption DEF Free
    <3> QED BY <3>1, <3>2 DEF SearchInv
  <2>5. CASE Stuck \/ UNCHANGED vars
    BY <2>5 DEF Stuck, vars, SearchInv, Covered
  <2>6. CASE Full
    BY <2>6 DEF Full, SearchInv
  <2> QED BY <2>1, <2>2, <2>3, <2>4, <2>5, <2>6 DEF Next, Loop
<1>3. SearchInv /\ [Next]_vars =>
        [pc = "malloc" /\ pc' = "null" =>
           \A c \in Cells : \E b \in Cells :
              b <= c /\ c < b + dynamic_memory_table[b]]_vars
  <2> SUFFICES ASSUME SearchInv, [Next]_vars, pc = "malloc", pc' = "null", NEW c \in Cells
               PROVE  Covered(c)
    BY DEF Covered
  <2>1. Full
    BY DEF Next, Loop, Call, Jump, Take, Stuck, GapTooShort, Free, vars
  <2>2. c \in 0 .. new_index - 1
    BY <2>1, MallocAssumption DEF Full, SearchInv, Cells
  <2> QED BY <2>2 DEF SearchInv
<1>4. Spec => [][pc = "malloc" /\ pc' = "null" =>
                   \A c \in Cells : \E b \in Cells :
                      b <= c /\ c < b + dynamic_memory_table[b]]_vars
  BY <1>1, <1>2, <1>3, PTL DEF Spec
<1> QED BY <1>4 DEF NullMeansFull
=============================================================================
