-------------------------- MODULE Game2048Proofs ---------------------------
(***************************************************************************)
(* What is proved of Game2048, for every size of board: the loops of a     *)
(* move leave on every line what the rules of the game make of it; the     *)
(* flag moved says whether a move changes the board, and                   *)
(* legal_move_check() whether some move does.                              *)
(***************************************************************************)
EXTENDS Game2048, SequenceTheorems, WellFoundedInduction, TLAPS

-----------------------------------------------------------------------------
(* Numbers *)

(* A set of numbers that is not empty has a least element.                 *)
LEMMA Least ==
    ASSUME NEW T, T \subseteq Nat, T # {}
    PROVE  \E n \in T : \A k \in 0 .. n - 1 : k \notin T
<1> DEFINE R == OpToRel(<, Nat)
<1>1. IsWellFoundedOn(R, Nat)
  BY NatLessThanWellFounded
<1>2. \A x, y \in Nat : x < y => <<x, y>> \in R
  BY DEF OpToRel
<1> HIDE DEF R
<1>3. PICK n \in T : \A y \in T : ~(<<y, n>> \in R)
  BY <1>1, WFMin
<1>4. ASSUME NEW k \in 0 .. n - 1, k \in T PROVE FALSE
  <2>1. k \in Nat /\ n \in Nat /\ k < n
    BY <1>4
  <2> QED BY <2>1, <1>2, <1>3, <1>4
<1> QED BY <1>4

(* Induction up to a number, for a set.                                    *)
LEMMA SetInduction ==
    ASSUME NEW n \in Nat, NEW T, 0 \in T, \A k \in 1 .. n : k - 1 \in T => k \in T
    PROVE  \A k \in 0 .. n : k \in T
<1> DEFINE U == {k \in 0 .. n : k \notin T}
<1> SUFFICES ASSUME U # {} PROVE FALSE
  OBVIOUS
<1> U \subseteq Nat
  OBVIOUS
<1> HIDE DEF U
<1>1. PICK m \in U : \A k \in 0 .. m - 1 : k \notin U
  BY Least
<1> USE DEF U
<1>2. m \in 1 .. n
  OBVIOUS
<1>3. m - 1 \in 0 .. n /\ m - 1 \in 0 .. m - 1
  BY <1>2
<1>4. m - 1 \in T
  BY <1>1, <1>3
<1> QED BY <1>2, <1>4

(* A function on 1 .. n is a sequence of n.                                *)
LEMMA Sequence ==
    ASSUME NEW n \in Nat, NEW s, DOMAIN s = 1 .. n, s = [i \in 1 .. n |-> s[i]]
    PROVE  Len(s) = n
<1> DEFINE S == {s[i] : i \in 1 .. n}
<1>1. s \in Seq(S)
  BY SeqDef
<1> QED BY <1>1, LenProperties

-----------------------------------------------------------------------------
(* One line *)

Tiles == {EMPTY} \cup (Nat \ {0})

\* The line is greater at the first place where it differs from the other.
Above(n, line, other) ==
    \E k \in 1 .. n : line[k] > other[k] /\ \A i \in 1 .. k - 1 : line[i] = other[i]

\* What a move on a line of n makes of it on the way.
States(n) == [line : [1 .. n -> Tiles], gain : Nat, moved : BOOLEAN]

\* A move on a line of n has come as far as s.
OnTheWay(n, line, s) ==
    /\ s \in States(n)
    /\ s.moved => Above(n, s.line, line)
    /\ ~s.moved => s.line = line

LEMMA AboveTrans ==
    ASSUME NEW n \in Nat, NEW a \in [1 .. n -> Tiles], NEW b \in [1 .. n -> Tiles],
           NEW c \in [1 .. n -> Tiles], Above(n, a, b), Above(n, b, c)
    PROVE  Above(n, a, c)
<1>1. PICK k \in 1 .. n : a[k] > b[k] /\ \A i \in 1 .. k - 1 : a[i] = b[i]
  BY DEF Above
<1>2. PICK m \in 1 .. n : b[m] > c[m] /\ \A i \in 1 .. m - 1 : b[i] = c[i]
  BY DEF Above
<1>3. \A i \in 1 .. n : a[i] \in Int /\ b[i] \in Int /\ c[i] \in Int
  BY DEF Tiles, EMPTY
<1>4. CASE k < m
  <2>1. a[k] > c[k] /\ \A i \in 1 .. k - 1 : a[i] = c[i]
    BY <1>1, <1>2, <1>3, <1>4
  <2> QED BY <2>1 DEF Above
<1>5. CASE m <= k
  <2>1. m \in 1 .. k /\ b[m] > c[m] /\ a[m] \in Int /\ b[m] \in Int /\ c[m] \in Int
    BY <1>2, <1>3, <1>5
  <2>2. a[m] >= b[m]
    <3>1. CASE m = k
      BY <3>1, <2>1, <1>1
    <3>2. CASE m < k
      <4>1. a[m] = b[m]
        BY <3>2, <2>1, <1>1
      <4> QED BY <4>1, <2>1
    <3> QED BY <3>1, <3>2, <1>5
  <2>3. \A i \in 1 .. m - 1 : a[i] = c[i]
    BY <1>1, <1>2, <1>5
  <2> QED BY <2>1, <2>2, <2>3 DEF Above
<1> QED BY <1>4, <1>5

LEMMA AboveDiffers ==
    ASSUME NEW n \in Nat, NEW a \in [1 .. n -> Tiles], NEW b \in [1 .. n -> Tiles], Above(n, a, b)
    PROVE  a # b
BY DEF Above, Tiles, EMPTY

\* The line with new tiles at a place and behind it.
TwoPut(new, line, k, tile) == new = [line EXCEPT ![k] = tile, ![k + 1] = EMPTY]

LEMMA TwoTiles ==
    ASSUME NEW n \in Nat, NEW line \in [1 .. n -> Tiles], NEW k \in 1 .. n - 1, NEW tile \in Tiles,
           NEW new, TwoPut(new, line, k, tile)
    PROVE  /\ new \in [1 .. n -> Tiles] /\ new[k] = tile /\ new[k + 1] = EMPTY
           /\ \A i \in 1 .. n : i \notin {k, k + 1} => new[i] = line[i]
<1>1. PICK u : u = [line EXCEPT ![k] = tile]
  OBVIOUS
<1>2. new = [u EXCEPT ![k + 1] = EMPTY]
  BY <1>1 DEF TwoPut
<1>3. EMPTY \in Tiles /\ k \in 1 .. n /\ k + 1 \in 1 .. n /\ k # k + 1
  BY DEF Tiles
<1>4. /\ u \in [1 .. n -> Tiles] /\ u[k] = tile
      /\ \A i \in 1 .. n : i # k => u[i] = line[i]
  BY <1>1, <1>3
<1>5. /\ new \in [1 .. n -> Tiles] /\ new[k] = tile /\ new[k + 1] = EMPTY
      /\ \A i \in 1 .. n : i \notin {k, k + 1} => new[i] = line[i]
  BY <1>2, <1>3, <1>4
<1> QED BY <1>5

(* What a swap and what a merge does.                                      *)
LEMMA SwappedIs ==
    ASSUME NEW n \in Nat, NEW s \in States(n), NEW k \in 1 .. n - 1
    PROVE  LET r == Swapped(s, k) IN
           /\ r \in States(n)
           /\ ~Gap(s.line, k) => r = s
           /\ Gap(s.line, k) =>
                /\ r.moved /\ r.line[k] = s.line[k + 1] /\ r.line[k + 1] = EMPTY
                /\ \A i \in 1 .. n : i \notin {k, k + 1} => r.line[i] = s.line[i]
<1>1. s.line \in [1 .. n -> Tiles] /\ s.gain \in Nat
  BY DEF States
<1>2. CASE Gap(s.line, k)
  <2>1. PICK new : new = [s.line EXCEPT ![k] = s.line[k + 1], ![k + 1] = EMPTY]
    OBVIOUS
  <2>2. s.line[k + 1] \in Tiles
    BY <1>1
  <2>3. /\ new \in [1 .. n -> Tiles] /\ new[k] = s.line[k + 1] /\ new[k + 1] = EMPTY
        /\ \A i \in 1 .. n : i \notin {k, k + 1} => new[i] = s.line[i]
    <3>1. PICK line, tile : line = s.line /\ tile = s.line[k + 1]
      OBVIOUS
    <3>2. line \in [1 .. n -> Tiles] /\ tile \in Tiles /\ TwoPut(new, line, k, tile)
      BY <1>1, <2>1, <2>2, <3>1 DEF TwoPut
    <3> QED BY <3>1, <3>2, TwoTiles
  <2>4. Swapped(s, k) = [line |-> new, gain |-> s.gain, moved |-> TRUE]
    BY <1>2, <2>1 DEF Swapped
  <2> QED BY <1>1, <1>2, <2>3, <2>4 DEF States
<1>3. CASE ~Gap(s.line, k)
  BY <1>3 DEF Swapped
<1> QED BY <1>2, <1>3

LEMMA DoubledIs ==
    ASSUME NEW n \in Nat, NEW s \in States(n), NEW k \in 1 .. n - 1
    PROVE  LET r == Doubled(s, k) IN
           /\ r \in States(n)
           /\ ~Twins(s.line, k) => r = s
           /\ Twins(s.line, k) =>
                /\ r.moved /\ r.line[k] = 2 * s.line[k] /\ r.line[k + 1] = EMPTY
                /\ \A i \in 1 .. n : i \notin {k, k + 1} => r.line[i] = s.line[i]
<1>1. s.line \in [1 .. n -> Tiles] /\ s.gain \in Nat
  BY DEF States
<1>2. CASE Twins(s.line, k)
  <2>1. PICK new : new = [s.line EXCEPT ![k] = 2 * s.line[k], ![k + 1] = EMPTY]
    OBVIOUS
  <2>2. s.line[k] \in Nat \ {0} /\ 2 * s.line[k] \in Nat \ {0} /\ 2 * s.line[k] \in Tiles
    BY <1>1, <1>2 DEF Twins, Tiles
  <2>3. /\ new \in [1 .. n -> Tiles] /\ new[k] = 2 * s.line[k] /\ new[k + 1] = EMPTY
        /\ \A i \in 1 .. n : i \notin {k, k + 1} => new[i] = s.line[i]
    <3>1. PICK line, tile : line = s.line /\ tile = 2 * s.line[k]
      OBVIOUS
    <3>2. line \in [1 .. n -> Tiles] /\ tile \in Tiles /\ TwoPut(new, line, k, tile)
      BY <1>1, <2>1, <2>2, <3>1 DEF TwoPut
    <3> QED BY <3>1, <3>2, TwoTiles
  <2>4. Doubled(s, k) = [line |-> new, gain |-> s.gain + 2 * s.line[k], moved |-> TRUE]
    BY <1>2, <2>1 DEF Doubled
  <2>5. s.gain + 2 * s.line[k] \in Nat
    BY <1>1, <2>2
  <2> QED BY <1>2, <2>3, <2>4, <2>5 DEF States
<1>3. CASE ~Twins(s.line, k)
  BY <1>3 DEF Doubled
<1> QED BY <1>2, <1>3

\* The line has become greater at a place, and not changed before it.
LEMMA Changed ==
    ASSUME NEW n \in Nat, NEW line \in [1 .. n -> Tiles], NEW s, OnTheWay(n, line, s),
           NEW r \in States(n), r.moved, NEW k \in 1 .. n - 1, r.line[k] > s.line[k],
           \A i \in 1 .. n : i \notin {k, k + 1} => r.line[i] = s.line[i]
    PROVE  OnTheWay(n, line, r)
<1>1. s.line \in [1 .. n -> Tiles] /\ r.line \in [1 .. n -> Tiles] /\ k \in 1 .. n
  BY DEF OnTheWay, States
<1>2. \A i \in 1 .. k - 1 : r.line[i] = s.line[i]
  OBVIOUS
<1>3. Above(n, r.line, s.line)
  BY <1>1, <1>2 DEF Above
<1>4. Above(n, r.line, line)
  <2>1. CASE s.moved
    BY <2>1, <1>1, <1>3, AboveTrans DEF OnTheWay
  <2>2. CASE ~s.moved
    BY <2>2, <1>3 DEF OnTheWay
  <2> QED BY <2>1, <2>2
<1> QED BY <1>4 DEF OnTheWay

LEMMA SwappedFacts ==
    ASSUME NEW n \in Nat, NEW line \in [1 .. n -> Tiles], NEW s, OnTheWay(n, line, s),
           NEW k \in 1 .. n - 1
    PROVE  /\ OnTheWay(n, line, Swapped(s, k))
           /\ Swapped(s, k).moved <=> s.moved \/ Gap(line, k)
<1>1. /\ s \in States(n) /\ s.line \in [1 .. n -> Tiles] /\ k \in 1 .. n /\ k + 1 \in 1 .. n
      /\ s.moved \in BOOLEAN
  BY DEF OnTheWay, States
<1>2. CASE Gap(s.line, k)
  <2>1. s.line[k + 1] \in Nat \ {0} /\ s.line[k + 1] > s.line[k]
    BY <1>1, <1>2 DEF Gap, Tiles, EMPTY
  <2>2. PICK r : r = Swapped(s, k)
    OBVIOUS
  <2>3. /\ r \in States(n) /\ r.moved /\ r.line[k] > s.line[k]
        /\ \A i \in 1 .. n : i \notin {k, k + 1} => r.line[i] = s.line[i]
    BY <1>1, <1>2, <2>1, <2>2, SwappedIs
  <2>4. OnTheWay(n, line, r)
    BY <2>3, Changed
  <2> QED BY <1>2, <2>2, <2>3, <2>4 DEF OnTheWay
<1>3. CASE ~Gap(s.line, k)
  BY <1>1, <1>3 DEF Swapped, OnTheWay
<1> QED BY <1>2, <1>3

LEMMA DoubledFacts ==
    ASSUME NEW n \in Nat, NEW line \in [1 .. n -> Tiles], NEW s, OnTheWay(n, line, s),
           NEW k \in 1 .. n - 1
    PROVE  /\ OnTheWay(n, line, Doubled(s, k))
           /\ Doubled(s, k).moved <=> s.moved \/ Twins(line, k)
<1>1. /\ s \in States(n) /\ s.line \in [1 .. n -> Tiles] /\ k \in 1 .. n /\ k + 1 \in 1 .. n
      /\ s.moved \in BOOLEAN
  BY DEF OnTheWay, States
<1>2. CASE Twins(s.line, k)
  <2>1. 2 * s.line[k] > s.line[k]
    BY <1>1, <1>2 DEF Twins, Tiles, EMPTY
  <2>2. PICK r : r = Doubled(s, k)
    OBVIOUS
  <2>3. /\ r \in States(n) /\ r.moved /\ r.line[k] > s.line[k]
        /\ \A i \in 1 .. n : i \notin {k, k + 1} => r.line[i] = s.line[i]
    BY <1>1, <1>2, <2>1, <2>2, DoubledIs
  <2>4. OnTheWay(n, line, r)
    BY <2>3, Changed
  <2> QED BY <1>2, <2>2, <2>3, <2>4 DEF OnTheWay
<1>3. CASE ~Twins(s.line, k)
  BY <1>1, <1>3 DEF Doubled, OnTheWay
<1> QED BY <1>2, <1>3

-----------------------------------------------------------------------------
(* The loops of a move.  A recursive function is a CHOOSE: what it is has  *)
(* to be shown to exist.                                                   *)

(* Steps that each make an element of a set out of the last one.           *)
Links(f, n, D, s, step) ==
    f \in [0 .. n -> D] /\ f[0] = s /\ \A k \in 1 .. n : f[k] = step[<<k, f[k - 1]>>]

LEMMA Chain ==
    ASSUME NEW n \in Nat, NEW D, NEW s \in D, NEW step \in [(1 .. n) \X D -> D]
    PROVE  \E f : Links(f, n, D, s, step)
<1> DEFINE Upto(m, f) == Links(f, m, D, s, step)
           T == {m \in 0 .. n : \E f : Upto(m, f)}
<1>1. 0 \in T
  <2> DEFINE f == [k \in 0 .. 0 |-> s]
  <2>1. f \in [0 .. 0 -> D] /\ f[0] = s
    OBVIOUS
  <2> HIDE DEF f
  <2>2. Upto(0, f)
    BY <2>1 DEF Links
  <2> HIDE DEF Upto
  <2> QED BY <2>2
<1>2. ASSUME NEW m \in 1 .. n, m - 1 \in T PROVE m \in T
  <2>1. PICK f : Upto(m - 1, f)
    BY <1>2
  <2> USE DEF Links
  <2>2. f[m - 1] \in D
    BY <2>1
  <2>3. PICK d \in D : d = step[<<m, f[m - 1]>>]
    BY <2>2
  <2> DEFINE g == [k \in 0 .. m |-> IF k = m THEN d ELSE f[k]]
  <2>4. g \in [0 .. m -> D] /\ g[m] = d /\ \A k \in 0 .. m - 1 : g[k] = f[k]
    BY <2>1
  <2> HIDE DEF g
  <2>5. \A k \in 1 .. m : g[k] = step[<<k, g[k - 1]>>]
    <3> TAKE k \in 1 .. m
    <3>1. CASE k = m
      <4>1. g[m - 1] = f[m - 1]
        BY <2>4
      <4> QED BY <3>1, <4>1, <2>3, <2>4
    <3>2. CASE k # m
      <4>1. k \in 1 .. m - 1 /\ k - 1 \in 0 .. m - 1 /\ k \in 0 .. m - 1
        BY <3>2
      <4>2. g[k] = f[k] /\ g[k - 1] = f[k - 1] /\ f[k] = step[<<k, f[k - 1]>>]
        BY <2>1, <2>4, <4>1
      <4> QED BY <4>2
    <3> QED BY <3>1, <3>2
  <2>6. g[0] = s
    BY <2>1, <2>4
  <2>7. Upto(m, g)
    BY <2>4, <2>5, <2>6
  <2> QED BY <2>7
<1> HIDE DEF T
<1>3. n \in T
  BY <1>1, <1>2, SetInduction
<1> QED BY <1>3 DEF T

\* A pass goes through all neighbours of a line of n.
Covers(order, n) ==
    /\ Len(order) = n - 1
    /\ \A i \in 1 .. n - 1 : order[i] \in 1 .. n - 1
    /\ \A k \in 1 .. n - 1 : \E i \in 1 .. n - 1 : order[i] = k

(* The passes of every key go through all neighbours.                      *)
LEMMA CoversFacts ==
    ASSUME NEW n \in Nat \ {0}, NEW key
    PROVE  Covers(Order(key, n), n)
<1>1. PICK order : order = Order(key, n)
  OBVIOUS
<1>2. /\ order = [k \in 1 .. n - 1 |-> order[k]]
      /\ \A k \in 1 .. n - 1 : order[k] = IF key \in {"w", "a"} THEN k ELSE n - k
  BY <1>1 DEF Order
<1>3. Len(order) = n - 1
  BY <1>2, Sequence
<1>4. \A k \in 1 .. n - 1 : \E i \in 1 .. n - 1 : order[i] = k
  <2> TAKE k \in 1 .. n - 1
  <2>1. n - k \in 1 .. n - 1 /\ n - (n - k) = k
    OBVIOUS
  <2>2. CASE key \in {"w", "a"}
    <3>1. order[k] = k
      BY <2>2, <1>2
    <3> QED BY <3>1
  <2>3. CASE ~(key \in {"w", "a"})
    <3>1. order[n - k] = k
      BY <2>1, <2>3, <1>2
    <3> QED BY <3>1, <2>1
  <2> QED BY <2>2, <2>3
<1>5. \A k \in 1 .. n - 1 : order[k] \in 1 .. n - 1
  BY <1>2
<1> QED BY <1>1, <1>3, <1>4, <1>5 DEF Covers

IsPass(f, s, order) ==
    f = [i \in 0 .. Len(order) |-> IF i = 0 THEN s ELSE Swapped(f[i - 1], order[i])]
AfterSteps(s, order) == CHOOSE f : IsPass(f, s, order)

LEMMA PassIs ==
    ASSUME NEW s, NEW order
    PROVE  Pass(s, order) = AfterSteps(s, order)[Len(order)]
BY DEF Pass, AfterSteps, IsPass

LEMMA PassUnfold ==
    ASSUME NEW n \in Nat \ {0}, NEW s \in States(n), NEW order, Covers(order, n)
    PROVE  \E f : /\ f \in [0 .. n - 1 -> States(n)] /\ f[0] = s
                  /\ \A i \in 1 .. n - 1 : f[i] = Swapped(f[i - 1], order[i])
                  /\ Pass(s, order) = f[n - 1]
<1>1. PICK m \in Nat : m = n - 1
  OBVIOUS
<1> DEFINE D == States(n)
           step == [x \in (1 .. m) \X D |-> Swapped(x[2], order[x[1]])]
<1>2. \A i \in 1 .. m : \A d \in D : Swapped(d, order[i]) \in D
  BY <1>1, SwappedIs DEF Covers
<1> HIDE DEF D
<1>3. step \in [(1 .. m) \X D -> D]
  BY <1>2
<1>4. \A i \in 1 .. m : \A d \in D : step[<<i, d>>] = Swapped(d, order[i])
  OBVIOUS
<1> HIDE DEF step
<1>5. s \in D
  BY DEF D
<1>a. PICK f : Links(f, m, D, s, step)
  BY <1>3, <1>5, Chain
<1>6. f \in [0 .. m -> D] /\ f[0] = s /\ \A i \in 1 .. m : f[i] = step[<<i, f[i - 1]>>]
  BY <1>a DEF Links
<1>7. \A i \in 1 .. m : f[i] = Swapped(f[i - 1], order[i])
  <2> TAKE i \in 1 .. m
  <2>1. f[i - 1] \in D
    BY <1>6
  <2> QED BY <2>1, <1>4, <1>6
<1>8. f = [i \in 0 .. m |-> IF i = 0 THEN s ELSE Swapped(f[i - 1], order[i])]
  BY <1>6, <1>7
<1>9. IsPass(f, s, order)
  BY <1>8, <1>1 DEF IsPass, Covers
<1>10. PICK g : IsPass(g, s, order) /\ g = AfterSteps(s, order)
  BY <1>9 DEF AfterSteps
<1>11. g = [i \in 0 .. m |-> IF i = 0 THEN s ELSE Swapped(g[i - 1], order[i])]
  BY <1>10, <1>1 DEF IsPass, Covers
<1>12. g[0] = s /\ \A i \in 1 .. m : g[i] = Swapped(g[i - 1], order[i])
  BY <1>11
<1> DEFINE T == {i \in 0 .. m : g[i] \in D}
<1>13. 0 \in T
  BY <1>5, <1>12
<1>14. ASSUME NEW i \in 1 .. m, i - 1 \in T PROVE i \in T
  <2>1. PICK d \in D : d = g[i - 1]
    BY <1>14
  <2>2. g[i] = Swapped(d, order[i])
    BY <1>12, <2>1
  <2> QED BY <1>2, <2>1, <2>2
<1> HIDE DEF T
<1>15. \A i \in 0 .. m : i \in T
  BY <1>13, <1>14, SetInduction
<1>16. g \in [0 .. m -> D]
  BY <1>11, <1>15 DEF T
<1>17. Pass(s, order) = g[m]
  BY <1>1, <1>10, PassIs DEF Covers
<1> QED BY <1>1, <1>12, <1>16, <1>17 DEF D

(* One pass leaves a line alone, or moves something when there is a gap to *)
(* move over.                                                              *)
LEMMA PassFacts ==
    ASSUME NEW n \in Nat \ {0}, NEW line \in [1 .. n -> Tiles], NEW s, OnTheWay(n, line, s),
           NEW order, Covers(order, n)
    PROVE  /\ OnTheWay(n, line, Pass(s, order))
           /\ Pass(s, order).moved <=> s.moved \/ \E k \in 1 .. n - 1 : Gap(line, k)
<1>1. PICK m \in Nat : m = n - 1
  OBVIOUS
<1>2. s \in States(n)
  BY DEF OnTheWay
<1>3. PICK f : /\ f \in [0 .. n - 1 -> States(n)] /\ f[0] = s
               /\ \A i \in 1 .. n - 1 : f[i] = Swapped(f[i - 1], order[i])
               /\ Pass(s, order) = f[n - 1]
  BY <1>2, PassUnfold
<1> DEFINE T == {i \in 0 .. m :
                   /\ OnTheWay(n, line, f[i])
                   /\ f[i].moved <=> s.moved \/ \E u \in 1 .. i : Gap(line, order[u])}
<1>4. 0 \in T
  BY <1>3
<1>5. ASSUME NEW i \in 1 .. m, i - 1 \in T PROVE i \in T
  <2>1. PICK x, k : x = f[i - 1] /\ k = order[i]
    OBVIOUS
  <2>2. OnTheWay(n, line, x) /\ k \in 1 .. n - 1 /\ f[i] = Swapped(x, k)
    BY <1>1, <1>3, <1>5, <2>1 DEF Covers
  <2>3. OnTheWay(n, line, f[i]) /\ (f[i].moved <=> x.moved \/ Gap(line, k))
    BY <2>2, SwappedFacts
  <2>4. x.moved <=> s.moved \/ \E u \in 1 .. i - 1 : Gap(line, order[u])
    BY <1>5, <2>1
  <2>5. (\E u \in 1 .. i : Gap(line, order[u])) <=>
          (\E u \in 1 .. i - 1 : Gap(line, order[u])) \/ Gap(line, k)
    BY <2>1
  <2> QED BY <2>3, <2>4, <2>5
<1> HIDE DEF T
<1>6. \A i \in 0 .. m : i \in T
  BY <1>4, <1>5, SetInduction
<1>7. /\ OnTheWay(n, line, f[m])
      /\ f[m].moved <=> s.moved \/ \E u \in 1 .. m : Gap(line, order[u])
  BY <1>6 DEF T
<1>8. (\E u \in 1 .. m : Gap(line, order[u])) <=> \E k \in 1 .. m : Gap(line, k)
  BY <1>1 DEF Covers
<1> QED BY <1>1, <1>3, <1>7, <1>8

IsPack(f, s, order) ==
    f = [p \in 0 .. Len(order) |-> IF p = 0 THEN s ELSE Pass(f[p - 1], order)]
AfterPasses(s, order) == CHOOSE f : IsPack(f, s, order)

LEMMA PackIs ==
    ASSUME NEW s, NEW order
    PROVE  Pack(s, order) = AfterPasses(s, order)[Len(order)]
BY DEF Pack, AfterPasses, IsPack

LEMMA PackUnfold ==
    ASSUME NEW n \in Nat \ {0}, NEW s \in States(n), NEW order, Covers(order, n)
    PROVE  \E f : /\ f \in [0 .. n - 1 -> States(n)] /\ f[0] = s
                  /\ \A p \in 1 .. n - 1 : f[p] = Pass(f[p - 1], order)
                  /\ Pack(s, order) = f[n - 1]
<1>1. PICK m \in Nat : m = n - 1
  OBVIOUS
<1> DEFINE D == States(n)
           step == [x \in (1 .. m) \X D |-> Pass(x[2], order)]
<1>2. \A d \in D : Pass(d, order) \in D
  <2> TAKE d \in D
  <2>1. PICK f : f \in [0 .. n - 1 -> States(n)] /\ Pass(d, order) = f[n - 1]
    BY PassUnfold
  <2> QED BY <2>1
<1> HIDE DEF D
<1>3. step \in [(1 .. m) \X D -> D]
  BY <1>2
<1>4. \A p \in 1 .. m : \A d \in D : step[<<p, d>>] = Pass(d, order)
  OBVIOUS
<1> HIDE DEF step
<1>5. s \in D
  BY DEF D
<1>a. PICK f : Links(f, m, D, s, step)
  BY <1>3, <1>5, Chain
<1>6. f \in [0 .. m -> D] /\ f[0] = s /\ \A p \in 1 .. m : f[p] = step[<<p, f[p - 1]>>]
  BY <1>a DEF Links
<1>7. \A p \in 1 .. m : f[p] = Pass(f[p - 1], order)
  <2> TAKE p \in 1 .. m
  <2>1. f[p - 1] \in D
    BY <1>6
  <2> QED BY <2>1, <1>4, <1>6
<1>8. f = [p \in 0 .. m |-> IF p = 0 THEN s ELSE Pass(f[p - 1], order)]
  BY <1>6, <1>7
<1>9. IsPack(f, s, order)
  BY <1>8, <1>1 DEF IsPack, Covers
<1>10. PICK g : IsPack(g, s, order) /\ g = AfterPasses(s, order)
  BY <1>9 DEF AfterPasses
<1>11. g = [p \in 0 .. m |-> IF p = 0 THEN s ELSE Pass(g[p - 1], order)]
  BY <1>10, <1>1 DEF IsPack, Covers
<1>12. g[0] = s /\ \A p \in 1 .. m : g[p] = Pass(g[p - 1], order)
  BY <1>11
<1> DEFINE T == {p \in 0 .. m : g[p] \in D}
<1>13. 0 \in T
  BY <1>5, <1>12
<1>14. ASSUME NEW p \in 1 .. m, p - 1 \in T PROVE p \in T
  <2>1. PICK d \in D : d = g[p - 1]
    BY <1>14
  <2>2. g[p] = Pass(d, order)
    BY <1>12, <2>1
  <2> QED BY <1>2, <2>1, <2>2
<1> HIDE DEF T
<1>15. \A p \in 0 .. m : p \in T
  BY <1>13, <1>14, SetInduction
<1>16. g \in [0 .. m -> D]
  BY <1>11, <1>15 DEF T
<1>17. Pack(s, order) = g[m]
  BY <1>1, <1>10, PackIs DEF Covers
<1> QED BY <1>1, <1>12, <1>16, <1>17 DEF D

(* So do all passes.                                                       *)
LEMMA PackFacts ==
    ASSUME NEW n \in Nat \ {0}, NEW line \in [1 .. n -> Tiles], NEW s, OnTheWay(n, line, s),
           NEW order, Covers(order, n)
    PROVE  /\ OnTheWay(n, line, Pack(s, order))
           /\ Pack(s, order).moved <=> s.moved \/ \E k \in 1 .. n - 1 : Gap(line, k)
<1>1. PICK m \in Nat : m = n - 1
  OBVIOUS
<1>2. s \in States(n)
  BY DEF OnTheWay
<1>3. PICK f : /\ f \in [0 .. n - 1 -> States(n)] /\ f[0] = s
               /\ \A p \in 1 .. n - 1 : f[p] = Pass(f[p - 1], order)
               /\ Pack(s, order) = f[n - 1]
  BY <1>2, PackUnfold
<1> DEFINE T == {p \in 0 .. m :
                   /\ OnTheWay(n, line, f[p])
                   /\ f[p].moved <=> s.moved \/ (p > 0 /\ \E k \in 1 .. n - 1 : Gap(line, k))}
<1>4. 0 \in T
  BY <1>3
<1>5. ASSUME NEW p \in 1 .. m, p - 1 \in T PROVE p \in T
  <2>1. PICK x : x = f[p - 1]
    OBVIOUS
  <2>2. /\ OnTheWay(n, line, x) /\ f[p] = Pass(x, order)
        /\ x.moved <=> s.moved \/ (p - 1 > 0 /\ \E k \in 1 .. n - 1 : Gap(line, k))
    BY <1>1, <1>3, <1>5, <2>1
  <2>3. /\ OnTheWay(n, line, f[p])
        /\ f[p].moved <=> x.moved \/ \E k \in 1 .. n - 1 : Gap(line, k)
    BY <2>2, PassFacts
  <2> QED BY <2>2, <2>3
<1> HIDE DEF T
<1>6. \A p \in 0 .. m : p \in T
  BY <1>4, <1>5, SetInduction
<1>7. /\ OnTheWay(n, line, f[m])
      /\ f[m].moved <=> s.moved \/ (m > 0 /\ \E k \in 1 .. n - 1 : Gap(line, k))
  BY <1>6 DEF T
<1>8. (\E k \in 1 .. n - 1 : Gap(line, k)) => m > 0
  BY <1>1
<1> QED BY <1>1, <1>3, <1>7, <1>8

IsDoubles(f, s) ==
    f = [k \in 0 .. Len(s.line) - 1 |-> IF k = 0 THEN s ELSE Doubled(f[k - 1], k)]
AfterDoubles(s) == CHOOSE f : IsDoubles(f, s)

LEMMA MergeIs ==
    ASSUME NEW s
    PROVE  Merge(s) = AfterDoubles(s)[Len(s.line) - 1]
BY DEF Merge, AfterDoubles, IsDoubles

LEMMA MergeUnfold ==
    ASSUME NEW n \in Nat \ {0}, NEW s \in States(n)
    PROVE  \E f : /\ f \in [0 .. n - 1 -> States(n)] /\ f[0] = s
                  /\ \A k \in 1 .. n - 1 : f[k] = Doubled(f[k - 1], k)
                  /\ Merge(s) = f[n - 1]
<1>1. PICK m \in Nat : m = n - 1
  OBVIOUS
<1>0. Len(s.line) - 1 = m
  <2>1. s.line \in [1 .. n -> Tiles]
    BY DEF States
  <2> QED BY <1>1, <2>1, Sequence
<1> DEFINE D == States(n)
           step == [x \in (1 .. m) \X D |-> Doubled(x[2], x[1])]
<1>2. \A k \in 1 .. m : \A d \in D : Doubled(d, k) \in D
  BY <1>1, DoubledIs
<1> HIDE DEF D
<1>3. step \in [(1 .. m) \X D -> D]
  BY <1>2
<1>4. \A k \in 1 .. m : \A d \in D : step[<<k, d>>] = Doubled(d, k)
  OBVIOUS
<1> HIDE DEF step
<1>5. s \in D
  BY DEF D
<1>a. PICK f : Links(f, m, D, s, step)
  BY <1>3, <1>5, Chain
<1>6. f \in [0 .. m -> D] /\ f[0] = s /\ \A k \in 1 .. m : f[k] = step[<<k, f[k - 1]>>]
  BY <1>a DEF Links
<1>7. \A k \in 1 .. m : f[k] = Doubled(f[k - 1], k)
  <2> TAKE k \in 1 .. m
  <2>1. f[k - 1] \in D
    BY <1>6
  <2> QED BY <2>1, <1>4, <1>6
<1>8. f = [k \in 0 .. m |-> IF k = 0 THEN s ELSE Doubled(f[k - 1], k)]
  BY <1>6, <1>7
<1>9. IsDoubles(f, s)
  BY <1>8, <1>0 DEF IsDoubles
<1>10. PICK g : IsDoubles(g, s) /\ g = AfterDoubles(s)
  BY <1>9 DEF AfterDoubles
<1>11. g = [k \in 0 .. m |-> IF k = 0 THEN s ELSE Doubled(g[k - 1], k)]
  BY <1>10, <1>0 DEF IsDoubles
<1>12. g[0] = s /\ \A k \in 1 .. m : g[k] = Doubled(g[k - 1], k)
  BY <1>11
<1> DEFINE T == {k \in 0 .. m : g[k] \in D}
<1>13. 0 \in T
  BY <1>5, <1>12
<1>14. ASSUME NEW k \in 1 .. m, k - 1 \in T PROVE k \in T
  <2>1. PICK d \in D : d = g[k - 1]
    BY <1>14
  <2>2. g[k] = Doubled(d, k)
    BY <1>12, <2>1
  <2> QED BY <1>2, <2>1, <2>2
<1> HIDE DEF T
<1>15. \A k \in 0 .. m : k \in T
  BY <1>13, <1>14, SetInduction
<1>16. g \in [0 .. m -> D]
  BY <1>11, <1>15 DEF T
<1>17. Merge(s) = g[m]
  BY <1>0, <1>10, MergeIs
<1> QED BY <1>1, <1>12, <1>16, <1>17 DEF D

(* The merges do so when there are twins.                                  *)
LEMMA MergeFacts ==
    ASSUME NEW n \in Nat \ {0}, NEW line \in [1 .. n -> Tiles], NEW s, OnTheWay(n, line, s)
    PROVE  /\ OnTheWay(n, line, Merge(s))
           /\ Merge(s).moved <=> s.moved \/ \E k \in 1 .. n - 1 : Twins(line, k)
<1>1. PICK m \in Nat : m = n - 1
  OBVIOUS
<1>2. s \in States(n)
  BY DEF OnTheWay
<1>3. PICK f : /\ f[0] = s /\ \A k \in 1 .. n - 1 : f[k] = Doubled(f[k - 1], k)
               /\ Merge(s) = f[n - 1]
  BY <1>2, MergeUnfold
<1> DEFINE T == {t \in 0 .. m :
                   /\ OnTheWay(n, line, f[t])
                   /\ f[t].moved <=> s.moved \/ \E u \in 1 .. t : Twins(line, u)}
<1>4. 0 \in T
  BY <1>3
<1>5. ASSUME NEW t \in 1 .. m, t - 1 \in T PROVE t \in T
  <2>1. OnTheWay(n, line, f[t - 1]) /\ t \in 1 .. n - 1
    BY <1>1, <1>5
  <2>5. PICK before, after : before = f[t - 1] /\ after = f[t]
    OBVIOUS
  <2>6. OnTheWay(n, line, before) /\ after = Doubled(before, t)
    BY <2>1, <2>5, <1>3
  <2>7. /\ OnTheWay(n, line, after)
        /\ after.moved <=> before.moved \/ Twins(line, t)
    BY <2>1, <2>6, DoubledFacts
  <2>2. /\ OnTheWay(n, line, f[t])
        /\ f[t].moved <=> f[t - 1].moved \/ Twins(line, t)
    BY <2>5, <2>7
  <2>3. f[t - 1].moved <=> s.moved \/ \E u \in 1 .. t - 1 : Twins(line, u)
    BY <1>5
  <2>4. (\E u \in 1 .. t : Twins(line, u)) <=> (\E u \in 1 .. t - 1 : Twins(line, u)) \/ Twins(line, t)
    OBVIOUS
  <2> QED BY <2>2, <2>3, <2>4
<1> HIDE DEF T
<1>6. \A t \in 0 .. m : t \in T
  BY <1>4, <1>5, SetInduction
<1> QED BY <1>1, <1>3, <1>6 DEF T

\* Something in a line can move towards its wall.
Movable(n, line) == \E k \in 1 .. n - 1 : Gap(line, k) \/ Twins(line, k)

(* A move on a line changes it if and only if it says so, if and only if a *)
(* tile has a gap or its twin before it.                                   *)
LEMMA SlidFacts ==
    ASSUME NEW n \in Nat \ {0}, NEW line \in [1 .. n -> Tiles], NEW order, Covers(order, n)
    PROVE  LET s == Slid(line, order) IN
           /\ s.line \in [1 .. n -> Tiles] /\ s.moved \in BOOLEAN
           /\ s.moved <=> Movable(n, line)
           /\ s.moved <=> s.line # line
           /\ (\E k \in 1 .. n : line[k] # EMPTY) => \E k \in 1 .. n : s.line[k] # EMPTY
<1> DEFINE s1 == Pack(Fresh(line), order)
           s2 == Merge(s1)
           s3 == Pack(s2, order)
<1>1. OnTheWay(n, line, Fresh(line)) /\ ~Fresh(line).moved
  BY DEF OnTheWay, Fresh, States
<1> HIDE DEF s1, s2, s3
<1>2. OnTheWay(n, line, s1) /\ (s1.moved <=> \E k \in 1 .. n - 1 : Gap(line, k))
  BY <1>1, PackFacts DEF s1
<1>3. OnTheWay(n, line, s2) /\ (s2.moved <=> s1.moved \/ \E k \in 1 .. n - 1 : Twins(line, k))
  BY <1>2, MergeFacts DEF s2
<1>4. OnTheWay(n, line, s3) /\ (s3.moved <=> s2.moved \/ \E k \in 1 .. n - 1 : Gap(line, k))
  BY <1>3, PackFacts DEF s3
<1>5. Slid(line, order) = s3
  BY DEF Slid, s1, s2, s3
<1>6. s3.line \in [1 .. n -> Tiles] /\ s3.moved \in BOOLEAN
  BY <1>4 DEF OnTheWay, States
<1>7. s3.moved <=> Movable(n, line)
  BY <1>2, <1>3, <1>4 DEF Movable
<1>8. s3.moved <=> s3.line # line
  BY <1>4, <1>6, AboveDiffers DEF OnTheWay
<1>9. ASSUME \E k \in 1 .. n : line[k] # EMPTY PROVE \E k \in 1 .. n : s3.line[k] # EMPTY
  <2>1. CASE s3.moved
    BY <2>1, <1>4, <1>6 DEF OnTheWay, Above, Tiles, EMPTY
  <2>2. CASE ~s3.moved
    BY <2>2, <1>8, <1>9
  <2> QED BY <2>1, <2>2
<1> QED BY <1>5, <1>6, <1>7, <1>8, <1>9

-----------------------------------------------------------------------------
(* The tiles of a line                                                     *)

Then(tiles, tile) == IF tile = EMPTY THEN tiles ELSE Append(tiles, tile)

\* The tiles of the first cells of a line, for each number of them.
FirstTiles(f, n, line) ==
    /\ f \in [0 .. n -> Seq(Tiles)] /\ f[0] = <<>>
    /\ \A k \in 1 .. n : f[k] = Then(f[k - 1], line[k])

IsPacked(f, line) ==
    f = [k \in 0 .. Len(line) |-> IF k = 0 THEN <<>> ELSE Then(f[k - 1], line[k])]
ChosenTiles(line) == CHOOSE f : IsPacked(f, line)

LEMMA PackedIs ==
    ASSUME NEW line
    PROVE  Packed(line) = ChosenTiles(line)[Len(line)]
BY DEF Packed, ChosenTiles, IsPacked, Then

LEMMA PackedUnfold ==
    ASSUME NEW n \in Nat, NEW line \in [1 .. n -> Tiles]
    PROVE  \E f : FirstTiles(f, n, line) /\ Packed(line) = f[n]
<1>1. Len(line) = n
  BY Sequence
<1> DEFINE D == Seq(Tiles)
           step == [x \in (1 .. n) \X D |-> Then(x[2], line[x[1]])]
<1>2. \A k \in 1 .. n : \A d \in D : Then(d, line[k]) \in D
  BY AppendProperties DEF Then
<1>3. <<>> \in D
  BY EmptySeq
<1> HIDE DEF D
<1>4. step \in [(1 .. n) \X D -> D]
  BY <1>2
<1>5. \A k \in 1 .. n : \A d \in D : step[<<k, d>>] = Then(d, line[k])
  OBVIOUS
<1> HIDE DEF step
<1>6. PICK s \in D : s = <<>>
  BY <1>3
<1>7. PICK f : Links(f, n, D, s, step)
  BY <1>4, Chain
<1>8. \A k \in 1 .. n : f[k] = Then(f[k - 1], line[k])
  <2> TAKE k \in 1 .. n
  <2>1. f[k - 1] \in D /\ f[k] = step[<<k, f[k - 1]>>]
    BY <1>7 DEF Links
  <2> QED BY <2>1, <1>5
<1>9. f = [k \in 0 .. n |-> IF k = 0 THEN <<>> ELSE Then(f[k - 1], line[k])]
  BY <1>6, <1>7, <1>8 DEF Links
<1>10. IsPacked(f, line)
  BY <1>1, <1>9 DEF IsPacked
<1>11. PICK g : IsPacked(g, line) /\ g = ChosenTiles(line)
  BY <1>10 DEF ChosenTiles
<1>12. g = [k \in 0 .. n |-> IF k = 0 THEN <<>> ELSE Then(g[k - 1], line[k])]
  BY <1>1, <1>11 DEF IsPacked
<1>13. /\ g[0] = <<>>
       /\ \A k \in 1 .. n : g[k] = Then(g[k - 1], line[k])
  BY <1>12
<1> DEFINE T == {k \in 0 .. n : g[k] \in D}
<1>14. 0 \in T
  BY <1>3, <1>13
<1>15. ASSUME NEW k \in 1 .. n, k - 1 \in T PROVE k \in T
  <2>1. PICK d \in D : d = g[k - 1]
    BY <1>15
  <2>2. g[k] = Then(d, line[k])
    BY <1>13, <2>1
  <2> QED BY <1>2, <2>1, <2>2
<1> HIDE DEF T
<1>16. \A k \in 0 .. n : k \in T
  BY <1>14, <1>15, SetInduction
<1>17. g \in [0 .. n -> D]
  BY <1>12, <1>16 DEF T
<1>18. FirstTiles(g, n, line)
  BY <1>13, <1>17 DEF FirstTiles, D
<1>19. Packed(line) = g[n]
  BY <1>1, <1>11, PackedIs
<1> QED BY <1>18, <1>19

(* The tiles of the first cells depend on these cells only.                *)
LEMMA SameFirst ==
    ASSUME NEW n \in Nat, NEW a, NEW b, NEW f, NEW g, FirstTiles(f, n, a), FirstTiles(g, n, b),
           NEW k \in 0 .. n, \A i \in 1 .. k : a[i] = b[i]
    PROVE  f[k] = g[k]
<1> DEFINE T == {i \in 0 .. k : f[i] = g[i]}
<1>1. 0 \in T
  BY DEF FirstTiles
<1>2. ASSUME NEW i \in 1 .. k, i - 1 \in T PROVE i \in T
  <2>1. i \in 1 .. n /\ f[i - 1] = g[i - 1] /\ a[i] = b[i]
    BY <1>2
  <2>2. f[i] = Then(f[i - 1], a[i]) /\ g[i] = Then(g[i - 1], b[i])
    BY <2>1 DEF FirstTiles
  <2> QED BY <2>1, <2>2
<1> HIDE DEF T
<1>3. k \in T
  BY <1>1, <1>2, SetInduction
<1> QED BY <1>3 DEF T

(* A swap leaves the tiles and their order alone.                          *)
LEMMA SwapPacked ==
    ASSUME NEW n \in Nat, NEW s \in States(n), NEW k \in 1 .. n - 1
    PROVE  Packed(Swapped(s, k).line) = Packed(s.line)
<1>1. PICK r : r = Swapped(s, k)
  OBVIOUS
<1>2. CASE ~Gap(s.line, k)
  BY <1>1, <1>2, SwappedIs
<1>3. CASE Gap(s.line, k)
  <2>1. PICK a, b : a = s.line /\ b = r.line
    OBVIOUS
  <2>2. a \in [1 .. n -> Tiles] /\ b \in [1 .. n -> Tiles]
    BY <1>1, <2>1, SwappedIs DEF States
  <2>3. /\ a[k] = EMPTY /\ a[k + 1] # EMPTY /\ b[k] = a[k + 1] /\ b[k + 1] = EMPTY
        /\ \A i \in 1 .. n : i \notin {k, k + 1} => b[i] = a[i]
    BY <1>1, <1>3, <2>1, SwappedIs DEF Gap
  <2>4. PICK f : FirstTiles(f, n, a) /\ Packed(a) = f[n]
    BY <2>2, PackedUnfold
  <2>5. PICK g : FirstTiles(g, n, b) /\ Packed(b) = g[n]
    BY <2>2, PackedUnfold
  <2> DEFINE T == {i \in 0 .. n : IF i = k THEN g[i] = Append(f[i], a[k + 1]) ELSE g[i] = f[i]}
  <2>6. 0 \in T
    BY <2>4, <2>5 DEF FirstTiles
  <2>7. ASSUME NEW i \in 1 .. n, i - 1 \in T PROVE i \in T
    <3>1. f[i] = Then(f[i - 1], a[i]) /\ g[i] = Then(g[i - 1], b[i])
      BY <2>4, <2>5 DEF FirstTiles
    <3>2. CASE i = k
      <4>1. f[i] = f[i - 1] /\ g[i] = Append(g[i - 1], a[k + 1])
        BY <3>1, <3>2, <2>3 DEF Then
      <4>2. g[i - 1] = f[i - 1]
        BY <3>2, <2>7
      <4> QED BY <4>1, <4>2, <3>2
    <3>3. CASE i = k + 1
      <4>1. g[i - 1] = Append(f[i - 1], a[k + 1]) /\ i # k
        BY <3>3, <2>7
      <4>2. f[i] = Append(f[i - 1], a[k + 1]) /\ g[i] = g[i - 1]
        BY <3>1, <3>3, <2>3 DEF Then
      <4>3. i \in 0 .. n /\ i # k /\ g[i] = f[i]
        BY <4>1, <4>2
      <4> QED BY <4>3
    <3>4. CASE i # k /\ i # k + 1
      <4>1. b[i] = a[i] /\ g[i - 1] = f[i - 1]
        BY <3>4, <2>3, <2>7
      <4> QED BY <4>1, <3>1, <3>4
    <3> QED BY <3>2, <3>3, <3>4
  <2> HIDE DEF T
  <2>8. n \in T
    BY <2>6, <2>7, SetInduction
  <2>9. g[n] = f[n]
    BY <2>8 DEF T
  <2> QED BY <1>1, <2>1, <2>4, <2>5, <2>9
<1> QED BY <1>2, <1>3

LEMMA PassPacked ==
    ASSUME NEW n \in Nat \ {0}, NEW s \in States(n), NEW order, Covers(order, n)
    PROVE  Pass(s, order) \in States(n) /\ Packed(Pass(s, order).line) = Packed(s.line)
<1>1. PICK m \in Nat : m = n - 1
  OBVIOUS
<1>2. PICK f : /\ f \in [0 .. n - 1 -> States(n)] /\ f[0] = s
               /\ \A i \in 1 .. n - 1 : f[i] = Swapped(f[i - 1], order[i])
               /\ Pass(s, order) = f[n - 1]
  BY PassUnfold
<1> DEFINE T == {i \in 0 .. m : Packed(f[i].line) = Packed(s.line)}
<1>3. 0 \in T
  BY <1>2
<1>4. ASSUME NEW i \in 1 .. m, i - 1 \in T PROVE i \in T
  <2>1. PICK x, k : x = f[i - 1] /\ k = order[i]
    OBVIOUS
  <2>2. x \in States(n) /\ f[i] = Swapped(x, k)
    BY <1>1, <1>2, <2>1
  <2>0. k \in 1 .. n - 1
    BY <1>1, <2>1 DEF Covers
  <2>3. Packed(f[i].line) = Packed(x.line)
    BY <2>0, <2>2, SwapPacked
  <2> QED BY <1>4, <2>1, <2>3
<1> HIDE DEF T
<1>5. m \in T
  BY <1>3, <1>4, SetInduction
<1> QED BY <1>1, <1>2, <1>5 DEF T

LEMMA PackPacked ==
    ASSUME NEW n \in Nat \ {0}, NEW s \in States(n), NEW order, Covers(order, n)
    PROVE  Pack(s, order) \in States(n) /\ Packed(Pack(s, order).line) = Packed(s.line)
<1>1. PICK m \in Nat : m = n - 1
  OBVIOUS
<1>2. PICK f : /\ f \in [0 .. n - 1 -> States(n)] /\ f[0] = s
               /\ \A p \in 1 .. n - 1 : f[p] = Pass(f[p - 1], order)
               /\ Pack(s, order) = f[n - 1]
  BY PackUnfold
<1> DEFINE T == {p \in 0 .. m : Packed(f[p].line) = Packed(s.line)}
<1>3. 0 \in T
  BY <1>2
<1>4. ASSUME NEW p \in 1 .. m, p - 1 \in T PROVE p \in T
  <2>1. PICK x : x = f[p - 1]
    OBVIOUS
  <2>2. x \in States(n) /\ f[p] = Pass(x, order)
    BY <1>1, <1>2, <2>1
  <2>3. Packed(f[p].line) = Packed(x.line)
    BY <2>2, PassPacked
  <2> QED BY <1>4, <2>1, <2>3
<1> HIDE DEF T
<1>5. m \in T
  BY <1>3, <1>4, SetInduction
<1> QED BY <1>1, <1>2, <1>5 DEF T

\* All m tiles of a line stand at the wall.
Compact(n, line, m) == \A k \in 1 .. n : line[k] # EMPTY <=> k <= m

LEMMA PackedCompact ==
    ASSUME NEW n \in Nat, NEW line \in [1 .. n -> Tiles], NEW m \in 0 .. n, Compact(n, line, m)
    PROVE  /\ Packed(line) \in Seq(Tiles) /\ Len(Packed(line)) = m
           /\ \A i \in 1 .. m : Packed(line)[i] = line[i]
<1>1. PICK f : FirstTiles(f, n, line) /\ Packed(line) = f[n]
  BY PackedUnfold
<1> DEFINE T == {k \in 0 .. n : /\ Len(f[k]) = IF k <= m THEN k ELSE m
                                /\ \A i \in 1 .. Len(f[k]) : f[k][i] = line[i]}
<1>2. 0 \in T
  BY <1>1 DEF FirstTiles
<1>3. ASSUME NEW k \in 1 .. n, k - 1 \in T PROVE k \in T
  <2>1. PICK q \in Seq(Tiles) : q = f[k - 1]
    <3>1. k - 1 \in 0 .. n
      OBVIOUS
    <3>2. f[k - 1] \in Seq(Tiles)
      BY <3>1, <1>1 DEF FirstTiles
    <3> QED BY <3>2
  <2>2. /\ Len(q) = (IF k - 1 <= m THEN k - 1 ELSE m)
        /\ \A i \in 1 .. Len(q) : q[i] = line[i]
    BY <1>3, <2>1
  <2>3. f[k] = IF line[k] = EMPTY THEN q ELSE Append(q, line[k])
    BY <1>1, <2>1 DEF FirstTiles, Then
  <2>4. CASE k <= m
    <3>1. f[k] = Append(q, line[k]) /\ Len(q) = k - 1
      BY <2>2, <2>3, <2>4 DEF Compact
    <3>2. /\ Len(f[k]) = (k - 1) + 1 /\ f[k][(k - 1) + 1] = line[k]
          /\ \A i \in 1 .. k - 1 : f[k][i] = q[i]
      BY <3>1, AppendProperties
    <3>3. Len(f[k]) = k /\ f[k][k] = line[k]
      BY <3>2
    <3>4. \A i \in 1 .. k : f[k][i] = line[i]
      <4> TAKE i \in 1 .. k
      <4>1. CASE i = k
        BY <4>1, <3>3
      <4>2. CASE i # k
        BY <4>2, <3>1, <3>2, <2>2
      <4> QED BY <4>1, <4>2
    <3> QED BY <2>4, <3>3, <3>4
  <2>5. CASE k > m
    <3>1. f[k] = q /\ Len(q) = m
      BY <2>2, <2>3, <2>5 DEF Compact
    <3> QED BY <2>2, <2>5, <3>1
  <2> QED BY <2>4, <2>5
<1> HIDE DEF T
<1>4. \A k \in 0 .. n : k \in T
  BY <1>2, <1>3, SetInduction
<1>5. f[n] \in Seq(Tiles)
  BY <1>1 DEF FirstTiles
<1> QED BY <1>1, <1>4, <1>5 DEF T

(* Such a line is its tiles and then empty cells.                          *)
LEMMA Padded ==
    ASSUME NEW n \in Nat, NEW line \in [1 .. n -> Tiles], NEW m \in 0 .. n, Compact(n, line, m)
    PROVE  line = Packed(line) \o [k \in 1 .. n - m |-> EMPTY]
<1>1. PICK q \in Seq(Tiles) : q = Packed(line)
  BY PackedCompact
<1>2. Len(q) = m /\ \A i \in 1 .. m : q[i] = line[i]
  BY <1>1, PackedCompact
<1>3. PICK l \in Nat : l = n - m
  OBVIOUS
<1>4. PICK e : e = [k \in 1 .. l |-> EMPTY]
  OBVIOUS
<1>5. DOMAIN e = 1 .. l /\ e = [k \in 1 .. l |-> e[k]] /\ \A k \in 1 .. l : e[k] = EMPTY
  BY <1>4
<1>6. Len(e) = l /\ e \in Seq(Tiles)
  <2>1. Len(e) = l
    BY <1>5, Sequence
  <2>2. e \in [1 .. l -> Tiles]
    BY <1>5 DEF Tiles
  <2> QED BY <2>1, <2>2, SeqDef
<1>7. /\ q \o e \in Seq(Tiles) /\ Len(q \o e) = n
      /\ \A i \in 1 .. n : (q \o e)[i] = IF i <= m THEN q[i] ELSE e[i - m]
  BY <1>2, <1>3, <1>6, ConcatProperties
<1>8. line \in Seq(Tiles) /\ Len(line) = n
  <2>1. Len(line) = n
    BY Sequence
  <2> QED BY <2>1, SeqDef
<1>9. \A i \in 1 .. n : line[i] = (q \o e)[i]
  <2> TAKE i \in 1 .. n
  <2>1. CASE i <= m
    BY <2>1, <1>2, <1>7
  <2>2. CASE i > m
    <3>1. i - m \in 1 .. l /\ line[i] = EMPTY /\ ~(i <= m)
      BY <1>3, <2>2 DEF Compact
    <3>2. e[i - m] = EMPTY
      BY <3>1, <1>5
    <3>3. (q \o e)[i] = e[i - m]
      BY <3>1, <1>7
    <3> QED BY <3>1, <3>2, <3>3
  <2>3. i <= m \/ i > m
    OBVIOUS
  <2> QED BY <2>1, <2>2, <2>3, Zenon
<1>10. line = q \o e
  BY <1>7, <1>8, <1>9, SeqEqual
<1> QED BY <1>1, <1>3, <1>4, <1>10

(* There is nothing to pack in such a line.                                *)
LEMMA NothingToPack ==
    ASSUME NEW n \in Nat \ {0}, NEW s \in States(n), NEW order, Covers(order, n),
           NEW m \in 0 .. n, Compact(n, s.line, m)
    PROVE  Pass(s, order) = s
<1>1. PICK f : /\ f[0] = s /\ \A i \in 1 .. n - 1 : f[i] = Swapped(f[i - 1], order[i])
               /\ Pass(s, order) = f[n - 1]
  BY PassUnfold
<1>2. \A k \in 1 .. n - 1 : ~Gap(s.line, k)
  <2> TAKE k \in 1 .. n - 1
  <2>1. k \in 1 .. n /\ k + 1 \in 1 .. n
    OBVIOUS
  <2> QED BY <2>1 DEF Compact, Gap
<1>3. PICK l \in Nat : l = n - 1
  OBVIOUS
<1> DEFINE T == {i \in 0 .. l : f[i] = s}
<1>4. 0 \in T
  BY <1>1
<1>5. ASSUME NEW i \in 1 .. l, i - 1 \in T PROVE i \in T
  <2>1. PICK k \in 1 .. n - 1 : k = order[i]
    BY <1>3 DEF Covers
  <2>2. f[i] = Swapped(s, k)
    BY <1>1, <1>3, <1>5, <2>1
  <2>3. Swapped(s, k) = s
    BY <1>2 DEF Swapped
  <2> QED BY <2>2, <2>3
<1> HIDE DEF T
<1>6. \A i \in 0 .. l : i \in T
  BY <1>4, <1>5, SetInduction
<1> QED BY <1>1, <1>3, <1>6 DEF T

Packable(n, line) == \E m \in 0 .. n : Compact(n, line, m)

\* Up to a cell there is no gap, or the cell is one.
Filled(line, c) == line[c] = EMPTY \/ \A h \in 1 .. c : line[h] # EMPTY

(* A pass from the wall carries the first gap to the end of the line.      *)
LEMMA PassFromWall ==
    ASSUME NEW n \in Nat \ {0}, NEW s \in States(n), NEW order, Covers(order, n),
           \A i \in 1 .. n - 1 : order[i] = i,
           NEW q \in 1 .. n, \A h \in q + 1 .. n : s.line[h] = EMPTY
    PROVE  LET line == Pass(s, order).line IN
           Packable(n, line) \/ \A h \in q .. n : line[h] = EMPTY
<1>1. PICK f : /\ f \in [0 .. n - 1 -> States(n)] /\ f[0] = s
               /\ \A i \in 1 .. n - 1 : f[i] = Swapped(f[i - 1], order[i])
               /\ Pass(s, order) = f[n - 1]
  BY PassUnfold
<1>2. PICK l \in Nat : l = n - 1
  OBVIOUS
<1> DEFINE last(i) == IF i + 1 <= q THEN i + 1 ELSE q
           T == {i \in 0 .. l : /\ \A h \in q + 1 .. n : f[i].line[h] = EMPTY
                                /\ Filled(f[i].line, last(i))}
<1>3. 0 \in T
  <2>1. last(0) = 1 /\ Filled(s.line, 1)
    BY DEF Filled
  <2> QED BY <1>1, <2>1
<1>4. ASSUME NEW i \in 1 .. l, i - 1 \in T PROVE i \in T
  <2>1. PICK x \in States(n) : x = f[i - 1]
    BY <1>1, <1>2
  <2>2. f[i] = Swapped(x, i) /\ i \in 1 .. n - 1
    BY <1>1, <1>2, <2>1
  <2>3. PICK y \in States(n) : y = f[i]
    BY <1>1, <1>2
  <2>4. /\ \A h \in q + 1 .. n : x.line[h] = EMPTY
        /\ Filled(x.line, IF i <= q THEN i ELSE q)
    BY <1>4, <2>1
  <2>5. /\ ~Gap(x.line, i) => y = x
        /\ Gap(x.line, i) =>
             /\ y.line[i + 1] = EMPTY
             /\ \A j \in 1 .. n : j \notin {i, i + 1} => y.line[j] = x.line[j]
    BY <2>2, <2>3, SwappedIs
  <2> HIDE DEF last
  <2> SUFFICES (\A h \in q + 1 .. n : y.line[h] = EMPTY) /\ Filled(y.line, last(i))
    BY <2>3
  <2>6. CASE i < q
    <3>1. last(i) = i + 1 /\ Filled(x.line, i)
      BY <2>4, <2>6 DEF last
    <3>2. CASE Gap(x.line, i)
      <4>1. Filled(y.line, i + 1)
        BY <2>5, <3>2 DEF Filled
      <4>2. \A h \in q + 1 .. n : y.line[h] = EMPTY
        BY <2>4, <2>5, <2>6, <3>2
      <4> QED BY <4>1, <4>2, <3>1, <2>3
    <3>3. CASE ~Gap(x.line, i)
      <4>1. y = x
        BY <2>5, <3>3
      <4>2. Filled(x.line, i + 1)
        <5>1. CASE x.line[i] = EMPTY
          BY <5>1, <3>3 DEF Gap, Filled
        <5>2. CASE x.line[i] # EMPTY
          <6>1. \A h \in 1 .. i : x.line[h] # EMPTY
            BY <5>2, <3>1 DEF Filled
          <6> QED BY <6>1 DEF Filled
        <5> QED BY <5>1, <5>2
      <4> QED BY <4>1, <4>2, <3>1, <2>3, <2>4
    <3> QED BY <3>2, <3>3
  <2>7. CASE i >= q
    <3>1. last(i) = q /\ Filled(x.line, q)
      BY <2>4, <2>7 DEF last
    <3>2. i + 1 \in q + 1 .. n
      BY <1>2, <2>7
    <3>3. y = x
      BY <2>4, <2>5, <3>2 DEF Gap
    <3> QED BY <3>1, <3>3, <2>3, <2>4
  <2> QED BY <2>6, <2>7
<1> HIDE DEF T
<1>5. \A i \in 0 .. l : i \in T
  BY <1>3, <1>4, SetInduction
<1>6. l \in T
  BY <1>5
<1>7. PICK line : line = Pass(s, order).line
  OBVIOUS
<1>8. (\A h \in q + 1 .. n : line[h] = EMPTY) /\ Filled(line, q)
  <2>1. last(l) = q
    BY <1>2
  <2> QED BY <1>1, <1>2, <1>6, <1>7, <2>1 DEF T
<1>9. CASE line[q] = EMPTY
  BY <1>7, <1>8, <1>9
<1>10. CASE line[q] # EMPTY
  <2>1. \A h \in 1 .. q : line[h] # EMPTY
    BY <1>8, <1>10 DEF Filled
  <2>2. Compact(n, line, q)
    BY <1>8, <2>1 DEF Compact
  <2> QED BY <1>7, <2>2 DEF Packable
<1> QED BY <1>9, <1>10

\* From a cell on there is no tile, or the cell has one.
Bare(n, line, c) == line[c] # EMPTY \/ \A h \in c .. n : line[h] = EMPTY

(* A pass from the far end carries a tile to the first gap.                *)
LEMMA PassToWall ==
    ASSUME NEW n \in Nat \ {0}, NEW s \in States(n), NEW order, Covers(order, n),
           \A i \in 1 .. n - 1 : order[i] = n - i,
           NEW q \in 1 .. n, \A h \in 1 .. q - 1 : s.line[h] # EMPTY
    PROVE  LET line == Pass(s, order).line IN
           Packable(n, line) \/ \A h \in 1 .. q : line[h] # EMPTY
<1>1. PICK f : /\ f \in [0 .. n - 1 -> States(n)] /\ f[0] = s
               /\ \A i \in 1 .. n - 1 : f[i] = Swapped(f[i - 1], order[i])
               /\ Pass(s, order) = f[n - 1]
  BY PassUnfold
<1>2. PICK l \in Nat : l = n - 1
  OBVIOUS
<1> DEFINE first(i) == IF n - i >= q THEN n - i ELSE q
           T == {i \in 0 .. l : /\ \A h \in 1 .. q - 1 : f[i].line[h] # EMPTY
                                /\ Bare(n, f[i].line, first(i))}
<1>3. 0 \in T
  <2>1. first(0) = n /\ Bare(n, s.line, n)
    BY DEF Bare
  <2> QED BY <1>1, <2>1
<1>4. ASSUME NEW i \in 1 .. l, i - 1 \in T PROVE i \in T
  <2>1. PICK x \in States(n) : x = f[i - 1]
    BY <1>1, <1>2
  <2>2. PICK k \in 1 .. n - 1 : k = n - i
    BY <1>2
  <2>3. PICK y \in States(n) : y = f[i] /\ y = Swapped(x, k)
    BY <1>1, <1>2, <2>1, <2>2
  <2>4. /\ \A h \in 1 .. q - 1 : x.line[h] # EMPTY
        /\ Bare(n, x.line, IF k + 1 >= q THEN k + 1 ELSE q)
    <3>1. n - (i - 1) = k + 1
      BY <2>2
    <3> QED BY <1>4, <2>1, <3>1
  <2>5. /\ ~Gap(x.line, k) => y = x
        /\ Gap(x.line, k) =>
             /\ y.line[k] = x.line[k + 1]
             /\ \A j \in 1 .. n : j \notin {k, k + 1} => y.line[j] = x.line[j]
    BY <2>3, SwappedIs
  <2> HIDE DEF first
  <2> SUFFICES (\A h \in 1 .. q - 1 : y.line[h] # EMPTY) /\ Bare(n, y.line, first(i))
    <3>1. i \in 0 .. l
      OBVIOUS
    <3> QED BY <3>1, <2>3, Zenon
  <2>6. CASE k >= q
    <3>1. first(i) = k /\ Bare(n, x.line, k + 1)
      BY <2>2, <2>4, <2>6 DEF first
    <3>2. CASE Gap(x.line, k)
      <4>1. Bare(n, y.line, k)
        BY <2>5, <3>2 DEF Bare, Gap
      <4>2. \A h \in 1 .. q - 1 : y.line[h] # EMPTY
        BY <2>4, <2>5, <2>6, <3>2
      <4> QED BY <4>1, <4>2, <3>1, <2>3
    <3>3. CASE ~Gap(x.line, k)
      <4>1. y = x
        BY <2>5, <3>3
      <4>2. Bare(n, x.line, k)
        <5>1. CASE x.line[k] # EMPTY
          BY <5>1 DEF Bare
        <5>2. CASE x.line[k] = EMPTY
          <6>1. \A h \in k + 1 .. n : x.line[h] = EMPTY
            BY <5>2, <3>1, <3>3 DEF Bare, Gap
          <6> QED BY <5>2, <6>1 DEF Bare
        <5> QED BY <5>1, <5>2
      <4> QED BY <4>1, <4>2, <3>1, <2>3, <2>4
    <3> QED BY <3>2, <3>3
  <2>7. CASE k < q
    <3>1. first(i) = q /\ Bare(n, x.line, q) /\ k \in 1 .. q - 1
      BY <2>2, <2>4, <2>7 DEF first
    <3>2. y = x
      BY <2>4, <2>5, <3>1 DEF Gap
    <3> QED BY <3>1, <3>2, <2>3, <2>4
  <2> QED BY <2>6, <2>7
<1> HIDE DEF T
<1>5. \A i \in 0 .. l : i \in T
  BY <1>3, <1>4, SetInduction
<1>6. l \in T
  BY <1>5
<1>7. PICK line : line = Pass(s, order).line
  OBVIOUS
<1>8. (\A h \in 1 .. q - 1 : line[h] # EMPTY) /\ Bare(n, line, q)
  <2>1. first(l) = q
    BY <1>2
  <2> QED BY <1>1, <1>2, <1>6, <1>7, <2>1 DEF T
<1>9. CASE line[q] # EMPTY
  BY <1>7, <1>8, <1>9
<1>10. CASE line[q] = EMPTY
  <2>1. \A h \in q .. n : line[h] = EMPTY
    BY <1>8, <1>10 DEF Bare
  <2>2. Compact(n, line, q - 1) /\ q - 1 \in 0 .. n
    BY <1>8, <2>1 DEF Compact
  <2> QED BY <1>7, <2>2 DEF Packable
<1> QED BY <1>9, <1>10

(* All passes of a key close the tiles of a line up at its wall.           *)
LEMMA PackCloses ==
    ASSUME NEW n \in Nat \ {0}, NEW s \in States(n), NEW key
    PROVE  Packable(n, Pack(s, Order(key, n)).line)
<1>1. PICK order : order = Order(key, n) /\ Covers(order, n)
  BY CoversFacts
<1>2. PICK f : /\ f \in [0 .. n - 1 -> States(n)] /\ f[0] = s
               /\ \A p \in 1 .. n - 1 : f[p] = Pass(f[p - 1], order)
               /\ Pack(s, order) = f[n - 1]
  BY <1>1, PackUnfold
<1>3. PICK l \in Nat : l = n - 1
  OBVIOUS
<1>4. CASE key \in {"w", "a"}
  <2>1. \A i \in 1 .. n - 1 : order[i] = i
    BY <1>1, <1>4 DEF Order
  <2> DEFINE T == {p \in 0 .. l : \/ Packable(n, f[p].line)
                                  \/ \A h \in n - p + 1 .. n : f[p].line[h] = EMPTY}
  <2>2. 0 \in T
    OBVIOUS
  <2>3. ASSUME NEW p \in 1 .. l, p - 1 \in T PROVE p \in T
    <3>1. PICK x \in States(n) : x = f[p - 1]
      BY <1>2, <1>3
    <3>2. f[p] = Pass(x, order)
      BY <1>2, <1>3, <3>1
    <3>3. CASE Packable(n, x.line)
      <4>1. f[p] = x
        BY <1>1, <3>2, <3>3, NothingToPack DEF Packable
      <4> QED BY <4>1, <3>3
    <3>4. CASE \A h \in n - (p - 1) + 1 .. n : x.line[h] = EMPTY
      <4>1. PICK q \in 1 .. n : q = n - p + 1
        BY <1>3
      <4>2. \A h \in q + 1 .. n : x.line[h] = EMPTY
        BY <3>4, <4>1
      <4>3. Packable(n, f[p].line) \/ \A h \in q .. n : f[p].line[h] = EMPTY
        BY <1>1, <2>1, <3>2, <4>2, PassFromWall
      <4> QED BY <4>1, <4>3
    <3> QED BY <2>3, <3>1, <3>3, <3>4
  <2> HIDE DEF T
  <2>4. \A p \in 0 .. l : p \in T
    BY <2>2, <2>3, SetInduction
  <2>5. PICK line : line = f[l].line
    OBVIOUS
  <2>6. Packable(n, line) \/ \A h \in 2 .. n : line[h] = EMPTY
    BY <1>3, <2>4, <2>5 DEF T
  <2>7. ASSUME \A h \in 2 .. n : line[h] = EMPTY PROVE Packable(n, line)
    <3>1. CASE line[1] = EMPTY
      <4>1. Compact(n, line, 0)
        BY <2>7, <3>1 DEF Compact
      <4> QED BY <4>1 DEF Packable
    <3>2. CASE line[1] # EMPTY
      <4>1. Compact(n, line, 1)
        BY <2>7, <3>2 DEF Compact
      <4> QED BY <4>1 DEF Packable
    <3> QED BY <3>1, <3>2
  <2> QED BY <1>1, <1>2, <1>3, <2>5, <2>6, <2>7
<1>5. CASE key \notin {"w", "a"}
  <2>1. \A i \in 1 .. n - 1 : order[i] = n - i
    BY <1>1, <1>5 DEF Order
  <2> DEFINE T == {p \in 0 .. l : \/ Packable(n, f[p].line)
                                  \/ \A h \in 1 .. p : f[p].line[h] # EMPTY}
  <2>2. 0 \in T
    OBVIOUS
  <2>3. ASSUME NEW p \in 1 .. l, p - 1 \in T PROVE p \in T
    <3>1. PICK x \in States(n) : x = f[p - 1]
      BY <1>2, <1>3
    <3>2. f[p] = Pass(x, order)
      BY <1>2, <1>3, <3>1
    <3>3. CASE Packable(n, x.line)
      <4>1. f[p] = x
        BY <1>1, <3>2, <3>3, NothingToPack DEF Packable
      <4> QED BY <4>1, <3>3
    <3>4. CASE \A h \in 1 .. p - 1 : x.line[h] # EMPTY
      <4>1. p \in 1 .. n
        BY <1>3
      <4>2. Packable(n, f[p].line) \/ \A h \in 1 .. p : f[p].line[h] # EMPTY
        BY <1>1, <2>1, <3>2, <3>4, <4>1, PassToWall
      <4> QED BY <4>2
    <3> QED BY <2>3, <3>1, <3>3, <3>4
  <2> HIDE DEF T
  <2>4. \A p \in 0 .. l : p \in T
    BY <2>2, <2>3, SetInduction
  <2>5. PICK line : line = f[l].line
    OBVIOUS
  <2>6. Packable(n, line) \/ \A h \in 1 .. n - 1 : line[h] # EMPTY
    BY <1>3, <2>4, <2>5 DEF T
  <2>7. ASSUME \A h \in 1 .. n - 1 : line[h] # EMPTY PROVE Packable(n, line)
    <3>1. CASE line[n] = EMPTY
      <4>1. Compact(n, line, n - 1) /\ n - 1 \in 0 .. n
        BY <2>7, <3>1 DEF Compact
      <4> QED BY <4>1 DEF Packable
    <3>2. CASE line[n] # EMPTY
      <4>1. Compact(n, line, n)
        BY <2>7, <3>2 DEF Compact
      <4> QED BY <4>1 DEF Packable
    <3> QED BY <3>1, <3>2
  <2> QED BY <1>1, <1>2, <1>3, <2>5, <2>6, <2>7
<1> QED BY <1>4, <1>5

-----------------------------------------------------------------------------
(* The merges                                                              *)

\* What becomes of the last k tiles, where one and two are what becomes of
\* the last k - 1 and the last k - 2.
LastTiles(tiles, k, one, two) ==
    LET tile == tiles[Len(tiles) - k + 1]
    IN  IF k > 1 /\ tile = tiles[Len(tiles) - k + 2] THEN <<2 * tile>> \o two ELSE <<tile>> \o one

IsMerged(f, tiles) ==
    f = [k \in 0 .. Len(tiles) |-> IF k = 0 THEN <<>> ELSE LastTiles(tiles, k, f[k - 1], f[k - 2])]
ChosenMerges(tiles) == CHOOSE f : IsMerged(f, tiles)

LEMMA MergedIs ==
    ASSUME NEW tiles
    PROVE  Merged(tiles) = ChosenMerges(tiles)[Len(tiles)]
BY DEF Merged, ChosenMerges, IsMerged, LastTiles

LEMMA LastTilesIn ==
    ASSUME NEW tiles \in Seq(Nat \ {0}), NEW k \in 1 .. Len(tiles), NEW one \in Seq(Tiles), NEW two,
           k > 1 => two \in Seq(Tiles)
    PROVE  LastTiles(tiles, k, one, two) \in Seq(Tiles)
<1>1. PICK n \in Nat : n = Len(tiles) /\ tiles \in [1 .. n -> Nat \ {0}]
  BY LenProperties
<1>2. n - k + 1 \in 1 .. n
  BY <1>1
<1>3. PICK tile \in Nat \ {0} : tile = tiles[n - k + 1]
  BY <1>1, <1>2
<1>4. tile \in Tiles /\ 2 * tile \in Tiles
  BY DEF Tiles
<1>5. <<tile>> \in Seq(Tiles) /\ <<2 * tile>> \in Seq(Tiles)
  BY <1>4
<1>6. <<tile>> \o one \in Seq(Tiles)
  BY <1>5, ConcatProperties
<1>7. k > 1 => <<2 * tile>> \o two \in Seq(Tiles)
  BY <1>5, ConcatProperties
<1> QED BY <1>1, <1>3, <1>6, <1>7 DEF LastTiles

Merges(f, n, tiles) ==
    /\ f \in [0 .. n -> Seq(Tiles)] /\ f[0] = <<>>
    /\ \A k \in 1 .. n : f[k] = LastTiles(tiles, k, f[k - 1], f[k - 2])
    /\ Merged(tiles) = f[n]

LEMMA MergedUnfold ==
    ASSUME NEW tiles \in Seq(Nat \ {0}), NEW n \in Nat, Len(tiles) = n
    PROVE  \E f : Merges(f, n, tiles)
<1> DEFINE E == Seq(Tiles)
           D == E \X E
           new(k, d) == LastTiles(tiles, k, d[1], d[2])
           step == [x \in (1 .. n) \X D |-> <<new(x[1], x[2]), x[2][1]>>]
<1>1. <<>> \in E
  BY EmptySeq
<1>2. \A k \in 1 .. n : \A one \in E : \A two : (k > 1 => two \in E) => LastTiles(tiles, k, one, two) \in E
  BY LastTilesIn
<1> HIDE DEF E
<1>3. \A k \in 1 .. n : \A d \in D : new(k, d) \in E
  <2> TAKE k \in 1 .. n
  <2> TAKE d \in D
  <2>1. d[1] \in E /\ d[2] \in E
    OBVIOUS
  <2> QED BY <2>1, <1>2
<1> HIDE DEF new
<1>4. step \in [(1 .. n) \X D -> D]
  BY <1>3
<1>5. \A k \in 1 .. n : \A d \in D : step[<<k, d>>] = <<new(k, d), d[1]>>
  OBVIOUS
<1> HIDE DEF step
<1>6. PICK s \in D : s = << <<>>, <<>> >>
  BY <1>1
<1>7. PICK h : Links(h, n, D, s, step)
  <2>1. PICK DD : DD = D
    OBVIOUS
  <2>2. s \in DD /\ step \in [(1 .. n) \X DD -> DD]
    BY <1>4, <2>1
  <2>3. \E h : Links(h, n, DD, s, step)
    BY <2>2, Chain
  <2> QED BY <2>1, <2>3
<1>8. h[0] = s /\ \A k \in 0 .. n : h[k] \in D
  BY <1>7 DEF Links
<1>9. \A k \in 1 .. n : h[k] = <<new(k, h[k - 1]), h[k - 1][1]>>
  <2> TAKE k \in 1 .. n
  <2>1. k - 1 \in 0 .. n
    OBVIOUS
  <2>2. PICK d \in D : d = h[k - 1]
    BY <2>1, <1>8
  <2>3. h[k] = step[<<k, d>>]
    BY <1>7, <2>2 DEF Links
  <2> QED BY <2>2, <2>3, <1>5
<1>10. PICK f : f = [k \in 0 .. n |-> h[k][1]]
  OBVIOUS
<1>11. f[0] = <<>> /\ \A k \in 0 .. n : f[k] = h[k][1]
  BY <1>6, <1>8, <1>10
<1>12. \A k \in 1 .. n : f[k] = LastTiles(tiles, k, f[k - 1], f[k - 2])
  <2> TAKE k \in 1 .. n
  <2>1. k - 1 \in 0 .. n /\ k \in 0 .. n
    OBVIOUS
  <2>2. h[k][1] = new(k, h[k - 1])
    BY <1>9
  <2>3. f[k] = LastTiles(tiles, k, h[k - 1][1], h[k - 1][2])
    BY <2>1, <2>2, <1>11 DEF new
  <2>4. h[k - 1][1] = f[k - 1]
    BY <2>1, <1>11
  <2>5. CASE k > 1
    <3>1. k - 1 \in 1 .. n /\ (k - 1) - 1 = k - 2 /\ k - 2 \in 0 .. n
      BY <2>5
    <3>2. h[k - 1] = <<new(k - 1, h[k - 2]), h[k - 2][1]>>
      BY <3>1, <1>9
    <3>3. h[k - 1][2] = f[k - 2]
      BY <3>1, <3>2, <1>11
    <3> QED BY <2>3, <2>4, <3>3
  <2>6. CASE ~(k > 1)
    BY <2>3, <2>4, <2>6 DEF LastTiles
  <2> QED BY <2>5, <2>6
<1>13. f = [k \in 0 .. n |-> IF k = 0 THEN <<>> ELSE LastTiles(tiles, k, f[k - 1], f[k - 2])]
  <2>1. PICK e : e = [k \in 0 .. n |-> IF k = 0 THEN <<>> ELSE LastTiles(tiles, k, f[k - 1], f[k - 2])]
    OBVIOUS
  <2>2. \A k \in 0 .. n : e[k] = f[k]
    <3> TAKE k \in 0 .. n
    <3>1. CASE k = 0
      BY <3>1, <2>1, <1>11
    <3>2. CASE k # 0
      <4>1. e[k] = LastTiles(tiles, k, f[k - 1], f[k - 2])
        BY <3>2, <2>1
      <4>2. k \in 1 .. n
        BY <3>2
      <4> QED BY <4>1, <4>2, <1>12
    <3> QED BY <3>1, <3>2
  <2>3. e = [k \in 0 .. n |-> e[k]] /\ f = [k \in 0 .. n |-> f[k]]
    BY <2>1, <1>10
  <2>4. e = f
    BY <2>2, <2>3
  <2> QED BY <2>1, <2>4
<1>14. IsMerged(f, tiles)
  BY <1>13 DEF IsMerged
<1>15. PICK g : IsMerged(g, tiles) /\ g = ChosenMerges(tiles)
  BY <1>14 DEF ChosenMerges
<1>16. g = [k \in 0 .. n |-> IF k = 0 THEN <<>> ELSE LastTiles(tiles, k, g[k - 1], g[k - 2])]
  BY <1>15 DEF IsMerged
<1>17. g[0] = <<>> /\ \A k \in 1 .. n : g[k] = LastTiles(tiles, k, g[k - 1], g[k - 2])
  <2>1. 0 \in 0 .. n /\ \A k \in 1 .. n : k \in 0 .. n /\ k # 0
    OBVIOUS
  <2> QED BY <2>1, <1>16
<1> DEFINE T == {k \in 0 .. n : g[k] \in E /\ (k > 0 => g[k - 1] \in E)}
<1>18. 0 \in T
  BY <1>1, <1>17
<1>19. ASSUME NEW k \in 1 .. n, k - 1 \in T PROVE k \in T
  <2>1. g[k - 1] \in E /\ (k > 1 => g[(k - 1) - 1] \in E)
    BY <1>19
  <2>2. (k - 1) - 1 = k - 2
    OBVIOUS
  <2>3. LastTiles(tiles, k, g[k - 1], g[k - 2]) \in E
    BY <1>2, <2>1, <2>2
  <2> QED BY <1>17, <2>1, <2>3
<1> HIDE DEF T
<1>20. \A k \in 0 .. n : k \in T
  BY <1>18, <1>19, SetInduction
<1>21. g \in [0 .. n -> E]
  BY <1>16, <1>20 DEF T
<1>22. Merged(tiles) = g[n]
  BY <1>15, MergedIs
<1> QED BY <1>17, <1>21, <1>22 DEF E, Merges

\* r[p] is what becomes of the tiles from place p of a line on.
FromTiles(r, n, m, line) ==
    /\ r \in [1 .. n + 2 -> Seq(Tiles)]
    /\ \A p \in m + 1 .. n + 2 : r[p] = <<>>
    /\ \A p \in 1 .. m : r[p] = IF p < m /\ line[p] = line[p + 1]
                                THEN <<2 * line[p]>> \o r[p + 2]
                                ELSE <<line[p]>> \o r[p + 1]

LEMMA MergedFrom ==
    ASSUME NEW n \in Nat, NEW line \in [1 .. n -> Tiles], NEW m \in 0 .. n, Compact(n, line, m)
    PROVE  \E r : FromTiles(r, n, m, line) /\ r[1] = Merged(Packed(line))
<1>1. PICK tiles : tiles = Packed(line)
  OBVIOUS
<1>2. tiles \in Seq(Tiles) /\ Len(tiles) = m /\ \A i \in 1 .. m : tiles[i] = line[i]
  BY <1>1, PackedCompact
<1>3. \A i \in 1 .. m : tiles[i] \in Nat \ {0}
  BY <1>2 DEF Compact, Tiles
<1>4. tiles \in Seq(Nat \ {0})
  <2>1. tiles \in [1 .. m -> Tiles]
    BY <1>2, LenProperties
  <2>2. tiles \in [1 .. m -> Nat \ {0}]
    BY <1>3, <2>1
  <2> QED BY <2>2, SeqDef
<1>0. PICK f : Merges(f, m, tiles)
  <2>1. m \in Nat
    OBVIOUS
  <2> QED BY <2>1, <1>2, <1>4, MergedUnfold
<1>5. /\ f \in [0 .. m -> Seq(Tiles)] /\ f[0] = <<>>
      /\ \A k \in 1 .. m : f[k] = LastTiles(tiles, k, f[k - 1], f[k - 2])
      /\ Merged(tiles) = f[m]
  BY <1>0 DEF Merges
<1>6. <<>> \in Seq(Tiles)
  BY EmptySeq
<1>7. PICK r : r = [p \in 1 .. n + 2 |-> IF p <= m THEN f[m - p + 1] ELSE <<>>]
  OBVIOUS
<1>8. /\ \A p \in 1 .. m : r[p] = f[m - p + 1]
      /\ \A p \in m + 1 .. n + 2 : r[p] = <<>>
  BY <1>7
<1>9. r \in [1 .. n + 2 -> Seq(Tiles)]
  BY <1>5, <1>6, <1>7
<1>10. \A p \in 1 .. m + 1 : r[p] = f[m - p + 1]
  <2> TAKE p \in 1 .. m + 1
  <2>1. CASE p = m + 1
    BY <2>1, <1>5, <1>8
  <2> QED BY <2>1, <1>8
<1>11. ASSUME NEW p \in 1 .. m
       PROVE  r[p] = IF p < m /\ line[p] = line[p + 1] THEN <<2 * line[p]>> \o r[p + 2]
                     ELSE <<line[p]>> \o r[p + 1]
  <2>1. PICK k \in 1 .. m : k = m - p + 1
    OBVIOUS
  <2>2. m - k + 1 = p /\ m - k + 2 = p + 1 /\ (k > 1 <=> p < m)
    BY <2>1
  <2>3. r[p] = LastTiles(tiles, k, f[k - 1], f[k - 2])
    BY <1>5, <1>8, <2>1
  <2>4. r[p] = IF p < m /\ tiles[p] = tiles[p + 1] THEN <<2 * tiles[p]>> \o f[k - 2]
               ELSE <<tiles[p]>> \o f[k - 1]
    BY <1>2, <2>2, <2>3 DEF LastTiles
  <2>5. f[k - 1] = r[p + 1]
    <3>1. m - (p + 1) + 1 = k - 1 /\ p + 1 \in 1 .. m + 1
      BY <2>1
    <3> QED BY <3>1, <1>10
  <2>6. p < m => f[k - 2] = r[p + 2]
    <3>1. p < m => m - (p + 2) + 1 = k - 2 /\ p + 2 \in 1 .. m + 1
      BY <2>1
    <3> QED BY <3>1, <1>10
  <2>7. tiles[p] = line[p] /\ (p < m => tiles[p + 1] = line[p + 1])
    BY <1>2
  <2> QED BY <2>4, <2>5, <2>6, <2>7
<1>12. FromTiles(r, n, m, line)
  BY <1>8, <1>9, <1>11 DEF FromTiles
<1>13. r[1] = Merged(tiles)
  BY <1>5, <1>10
<1> QED BY <1>1, <1>12, <1>13

\* The merges have come to place k + 1 of a line: the tiles before it are done,
\* and those from it on, or from the next when it was merged, are to come.
Midway(n, line, r, k, now, u) ==
    /\ now \in [1 .. n -> Tiles] /\ FirstTiles(u, n, now)
    /\ \/ /\ \A i \in k + 1 .. n : now[i] = line[i]
          /\ u[k] \o r[k + 1] = r[1]
       \/ /\ now[k + 1] = EMPTY
          /\ \A i \in k + 2 .. n : now[i] = line[i]
          /\ u[k] \o r[k + 2] = r[1]

LEMMA AppendConcat ==
    ASSUME NEW q \in Seq(Tiles), NEW tile \in Tiles, NEW rest \in Seq(Tiles)
    PROVE  Append(q, tile) \o rest = q \o (<<tile>> \o rest)
<1>1. Append(q, tile) = q \o <<tile>>
  BY AppendIsConcat
<1>2. <<tile>> \in Seq(Tiles)
  OBVIOUS
<1> QED BY <1>1, <1>2, ConcatAssociative

LEMMA MidwayStep ==
    ASSUME NEW n \in Nat, NEW line \in [1 .. n -> Tiles], NEW m \in 0 .. n, Compact(n, line, m),
           NEW r, FromTiles(r, n, m, line), NEW s \in States(n), NEW k \in 1 .. n - 1,
           NEW u, Midway(n, line, r, k - 1, s.line, u)
    PROVE  \E v : Midway(n, line, r, k, Doubled(s, k).line, v)
<1>1. PICK a, b : a = s.line /\ b = Doubled(s, k).line
  OBVIOUS
<1>2. a \in [1 .. n -> Tiles] /\ b \in [1 .. n -> Tiles]
  BY <1>1, DoubledIs DEF States
<1>3. PICK v : FirstTiles(v, n, b)
  BY <1>2, PackedUnfold
<1>4. /\ k - 1 \in 0 .. n /\ k \in 1 .. n /\ k + 1 \in 1 .. n /\ k + 2 \in 1 .. n + 2
      /\ (k - 1) + 1 = k /\ (k - 1) + 2 = k + 1
  OBVIOUS
<1>5. PICK o \in Seq(Tiles) : o = u[k - 1]
  BY <1>4 DEF Midway, FirstTiles
<1>6. FirstTiles(u, n, a)
  BY <1>1 DEF Midway
<1>7. /\ ~Twins(a, k) => b = a
      /\ Twins(a, k) => /\ b[k] = 2 * a[k] /\ b[k + 1] = EMPTY
                        /\ \A i \in 1 .. n : i \notin {k, k + 1} => b[i] = a[i]
  BY <1>1, DoubledIs
<1>8. v[k - 1] = o
  <2>1. \A i \in 1 .. k - 1 : a[i] = b[i]
    BY <1>7
  <2> QED BY <2>1, <1>3, <1>4, <1>5, <1>6, SameFirst
<1>9. v[k] = Then(o, b[k])
  BY <1>3, <1>4, <1>8 DEF FirstTiles
<1>10. /\ r[k + 1] \in Seq(Tiles) /\ r[k + 2] \in Seq(Tiles)
       /\ \A p \in m + 1 .. n + 2 : r[p] = <<>>
       /\ k <= m => r[k] = IF k < m /\ line[k] = line[k + 1]
                           THEN <<2 * line[k]>> \o r[k + 2] ELSE <<line[k]>> \o r[k + 1]
  <2>1. k + 1 \in 1 .. n + 2 /\ k + 2 \in 1 .. n + 2 /\ (k <= m => k \in 1 .. m)
    BY <1>4
  <2>2. /\ r \in [1 .. n + 2 -> Seq(Tiles)]
        /\ \A p \in m + 1 .. n + 2 : r[p] = <<>>
        /\ \A p \in 1 .. m : r[p] = IF p < m /\ line[p] = line[p + 1]
                                    THEN <<2 * line[p]>> \o r[p + 2]
                                    ELSE <<line[p]>> \o r[p + 1]
    BY DEF FromTiles
  <2>3. r[k + 1] \in Seq(Tiles) /\ r[k + 2] \in Seq(Tiles)
    BY <2>1, <2>2
  <2> QED BY <2>1, <2>2, <2>3
<1> SUFFICES \/ /\ \A i \in k + 1 .. n : b[i] = line[i]
                /\ v[k] \o r[k + 1] = r[1]
             \/ /\ b[k + 1] = EMPTY
                /\ \A i \in k + 2 .. n : b[i] = line[i]
                /\ v[k] \o r[k + 2] = r[1]
  BY <1>1, <1>2, <1>3 DEF Midway
<1>11. CASE /\ \A i \in k .. n : a[i] = line[i]
            /\ o \o r[k] = r[1]
  <2>1. a[k] = line[k] /\ a[k + 1] = line[k + 1]
    BY <1>4, <1>11
  <2>2. CASE Twins(a, k)
    <3>1. k < m /\ line[k] = line[k + 1] /\ line[k] # EMPTY
      BY <2>1, <2>2, <1>4 DEF Twins, Compact
    <3>2. 2 * line[k] \in Tiles /\ 2 * line[k] # EMPTY
      BY <3>1, <1>4 DEF Tiles, EMPTY
    <3>3. v[k] = Append(o, 2 * line[k])
      BY <1>7, <1>9, <2>1, <2>2, <3>2 DEF Then
    <3>4. v[k] \o r[k + 2] = o \o (<<2 * line[k]>> \o r[k + 2])
      <4>1. PICK rest \in Seq(Tiles), tile \in Tiles : rest = r[k + 2] /\ tile = 2 * line[k]
        BY <3>2, <1>10
      <4>2. Append(o, tile) \o rest = o \o (<<tile>> \o rest)
        BY AppendConcat
      <4> QED BY <3>3, <4>1, <4>2
    <3>5. r[k] = <<2 * line[k]>> \o r[k + 2]
      BY <3>1, <1>10
    <3>6. \A i \in k + 2 .. n : b[i] = line[i]
      BY <1>4, <1>7, <1>11, <2>2
    <3> QED BY <3>4, <3>5, <3>6, <1>7, <1>11, <2>2
  <2>3. CASE ~Twins(a, k)
    <3>1. b = a /\ \A i \in k + 1 .. n : b[i] = line[i]
      BY <1>7, <1>11, <2>3
    <3>2. CASE k <= m
      <4>1. line[k] # EMPTY /\ line[k] \in Tiles
        BY <3>2, <1>4 DEF Compact
      <4>2. ~(k < m /\ line[k] = line[k + 1])
        BY <4>1, <2>1, <2>3 DEF Twins
      <4>3. r[k] = <<line[k]>> \o r[k + 1]
        BY <4>2, <3>2, <1>10
      <4>4. v[k] = Append(o, line[k])
        BY <4>1, <3>1, <2>1, <1>9 DEF Then
      <4>5. v[k] \o r[k + 1] = o \o (<<line[k]>> \o r[k + 1])
        <5>1. PICK rest \in Seq(Tiles), tile \in Tiles : rest = r[k + 1] /\ tile = line[k]
          BY <4>1, <1>10
        <5>2. Append(o, tile) \o rest = o \o (<<tile>> \o rest)
          BY AppendConcat
        <5> QED BY <4>4, <5>1, <5>2
      <4> QED BY <4>3, <4>5, <3>1, <1>11
    <3>3. CASE ~(k <= m)
      <4>1. line[k] = EMPTY
        BY <3>3, <1>4 DEF Compact
      <4>2. v[k] = o
        BY <4>1, <3>1, <2>1, <1>9 DEF Then
      <4>3. r[k] = r[k + 1]
        <5>1. k \in m + 1 .. n + 2 /\ k + 1 \in m + 1 .. n + 2
          BY <3>3, <1>4
        <5> QED BY <5>1, <1>10
      <4> QED BY <4>2, <4>3, <3>1, <1>11
    <3> QED BY <3>2, <3>3
  <2> QED BY <2>2, <2>3
<1>12. CASE /\ a[k] = EMPTY
            /\ \A i \in k + 1 .. n : a[i] = line[i]
            /\ o \o r[k + 1] = r[1]
  <2>1. b = a
    BY <1>7, <1>12 DEF Twins
  <2>2. v[k] = o
    BY <2>1, <1>9, <1>12 DEF Then
  <2> QED BY <2>1, <2>2, <1>12
<1>13. \/ (\A i \in k .. n : a[i] = line[i]) /\ o \o r[k] = r[1]
       \/ a[k] = EMPTY /\ (\A i \in k + 1 .. n : a[i] = line[i]) /\ o \o r[k + 1] = r[1]
  BY <1>1, <1>4, <1>5 DEF Midway
<1> QED BY <1>11, <1>12, <1>13

(* The merges make of a line of tiles what the rules do.                   *)
LEMMA MergePacked ==
    ASSUME NEW n \in Nat \ {0}, NEW s \in States(n), NEW m \in 0 .. n, Compact(n, s.line, m)
    PROVE  Merge(s) \in States(n) /\ Packed(Merge(s).line) = Merged(Packed(s.line))
<1>1. PICK line \in [1 .. n -> Tiles] : line = s.line
  BY DEF States
<1>2. PICK r : FromTiles(r, n, m, line) /\ r[1] = Merged(Packed(line))
  BY <1>1, MergedFrom
<1>3. PICK f : /\ f \in [0 .. n - 1 -> States(n)] /\ f[0] = s
               /\ \A k \in 1 .. n - 1 : f[k] = Doubled(f[k - 1], k)
               /\ Merge(s) = f[n - 1]
  BY MergeUnfold
<1>4. PICK l \in Nat : l = n - 1
  OBVIOUS
<1>5. r[1] \in Seq(Tiles) /\ <<>> \in Seq(Tiles)
  BY <1>2, EmptySeq DEF FromTiles
<1> DEFINE T == {k \in 0 .. l : \E u : Midway(n, line, r, k, f[k].line, u)}
<1>6. 0 \in T
  <2>1. PICK u : FirstTiles(u, n, line)
    BY PackedUnfold
  <2>2. u[0] \o r[1] = r[1]
    BY <2>1, <1>5, ConcatEmptySeq DEF FirstTiles
  <2>4. 0 + 1 = 1 /\ \A i \in 0 + 1 .. n : line[i] = line[i]
    OBVIOUS
  <2>5. u[0] \o r[0 + 1] = r[1]
    BY <2>2, <2>4
  <2>3. Midway(n, line, r, 0, line, u)
    BY <2>1, <2>4, <2>5, Zenon DEF Midway
  <2> QED BY <2>3, <1>1, <1>3
<1>7. ASSUME NEW k \in 1 .. l, k - 1 \in T PROVE k \in T
  <2>1. PICK x \in States(n) : x = f[k - 1]
    BY <1>3, <1>4
  <2>2. PICK u : Midway(n, line, r, k - 1, x.line, u)
    BY <1>7, <2>1
  <2>3. k \in 1 .. n - 1 /\ f[k] = Doubled(x, k)
    BY <1>3, <1>4, <2>1
  <2>4. \E v : Midway(n, line, r, k, f[k].line, v)
    BY <1>1, <1>2, <2>2, <2>3, MidwayStep
  <2> QED BY <2>4
<1> HIDE DEF T
<1>8. \A k \in 0 .. l : k \in T
  BY <1>6, <1>7, SetInduction
<1>9. PICK now : now = Merge(s).line
  OBVIOUS
<1>10. PICK u : Midway(n, line, r, n - 1, now, u)
  <2>1. l \in T
    BY <1>8
  <2> QED BY <2>1, <1>3, <1>4, <1>9 DEF T
<1>11. now \in [1 .. n -> Tiles] /\ FirstTiles(u, n, now)
  BY <1>10 DEF Midway
<1>12. Packed(now) = u[n]
  <2>1. PICK v : FirstTiles(v, n, now) /\ Packed(now) = v[n]
    BY <1>11, PackedUnfold
  <2>2. v[n] = u[n]
    BY <2>1, <1>11, SameFirst
  <2> QED BY <2>1, <2>2
<1>13. PICK o \in Seq(Tiles) : o = u[n - 1]
  <2>1. n - 1 \in 0 .. n /\ u \in [0 .. n -> Seq(Tiles)]
    BY <1>11 DEF FirstTiles
  <2>2. u[n - 1] \in Seq(Tiles)
    BY <2>1
  <2> QED BY <2>2
<1>14. u[n] = Then(o, now[n])
  BY <1>11, <1>13 DEF FirstTiles
<1>15. \A p \in m + 1 .. n + 2 : r[p] = <<>>
  BY <1>2 DEF FromTiles
<1>16. u[n] = r[1]
  <2>1. CASE now[n] = line[n] /\ o \o r[n] = r[1]
    <3>1. CASE m = n
      <4>1. line[n] # EMPTY /\ line[n] \in Tiles
        BY <1>1, <3>1 DEF Compact
      <4>2. r[n] = <<line[n]>> \o r[n + 1] /\ r[n + 1] = <<>>
        <5>1. n \in 1 .. m /\ ~(n < m) /\ n + 1 \in m + 1 .. n + 2
          BY <3>1
        <5>2. \A p \in 1 .. m : r[p] = IF p < m /\ line[p] = line[p + 1]
                                      THEN <<2 * line[p]>> \o r[p + 2]
                                      ELSE <<line[p]>> \o r[p + 1]
          BY <1>2 DEF FromTiles
        <5>3. r[n] = IF n < m /\ line[n] = line[n + 1]
                     THEN <<2 * line[n]>> \o r[n + 2] ELSE <<line[n]>> \o r[n + 1]
          BY <5>1, <5>2
        <5>4. r[n + 1] = <<>>
          BY <5>1, <1>15
        <5> QED BY <5>1, <5>3, <5>4
      <4>3. Append(o, line[n]) = o \o <<line[n]>>
        BY <4>1, AppendIsConcat
      <4>4. <<line[n]>> \in Seq(Tiles)
        BY <4>1
      <4>5. <<line[n]>> \o <<>> = <<line[n]>>
        BY <4>4, ConcatEmptySeq
      <4>6. u[n] = Append(o, line[n])
        BY <4>1, <1>14, <2>1 DEF Then
      <4> QED BY <4>2, <4>3, <4>5, <4>6, <2>1
    <3>2. CASE m < n
      <4>1. line[n] = EMPTY /\ r[n] = <<>>
        BY <1>1, <1>15, <3>2 DEF Compact
      <4>2. o \o <<>> = o
        BY ConcatEmptySeq
      <4>3. u[n] = o
        BY <4>1, <2>1, <1>14 DEF Then
      <4> QED BY <4>1, <4>2, <4>3, <2>1
    <3> QED BY <3>1, <3>2
  <2>2. CASE now[n] = EMPTY /\ o \o r[n + 1] = r[1]
    <3>1. r[n + 1] = <<>>
      BY <1>15
    <3>2. o \o <<>> = o
      BY ConcatEmptySeq
    <3>3. u[n] = o
      BY <2>2, <1>14 DEF Then
    <3> QED BY <2>2, <3>1, <3>2, <3>3
  <2>3. \/ now[n] = line[n] /\ o \o r[n] = r[1]
        \/ now[n] = EMPTY /\ o \o r[n + 1] = r[1]
    <3>1. (n - 1) + 1 = n /\ (n - 1) + 2 = n + 1 /\ n \in (n - 1) + 1 .. n
      OBVIOUS
    <3> QED BY <3>1, <1>10, <1>13 DEF Midway
  <2> QED BY <2>1, <2>2, <2>3
<1>17. Merge(s) \in States(n)
  BY <1>3
<1> QED BY <1>1, <1>2, <1>9, <1>12, <1>16, <1>17

-----------------------------------------------------------------------------
(* The rules                                                               *)

(* A move on a line makes of it what the rules of the game do.             *)
LEMMA SlidRuled ==
    ASSUME NEW n \in Nat \ {0}, NEW line \in [1 .. n -> Tiles], NEW key
    PROVE  Slid(line, Order(key, n)).line = Ruled(line)
<1>1. PICK order : order = Order(key, n) /\ Covers(order, n)
  BY CoversFacts
<1>2. PICK s0 \in States(n) : s0 = Fresh(line) /\ s0.line = line
  <2>1. Fresh(line) \in States(n) /\ Fresh(line).line = line
    BY DEF States, Fresh
  <2> QED BY <2>1
<1>3. PICK s1 \in States(n) : s1 = Pack(s0, order) /\ Packed(s1.line) = Packed(line)
  BY <1>1, <1>2, PackPacked
<1>4. PICK m1 \in 0 .. n : Compact(n, s1.line, m1)
  BY <1>1, <1>3, PackCloses DEF Packable
<1>5. PICK s2 \in States(n) : s2 = Merge(s1) /\ Packed(s2.line) = Merged(Packed(line))
  BY <1>3, <1>4, MergePacked
<1>6. PICK s3 \in States(n) : s3 = Pack(s2, order) /\ Packed(s3.line) = Merged(Packed(line))
  BY <1>1, <1>5, PackPacked
<1>7. PICK m3 \in 0 .. n : Compact(n, s3.line, m3)
  BY <1>1, <1>6, PackCloses DEF Packable
<1>8. Slid(line, order) = s3
  BY <1>2, <1>3, <1>5, <1>6 DEF Slid
<1>9. PICK end \in [1 .. n -> Tiles] : end = s3.line
  BY DEF States
<1>10. end = Packed(end) \o [k \in 1 .. n - m3 |-> EMPTY] /\ Len(Packed(end)) = m3
  BY <1>7, <1>9, Padded, PackedCompact
<1>11. Len(line) = n
  BY Sequence
<1>12. Ruled(line) = Packed(end) \o [k \in 1 .. n - m3 |-> EMPTY]
  BY <1>6, <1>9, <1>10, <1>11 DEF Ruled
<1> QED BY <1>1, <1>8, <1>9, <1>10, <1>12

-----------------------------------------------------------------------------
(* The board *)

Sized == {rows, cols} \subseteq Nat \ {0}

\* L lines of N places each, in which every cell of the board stands once.
Lining(lines, L, N) ==
    /\ Len(lines) = L /\ DOMAIN lines = 1 .. L
    /\ \A j \in 1 .. L : Len(lines[j]) = N /\ \A k \in 1 .. N : lines[j][k] \in Cells
    /\ \A p \in Cells : \E j \in 1 .. L : \E k \in 1 .. N : lines[j][k] = p
    /\ \A i, j \in 1 .. L : \A h, k \in 1 .. N : lines[i][h] = lines[j][k] => i = j /\ h = k

\* A table of L lines of N is a sequence of sequences.
LEMMA Table ==
    ASSUME NEW L \in Nat, NEW N \in Nat, NEW t, t = [j \in 1 .. L |-> t[j]],
           \A j \in 1 .. L : t[j] = [k \in 1 .. N |-> t[j][k]]
    PROVE  Len(t) = L /\ DOMAIN t = 1 .. L /\ \A j \in 1 .. L : Len(t[j]) = N
<1>1. DOMAIN t = 1 .. L /\ Len(t) = L
  BY Sequence
<1>2. \A j \in 1 .. L : Len(t[j]) = N
  <2> TAKE j \in 1 .. L
  <2>1. PICK u : u = t[j]
    OBVIOUS
  <2>2. u = [k \in 1 .. N |-> u[k]] /\ DOMAIN u = 1 .. N
    BY <2>1
  <2> QED BY <2>1, <2>2, Sequence
<1> QED BY <1>1, <1>2

LEMMA WLines ==
    ASSUME Sized
    PROVE  /\ Lining(Lines("w"), cols, rows)
           /\ \A r \in 1 .. rows, c \in 1 .. cols : Lines("w")[c][r] = <<r - 1, c - 1>>
<1>1. PICK t : t = Lines("w")
  OBVIOUS
<1>2. t = [c \in 1 .. cols |-> [r \in 1 .. rows |-> <<r - 1, c - 1>>]]
  BY <1>1 DEF Lines
<1>3. /\ t = [c \in 1 .. cols |-> t[c]] /\ \A c \in 1 .. cols : t[c] = [r \in 1 .. rows |-> t[c][r]]
      /\ \A c \in 1 .. cols : \A r \in 1 .. rows : t[c][r] = <<r - 1, c - 1>>
  BY <1>2
<1>4. Len(t) = cols /\ DOMAIN t = 1 .. cols /\ \A c \in 1 .. cols : Len(t[c]) = rows
  BY <1>3, Table DEF Sized
<1>5. \A p \in Cells : \E c \in 1 .. cols : \E r \in 1 .. rows : t[c][r] = p
  <2> TAKE p \in Cells
  <2>1. /\ p[2] + 1 \in 1 .. cols /\ p[1] + 1 \in 1 .. rows /\ (p[2] + 1) - 1 = p[2]
        /\ (p[1] + 1) - 1 = p[1] /\ p = <<p[1], p[2]>>
    BY DEF Cells, Sized
  <2> QED BY <2>1, <1>3
<1>6. \A c \in 1 .. cols, r \in 1 .. rows : t[c][r] \in Cells
  <2> TAKE c \in 1 .. cols, r \in 1 .. rows
  <2>1. t[c][r] = <<r - 1, c - 1>> /\ r - 1 \in 0 .. rows - 1 /\ c - 1 \in 0 .. cols - 1
    BY <1>3 DEF Sized
  <2> QED BY <2>1 DEF Cells
<1>7. \A i, j \in 1 .. cols : \A h, k \in 1 .. rows : t[i][h] = t[j][k] => i = j /\ h = k
  <2> TAKE i, j \in 1 .. cols
  <2> TAKE h, k \in 1 .. rows
  <2>1. t[i][h] = <<h - 1, i - 1>> /\ t[j][k] = <<k - 1, j - 1>>
    BY <1>3
  <2> HAVE t[i][h] = t[j][k]
  <2>2. <<h - 1, i - 1>> = <<k - 1, j - 1>>
    BY <2>1
  <2> QED BY <2>2 DEF Sized
<1>8. Lining(t, cols, rows)
  BY <1>4, <1>5, <1>6, <1>7 DEF Lining
<1> QED BY <1>1, <1>3, <1>8

LEMMA ALines ==
    ASSUME Sized
    PROVE  /\ Lining(Lines("a"), rows, cols)
           /\ \A r \in 1 .. rows, c \in 1 .. cols : Lines("a")[r][c] = <<r - 1, c - 1>>
<1>1. PICK t : t = Lines("a")
  OBVIOUS
<1>2. t = [r \in 1 .. rows |-> [c \in 1 .. cols |-> <<r - 1, c - 1>>]]
  BY <1>1 DEF Lines
<1>3. /\ t = [r \in 1 .. rows |-> t[r]] /\ \A r \in 1 .. rows : t[r] = [c \in 1 .. cols |-> t[r][c]]
      /\ \A r \in 1 .. rows : \A c \in 1 .. cols : t[r][c] = <<r - 1, c - 1>>
  BY <1>2
<1>4. Len(t) = rows /\ DOMAIN t = 1 .. rows /\ \A r \in 1 .. rows : Len(t[r]) = cols
  BY <1>3, Table DEF Sized
<1>5. \A p \in Cells : \E r \in 1 .. rows : \E c \in 1 .. cols : t[r][c] = p
  <2> TAKE p \in Cells
  <2>1. /\ p[2] + 1 \in 1 .. cols /\ p[1] + 1 \in 1 .. rows /\ (p[2] + 1) - 1 = p[2]
        /\ (p[1] + 1) - 1 = p[1] /\ p = <<p[1], p[2]>>
    BY DEF Cells, Sized
  <2> QED BY <2>1, <1>3
<1>6. \A r \in 1 .. rows, c \in 1 .. cols : t[r][c] \in Cells
  <2> TAKE r \in 1 .. rows, c \in 1 .. cols
  <2>1. t[r][c] = <<r - 1, c - 1>> /\ r - 1 \in 0 .. rows - 1 /\ c - 1 \in 0 .. cols - 1
    BY <1>3 DEF Sized
  <2> QED BY <2>1 DEF Cells
<1>7. \A i, j \in 1 .. rows : \A h, k \in 1 .. cols : t[i][h] = t[j][k] => i = j /\ h = k
  <2> TAKE i, j \in 1 .. rows
  <2> TAKE h, k \in 1 .. cols
  <2>1. t[i][h] = <<i - 1, h - 1>> /\ t[j][k] = <<j - 1, k - 1>>
    BY <1>3
  <2> HAVE t[i][h] = t[j][k]
  <2>2. <<i - 1, h - 1>> = <<j - 1, k - 1>>
    BY <2>1
  <2> QED BY <2>2 DEF Sized
<1>8. Lining(t, rows, cols)
  BY <1>4, <1>5, <1>6, <1>7 DEF Lining
<1> QED BY <1>1, <1>3, <1>8

LEMMA SLines ==
    ASSUME Sized
    PROVE  /\ Lining(Lines("s"), cols, rows)
           /\ \A r \in 1 .. rows, c \in 1 .. cols : Lines("s")[c][r] = <<rows - r, c - 1>>
<1>1. PICK t : t = Lines("s")
  OBVIOUS
<1>2. t = [c \in 1 .. cols |-> [r \in 1 .. rows |-> <<rows - r, c - 1>>]]
  BY <1>1 DEF Lines
<1>3. /\ t = [c \in 1 .. cols |-> t[c]] /\ \A c \in 1 .. cols : t[c] = [r \in 1 .. rows |-> t[c][r]]
      /\ \A c \in 1 .. cols : \A r \in 1 .. rows : t[c][r] = <<rows - r, c - 1>>
  BY <1>2
<1>4. Len(t) = cols /\ DOMAIN t = 1 .. cols /\ \A c \in 1 .. cols : Len(t[c]) = rows
  BY <1>3, Table DEF Sized
<1>5. \A p \in Cells : \E c \in 1 .. cols : \E r \in 1 .. rows : t[c][r] = p
  <2> TAKE p \in Cells
  <2>1. /\ p[2] + 1 \in 1 .. cols /\ rows - p[1] \in 1 .. rows /\ (p[2] + 1) - 1 = p[2]
        /\ rows - (rows - p[1]) = p[1] /\ p = <<p[1], p[2]>>
    BY DEF Cells, Sized
  <2> QED BY <2>1, <1>3
<1>6. \A c \in 1 .. cols, r \in 1 .. rows : t[c][r] \in Cells
  <2> TAKE c \in 1 .. cols, r \in 1 .. rows
  <2>1. t[c][r] = <<rows - r, c - 1>> /\ rows - r \in 0 .. rows - 1 /\ c - 1 \in 0 .. cols - 1
    BY <1>3 DEF Sized
  <2> QED BY <2>1 DEF Cells
<1>7. \A i, j \in 1 .. cols : \A h, k \in 1 .. rows : t[i][h] = t[j][k] => i = j /\ h = k
  <2> TAKE i, j \in 1 .. cols
  <2> TAKE h, k \in 1 .. rows
  <2>1. t[i][h] = <<rows - h, i - 1>> /\ t[j][k] = <<rows - k, j - 1>>
    BY <1>3
  <2> HAVE t[i][h] = t[j][k]
  <2>2. <<rows - h, i - 1>> = <<rows - k, j - 1>>
    BY <2>1
  <2> QED BY <2>2 DEF Sized
<1>8. Lining(t, cols, rows)
  BY <1>4, <1>5, <1>6, <1>7 DEF Lining
<1> QED BY <1>1, <1>3, <1>8

LEMMA DLines ==
    ASSUME Sized
    PROVE  /\ Lining(Lines("d"), rows, cols)
           /\ \A r \in 1 .. rows, c \in 1 .. cols : Lines("d")[r][c] = <<r - 1, cols - c>>
<1>1. PICK t : t = Lines("d")
  OBVIOUS
<1>2. t = [r \in 1 .. rows |-> [c \in 1 .. cols |-> <<r - 1, cols - c>>]]
  BY <1>1 DEF Lines
<1>3. /\ t = [r \in 1 .. rows |-> t[r]] /\ \A r \in 1 .. rows : t[r] = [c \in 1 .. cols |-> t[r][c]]
      /\ \A r \in 1 .. rows : \A c \in 1 .. cols : t[r][c] = <<r - 1, cols - c>>
  BY <1>2
<1>4. Len(t) = rows /\ DOMAIN t = 1 .. rows /\ \A r \in 1 .. rows : Len(t[r]) = cols
  BY <1>3, Table DEF Sized
<1>5. \A p \in Cells : \E r \in 1 .. rows : \E c \in 1 .. cols : t[r][c] = p
  <2> TAKE p \in Cells
  <2>1. /\ cols - p[2] \in 1 .. cols /\ p[1] + 1 \in 1 .. rows /\ cols - (cols - p[2]) = p[2]
        /\ (p[1] + 1) - 1 = p[1] /\ p = <<p[1], p[2]>>
    BY DEF Cells, Sized
  <2> QED BY <2>1, <1>3
<1>6. \A r \in 1 .. rows, c \in 1 .. cols : t[r][c] \in Cells
  <2> TAKE r \in 1 .. rows, c \in 1 .. cols
  <2>1. t[r][c] = <<r - 1, cols - c>> /\ r - 1 \in 0 .. rows - 1 /\ cols - c \in 0 .. cols - 1
    BY <1>3 DEF Sized
  <2> QED BY <2>1 DEF Cells
<1>7. \A i, j \in 1 .. rows : \A h, k \in 1 .. cols : t[i][h] = t[j][k] => i = j /\ h = k
  <2> TAKE i, j \in 1 .. rows
  <2> TAKE h, k \in 1 .. cols
  <2>1. t[i][h] = <<i - 1, cols - h>> /\ t[j][k] = <<j - 1, cols - k>>
    BY <1>3
  <2> HAVE t[i][h] = t[j][k]
  <2>2. <<i - 1, cols - h>> = <<j - 1, cols - k>>
    BY <2>1
  <2> QED BY <2>2 DEF Sized
<1>8. Lining(t, rows, cols)
  BY <1>4, <1>5, <1>6, <1>7 DEF Lining
<1> QED BY <1>1, <1>3, <1>8

(* The lines of every key make up the board.                               *)
LEMMA LinesFacts ==
    ASSUME Sized, NEW key \in Keys
    PROVE  \E L, N \in Nat \ {0} : Lining(Lines(key), L, N)
BY WLines, ALines, SLines, DLines DEF Keys, Sized

\* Some key's line can move.
Moves(key, board) ==
    \E j \in DOMAIN Lines(key) :
        Movable(Len(Lines(key)[j]), TilesOf(board, Lines(key)[j]))

HasTile(board) == \E p \in Cells : board[p] # EMPTY

(* A board is a function on the cells.                                     *)
LEMMA BoardShape ==
    ASSUME NEW key, NEW board
    PROVE  Board(key, board) = [p \in Cells |-> Board(key, board)[p]]
<1> DEFINE places == (1 .. Len(Lines(key))) \X (1 .. Len(Lines(key)[1]))
           place(p) == CHOOSE at \in places : Lines(key)[at[1]][at[2]] = p
           tile(p) == Slides(key, board)[place(p)[1]].line[place(p)[2]]
<1>1. Board(key, board) = [p \in Cells |-> tile(p)]
  BY Zenon DEF Board
<1> HIDE DEF tile
<1> QED BY <1>1

\* Every line of a key holds what the rules make of the tiles it held before.
ByTheRules(key, board, new) ==
    \A j \in 1 .. Len(Lines(key)) :
        TilesOf(new, Lines(key)[j]) = Ruled(TilesOf(board, Lines(key)[j]))

(* What a move makes of the board: the lines it is made of have slid, each *)
(* on its own.                                                             *)
LEMMA BoardFacts ==
    ASSUME Sized, NEW key \in Keys, NEW board \in [Cells -> Tiles]
    PROVE  /\ Board(key, board) \in [Cells -> Tiles]
           /\ Moved(key, board) <=> Moves(key, board)
           /\ Moved(key, board) <=> Board(key, board) # board
           /\ HasTile(board) => HasTile(Board(key, board))
           /\ ByTheRules(key, board, Board(key, board))
<1>1. PICK lines : lines = Lines(key)
  OBVIOUS
<1>2. PICK L \in Nat \ {0}, N \in Nat \ {0} : Lining(lines, L, N)
  BY <1>1, LinesFacts
<1> DEFINE old(j) == TilesOf(board, lines[j])
           slid(j) == Slid(old(j), Order(key, N))
           new == Board(key, board)
<1>3. /\ Len(lines) = L /\ DOMAIN lines = 1 .. L
      /\ \A j \in 1 .. L : Len(lines[j]) = N /\ \A k \in 1 .. N : lines[j][k] \in Cells
  BY <1>2 DEF Lining
<1>4. \A j \in 1 .. L : old(j) \in [1 .. N -> Tiles] /\ \A k \in 1 .. N : old(j)[k] = board[lines[j][k]]
  BY <1>3 DEF TilesOf
<1> HIDE DEF old
<1>5. \A j \in 1 .. L :
        /\ slid(j).line \in [1 .. N -> Tiles] /\ slid(j).moved \in BOOLEAN
        /\ slid(j).moved <=> Movable(N, old(j))
        /\ slid(j).moved <=> slid(j).line # old(j)
        /\ (\E k \in 1 .. N : old(j)[k] # EMPTY) => \E k \in 1 .. N : slid(j).line[k] # EMPTY
        /\ slid(j).line = Ruled(old(j))
  <2> TAKE j \in 1 .. L
  <2>1. PICK line \in [1 .. N -> Tiles] : line = old(j)
    BY <1>4
  <2>2. PICK order : order = Order(key, N) /\ Covers(order, N)
    BY CoversFacts
  <2>3. PICK s : s = Slid(line, order)
    OBVIOUS
  <2>4. /\ s.line \in [1 .. N -> Tiles] /\ s.moved \in BOOLEAN
        /\ s.moved <=> Movable(N, line)
        /\ s.moved <=> s.line # line
        /\ (\E k \in 1 .. N : line[k] # EMPTY) => \E k \in 1 .. N : s.line[k] # EMPTY
    BY <2>2, <2>3, SlidFacts
  <2>5. slid(j) = s
    BY <2>1, <2>2, <2>3
  <2>6. s.line = Ruled(line)
    BY <2>2, <2>3, SlidRuled
  <2> QED BY <2>1, <2>4, <2>5, <2>6
<1> HIDE DEF slid
<1>6. Slides(key, board) = [j \in 1 .. L |-> slid(j)]
  BY <1>1, <1>3 DEF Slides, old, slid
<1>7. \A j \in 1 .. L : \A k \in 1 .. N : new[lines[j][k]] = slid(j).line[k]
  <2> TAKE j \in 1 .. L
  <2> TAKE k \in 1 .. N
  <2>1. PICK p \in Cells : p = lines[j][k]
    BY <1>3
  <2> DEFINE P(at) == lines[at[1]][at[2]] = p
             at == CHOOSE at \in (1 .. L) \X (1 .. N) : P(at)
  <2>2. <<j, k>> \in (1 .. L) \X (1 .. N) /\ P(<<j, k>>)
    BY <2>1
  <2>3. at \in (1 .. L) \X (1 .. N) /\ P(at)
    BY <2>2
  <2>4. Len(lines[1]) = N
    BY <1>3
  <2>5. new[p] = slid(at[1]).line[at[2]]
    BY <1>1, <1>3, <1>6, <2>3, <2>4 DEF Board
  <2> HIDE DEF at
  <2>6. at[1] = j /\ at[2] = k
    <3>1. PICK i \in 1 .. L, h \in 1 .. N : at[1] = i /\ at[2] = h
      BY <2>3
    <3>2. lines[i][h] = lines[j][k]
      BY <2>1, <2>3, <3>1
    <3> QED BY <3>1, <3>2, <1>2 DEF Lining
  <2> QED BY <2>1, <2>5, <2>6
<1>8. new = [p \in Cells |-> new[p]]
  BY BoardShape, Zenon
<1> HIDE DEF new
<1>9. new \in [Cells -> Tiles]
  <2>1. ASSUME NEW p \in Cells PROVE new[p] \in Tiles
    <3>1. PICK j \in 1 .. L, k \in 1 .. N : lines[j][k] = p
      BY <1>2 DEF Lining
    <3> QED BY <3>1, <1>5, <1>7
  <2> QED BY <2>1, <1>8
<1>10. Moved(key, board) <=> \E j \in 1 .. L : slid(j).moved
  BY <1>6 DEF Moved
<1>11. Moved(key, board) <=> Moves(key, board)
  BY <1>1, <1>3, <1>5, <1>10 DEF Moves, old
<1>12. new # board <=> \E j \in 1 .. L : slid(j).line # old(j)
  <2>1. ASSUME NEW j \in 1 .. L, slid(j).line # old(j) PROVE new # board
    <3>1. PICK k \in 1 .. N : slid(j).line[k] # old(j)[k]
      BY <2>1, <1>4, <1>5
    <3> QED BY <3>1, <1>4, <1>7
  <2>2. ASSUME \A j \in 1 .. L : slid(j).line = old(j) PROVE new = board
    <3>1. ASSUME NEW p \in Cells PROVE new[p] = board[p]
      <4>1. PICK j \in 1 .. L, k \in 1 .. N : lines[j][k] = p
        BY <1>2 DEF Lining
      <4>2. new[p] = slid(j).line[k] /\ board[p] = old(j)[k]
        BY <4>1, <1>4, <1>7
      <4> QED BY <4>2, <2>2
    <3> QED BY <3>1, <1>8
  <2> QED BY <2>1, <2>2
<1>13. ASSUME HasTile(board) PROVE HasTile(new)
  <2>1. PICK p \in Cells : board[p] # EMPTY
    BY <1>13 DEF HasTile
  <2>2. PICK j \in 1 .. L, k \in 1 .. N : lines[j][k] = p
    BY <1>2 DEF Lining
  <2>3. old(j)[k] # EMPTY
    BY <2>1, <2>2, <1>4
  <2>4. PICK i \in 1 .. N : slid(j).line[i] # EMPTY
    BY <2>3, <1>5
  <2>5. lines[j][i] \in Cells /\ new[lines[j][i]] = slid(j).line[i]
    BY <1>3, <1>7
  <2> QED BY <2>4, <2>5 DEF HasTile
<1>14. ASSUME NEW j \in 1 .. L PROVE TilesOf(new, lines[j]) = Ruled(old(j))
  <2>1. PICK end : end = slid(j).line
    OBVIOUS
  <2>2. end \in [1 .. N -> Tiles] /\ end = Ruled(old(j))
    BY <2>1, <1>5
  <2>3. \A k \in 1 .. N : new[lines[j][k]] = end[k]
    BY <2>1, <1>7
  <2>4. TilesOf(new, lines[j]) = [k \in 1 .. N |-> new[lines[j][k]]]
    BY <1>3 DEF TilesOf
  <2>5. TilesOf(new, lines[j]) = end
    BY <2>2, <2>3, <2>4
  <2> QED BY <2>2, <2>5
<1>15. ByTheRules(key, board, new)
  BY <1>1, <1>3, <1>14 DEF ByTheRules, old
<1> QED BY <1>5, <1>9, <1>10, <1>11, <1>12, <1>13, <1>15 DEF new

-----------------------------------------------------------------------------
(* legal_move_check() *)

(* Where tiles come after gaps, some tile comes right after a gap.         *)
LEMMA GapBefore ==
    ASSUME NEW n \in Nat, NEW line, NEW i \in 1 .. n, NEW j \in 1 .. n, i < j,
           line[i] = EMPTY, line[j] # EMPTY
    PROVE  \E k \in 1 .. n - 1 : Gap(line, k)
<1> DEFINE T == {m \in i .. j : line[m] # EMPTY}
<1>1. T \subseteq Nat /\ T # {}
  OBVIOUS
<1> HIDE DEF T
<1>2. PICK m \in T : \A k \in 0 .. m - 1 : k \notin T
  BY <1>1, Least
<1> USE DEF T
<1>3. m \in i + 1 .. j /\ m - 1 \in 0 .. m - 1
  BY <1>2
<1>4. line[m - 1] = EMPTY /\ m - 1 \in 1 .. n - 1 /\ (m - 1) + 1 = m
  BY <1>2, <1>3
<1>5. Gap(line, m - 1)
  BY <1>2, <1>4 DEF Gap
<1> QED BY <1>4, <1>5

LEMMA Places ==
    ASSUME Sized
    PROVE  /\ \A r \in 0 .. rows - 1, c \in 0 .. cols - 1 : <<r, c>> \in Cells
           /\ \A p \in Cells : \E r \in 0 .. rows - 1, c \in 0 .. cols - 1 : p = <<r, c>>
<1>1. \A p \in Cells : p[1] \in 0 .. rows - 1 /\ p[2] \in 0 .. cols - 1 /\ p = <<p[1], p[2]>>
  BY DEF Cells
<1> QED BY <1>1 DEF Cells

(* A line that can move is one of its key.                                 *)
LEMMA LineMoves ==
    ASSUME Sized, NEW board \in [Cells -> Tiles], NEW key \in Keys, NEW L \in Nat, NEW N \in Nat,
           Lining(Lines(key), L, N), NEW j \in 1 .. L
    PROVE  /\ \A k \in 1 .. N : TilesOf(board, Lines(key)[j])[k] = board[Lines(key)[j][k]]
           /\ Movable(N, TilesOf(board, Lines(key)[j])) => \E any \in Keys : Moves(any, board)
<1>1. PICK lines : lines = Lines(key)
  OBVIOUS
<1>2. DOMAIN lines = 1 .. L /\ Len(lines[j]) = N
  BY <1>1 DEF Lining
<1>3. \A k \in 1 .. N : TilesOf(board, lines[j])[k] = board[lines[j][k]]
  BY <1>2 DEF TilesOf
<1>4. Movable(N, TilesOf(board, lines[j])) => Moves(key, board)
  BY <1>1, <1>2 DEF Moves
<1> QED BY <1>1, <1>3, <1>4

(* A column or a row that holds a tile and a gap lets one key move.        *)
LEMMA ColumnMoves ==
    ASSUME Sized, NEW board \in [Cells -> Tiles], NEW c \in 0 .. cols - 1,
           NEW r \in 0 .. rows - 1, NEW q \in 0 .. rows - 1,
           board[<<r, c>>] = EMPTY, board[<<q, c>>] # EMPTY
    PROVE  \E key \in Keys : Moves(key, board)
<1>1. r # q /\ r \in Nat /\ q \in Nat /\ c + 1 \in 1 .. cols /\ (c + 1) - 1 = c
  BY DEF Sized
<1> DEFINE n == rows
<1>2. n \in Nat /\ cols \in Nat
  BY DEF Sized
<1>3. CASE r < q
  <2>1. PICK line : line = TilesOf(board, Lines("w")[c + 1])
    OBVIOUS
  <2>2. /\ r + 1 \in 1 .. n /\ q + 1 \in 1 .. n /\ r + 1 < q + 1
        /\ (r + 1) - 1 = r /\ (q + 1) - 1 = q
    BY <1>1, <1>2, <1>3
  <2>3. Lines("w")[c + 1][r + 1] = <<r, c>> /\ Lines("w")[c + 1][q + 1] = <<q, c>>
    BY <1>1, <2>2, WLines
  <2>4. \A k \in 1 .. n : line[k] = board[Lines("w")[c + 1][k]]
    BY <1>1, <1>2, <2>1, WLines, LineMoves DEF Keys
  <2>5. line[r + 1] = EMPTY /\ line[q + 1] # EMPTY
    BY <2>2, <2>3, <2>4
  <2>6. Movable(n, line)
    BY <1>2, <2>2, <2>5, GapBefore DEF Movable
  <2> QED BY <1>1, <1>2, <2>1, <2>6, WLines, LineMoves DEF Keys
<1>4. CASE q < r
  <2>1. PICK line : line = TilesOf(board, Lines("s")[c + 1])
    OBVIOUS
  <2>2. /\ n - r \in 1 .. n /\ n - q \in 1 .. n /\ n - r < n - q
        /\ n - (n - r) = r /\ n - (n - q) = q
    BY <1>1, <1>2, <1>4
  <2>3. Lines("s")[c + 1][n - r] = <<r, c>> /\ Lines("s")[c + 1][n - q] = <<q, c>>
    BY <1>1, <2>2, SLines
  <2>4. \A k \in 1 .. n : line[k] = board[Lines("s")[c + 1][k]]
    BY <1>1, <1>2, <2>1, SLines, LineMoves DEF Keys
  <2>5. line[n - r] = EMPTY /\ line[n - q] # EMPTY
    BY <2>2, <2>3, <2>4
  <2>6. Movable(n, line)
    BY <1>2, <2>2, <2>5, GapBefore DEF Movable
  <2> QED BY <1>1, <1>2, <2>1, <2>6, SLines, LineMoves DEF Keys
<1> QED BY <1>1, <1>3, <1>4

LEMMA RowMoves ==
    ASSUME Sized, NEW board \in [Cells -> Tiles], NEW r \in 0 .. rows - 1,
           NEW c \in 0 .. cols - 1, NEW d \in 0 .. cols - 1,
           board[<<r, c>>] = EMPTY, board[<<r, d>>] # EMPTY
    PROVE  \E key \in Keys : Moves(key, board)
<1>1. c # d /\ c \in Nat /\ d \in Nat /\ r + 1 \in 1 .. rows /\ (r + 1) - 1 = r
  BY DEF Sized
<1> DEFINE n == cols
<1>2. n \in Nat /\ rows \in Nat
  BY DEF Sized
<1>3. CASE c < d
  <2>1. PICK line : line = TilesOf(board, Lines("a")[r + 1])
    OBVIOUS
  <2>2. /\ c + 1 \in 1 .. n /\ d + 1 \in 1 .. n /\ c + 1 < d + 1
        /\ (c + 1) - 1 = c /\ (d + 1) - 1 = d
    BY <1>1, <1>2, <1>3
  <2>3. Lines("a")[r + 1][c + 1] = <<r, c>> /\ Lines("a")[r + 1][d + 1] = <<r, d>>
    BY <1>1, <2>2, ALines
  <2>4. \A k \in 1 .. n : line[k] = board[Lines("a")[r + 1][k]]
    BY <1>1, <1>2, <2>1, ALines, LineMoves DEF Keys
  <2>5. line[c + 1] = EMPTY /\ line[d + 1] # EMPTY
    BY <2>2, <2>3, <2>4
  <2>6. Movable(n, line)
    BY <1>2, <2>2, <2>5, GapBefore DEF Movable
  <2> QED BY <1>1, <1>2, <2>1, <2>6, ALines, LineMoves DEF Keys
<1>4. CASE d < c
  <2>1. PICK line : line = TilesOf(board, Lines("d")[r + 1])
    OBVIOUS
  <2>2. /\ n - c \in 1 .. n /\ n - d \in 1 .. n /\ n - c < n - d
        /\ n - (n - c) = c /\ n - (n - d) = d
    BY <1>1, <1>2, <1>4
  <2>3. Lines("d")[r + 1][n - c] = <<r, c>> /\ Lines("d")[r + 1][n - d] = <<r, d>>
    BY <1>1, <2>2, DLines
  <2>4. \A k \in 1 .. n : line[k] = board[Lines("d")[r + 1][k]]
    BY <1>1, <1>2, <2>1, DLines, LineMoves DEF Keys
  <2>5. line[n - c] = EMPTY /\ line[n - d] # EMPTY
    BY <2>2, <2>3, <2>4
  <2>6. Movable(n, line)
    BY <1>2, <2>2, <2>5, GapBefore DEF Movable
  <2> QED BY <1>1, <1>2, <2>1, <2>6, DLines, LineMoves DEF Keys
<1> QED BY <1>1, <1>3, <1>4

(* Two equal tiles side by side let one key move.                          *)
LEMMA TwinsMove ==
    ASSUME Sized, NEW board \in [Cells -> Tiles], NEW r \in 0 .. rows - 1, NEW c \in 0 .. cols - 1,
           board[<<r, c>>] # EMPTY,
           \/ r \in 0 .. rows - 2 /\ board[<<r, c>>] = board[<<r + 1, c>>]
           \/ c \in 0 .. cols - 2 /\ board[<<r, c>>] = board[<<r, c + 1>>]
    PROVE  \E key \in Keys : Moves(key, board)
<1>1. /\ r \in Nat /\ c \in Nat /\ r + 1 \in 1 .. rows /\ (r + 1) - 1 = r
      /\ c + 1 \in 1 .. cols /\ (c + 1) - 1 = c
      /\ ((r + 1) + 1) - 1 = r + 1 /\ ((c + 1) + 1) - 1 = c + 1
      /\ rows \in Nat /\ cols \in Nat
  BY DEF Sized
<1>2. CASE r \in 0 .. rows - 2 /\ board[<<r, c>>] = board[<<r + 1, c>>]
  <2>1. PICK line : line = TilesOf(board, Lines("w")[c + 1])
    OBVIOUS
  <2>2. r + 1 \in 1 .. rows - 1 /\ r + 1 \in 1 .. rows /\ (r + 1) + 1 \in 1 .. rows
    BY <1>1, <1>2
  <2>3. Lines("w")[c + 1][r + 1] = <<r, c>> /\ Lines("w")[c + 1][(r + 1) + 1] = <<r + 1, c>>
    BY <1>1, <2>2, WLines
  <2>4. \A k \in 1 .. rows : line[k] = board[Lines("w")[c + 1][k]]
    BY <1>1, <2>1, WLines, LineMoves DEF Keys
  <2>5. line[r + 1] = board[<<r, c>>] /\ line[(r + 1) + 1] = board[<<r + 1, c>>]
    BY <2>2, <2>3, <2>4
  <2>6. Movable(rows, line)
    BY <1>2, <2>2, <2>5 DEF Movable, Twins
  <2> QED BY <1>1, <2>1, <2>6, WLines, LineMoves DEF Keys
<1>3. CASE c \in 0 .. cols - 2 /\ board[<<r, c>>] = board[<<r, c + 1>>]
  <2>1. PICK line : line = TilesOf(board, Lines("a")[r + 1])
    OBVIOUS
  <2>2. c + 1 \in 1 .. cols - 1 /\ c + 1 \in 1 .. cols /\ (c + 1) + 1 \in 1 .. cols
    BY <1>1, <1>3
  <2>3. Lines("a")[r + 1][c + 1] = <<r, c>> /\ Lines("a")[r + 1][(c + 1) + 1] = <<r, c + 1>>
    BY <1>1, <2>2, ALines
  <2>4. \A k \in 1 .. cols : line[k] = board[Lines("a")[r + 1][k]]
    BY <1>1, <2>1, ALines, LineMoves DEF Keys
  <2>5. line[c + 1] = board[<<r, c>>] /\ line[(c + 1) + 1] = board[<<r, c + 1>>]
    BY <2>2, <2>3, <2>4
  <2>6. Movable(cols, line)
    BY <1>3, <2>2, <2>5 DEF Movable, Twins
  <2> QED BY <1>1, <2>1, <2>6, ALines, LineMoves DEF Keys
<1> QED BY <1>2, <1>3

(* A legal move is one that some key makes, once there is a tile.          *)
LEMMA LegalMoveFound ==
    ASSUME Sized, NEW board \in [Cells -> Tiles], HasTile(board), LegalMove(board)
    PROVE  \E key \in Keys : Moves(key, board)
<1>1. CASE \E p \in Cells : board[p] = EMPTY
  <2>1. PICK r \in 0 .. rows - 1, c \in 0 .. cols - 1 : board[<<r, c>>] = EMPTY
    BY <1>1, Places
  <2>2. PICK q \in 0 .. rows - 1, d \in 0 .. cols - 1 : board[<<q, d>>] # EMPTY
    <3>1. PICK p \in Cells : board[p] # EMPTY
      BY DEF HasTile
    <3>2. PICK q \in 0 .. rows - 1, d \in 0 .. cols - 1 : p = <<q, d>>
      BY Places
    <3> QED BY <3>1, <3>2
  <2>3. CASE board[<<r, d>>] = EMPTY
    BY <2>2, <2>3, ColumnMoves
  <2>4. CASE board[<<r, d>>] # EMPTY
    BY <2>1, <2>4, RowMoves
  <2> QED BY <2>3, <2>4
<1>2. CASE ~\E p \in Cells : board[p] = EMPTY
  <2>1. PICK r \in 0 .. rows - 1, c \in 0 .. cols - 1 :
          \/ r \in 0 .. rows - 2 /\ board[<<r, c>>] = board[<<r + 1, c>>]
          \/ c \in 0 .. cols - 2 /\ board[<<r, c>>] = board[<<r, c + 1>>]
    <3>1. 0 .. rows - 2 \subseteq 0 .. rows - 1 /\ 0 .. cols - 2 \subseteq 0 .. cols - 1
      BY DEF Sized
    <3> QED BY <1>2, <3>1 DEF LegalMove
  <2>2. board[<<r, c>>] # EMPTY
    BY <1>2, Places
  <2> QED BY <2>1, <2>2, TwinsMove
<1> QED BY <1>1, <1>2

(* Neighbours on a line of a key are neighbours on the board.              *)
LEMMA Neighbours ==
    ASSUME Sized, NEW board \in [Cells -> Tiles], NEW key \in Keys, NEW L \in Nat, NEW N \in Nat,
           Lining(Lines(key), L, N), NEW j \in 1 .. L, NEW k \in 1 .. N - 1,
           board[Lines(key)[j][k]] = board[Lines(key)[j][k + 1]]
    PROVE  LegalMove(board)
<1> DEFINE V(r, c) == r \in 0 .. rows - 2 /\ c \in 0 .. cols - 1
                       /\ board[<<r, c>>] = board[<<r + 1, c>>]
           H(r, c) == r \in 0 .. rows - 1 /\ c \in 0 .. cols - 2
                       /\ board[<<r, c>>] = board[<<r, c + 1>>]
<1> SUFFICES \E r, c \in Int : V(r, c) \/ H(r, c)
  BY DEF LegalMove
<1>1. PICK lines : lines = Lines(key)
  OBVIOUS
<1>2. Len(lines) = L /\ Len(lines[j]) = N /\ k \in Nat /\ j \in Nat /\ rows \in Nat /\ cols \in Nat
  BY <1>1 DEF Lining, Sized
<1>3. CASE key = "w"
  <2>1. Len(lines) = cols /\ \A i \in 1 .. cols : Len(lines[i]) = rows
    BY <1>1, <1>3, WLines DEF Lining
  <2>2. L = cols /\ N = rows
    BY <1>2, <2>1
  <2>3. k \in 1 .. N /\ k + 1 \in 1 .. N
    BY <1>2
  <2>4. lines[j][k] = <<k - 1, j - 1>> /\ lines[j][k + 1] = <<(k + 1) - 1, j - 1>>
    BY <1>1, <1>3, <2>2, <2>3, WLines
  <2>5. (k + 1) - 1 = (k - 1) + 1
    BY <1>2
  <2>6. V(k - 1, j - 1) /\ k - 1 \in Int /\ j - 1 \in Int
    BY <1>1, <1>2, <2>2, <2>4, <2>5
  <2> QED BY <2>6
<1>4. CASE key = "s"
  <2>1. Len(lines) = cols /\ \A i \in 1 .. cols : Len(lines[i]) = rows
    BY <1>1, <1>4, SLines DEF Lining
  <2>2. L = cols /\ N = rows
    BY <1>2, <2>1
  <2>3. k \in 1 .. N /\ k + 1 \in 1 .. N
    BY <1>2
  <2>4. lines[j][k] = <<rows - k, j - 1>> /\ lines[j][k + 1] = <<rows - (k + 1), j - 1>>
    BY <1>1, <1>4, <2>2, <2>3, SLines
  <2>5. rows - k = (rows - (k + 1)) + 1
    BY <1>2
  <2>6. V(rows - (k + 1), j - 1) /\ rows - (k + 1) \in Int /\ j - 1 \in Int
    BY <1>1, <1>2, <2>2, <2>4, <2>5
  <2> QED BY <2>6
<1>5. CASE key = "a"
  <2>1. Len(lines) = rows /\ \A i \in 1 .. rows : Len(lines[i]) = cols
    BY <1>1, <1>5, ALines DEF Lining
  <2>2. L = rows /\ N = cols
    BY <1>2, <2>1
  <2>3. k \in 1 .. N /\ k + 1 \in 1 .. N
    BY <1>2
  <2>4. lines[j][k] = <<j - 1, k - 1>> /\ lines[j][k + 1] = <<j - 1, (k + 1) - 1>>
    BY <1>1, <1>5, <2>2, <2>3, ALines
  <2>5. (k + 1) - 1 = (k - 1) + 1
    BY <1>2
  <2>6. H(j - 1, k - 1) /\ j - 1 \in Int /\ k - 1 \in Int
    BY <1>1, <1>2, <2>2, <2>4, <2>5
  <2> QED BY <2>6
<1>6. CASE key = "d"
  <2>1. Len(lines) = rows /\ \A i \in 1 .. rows : Len(lines[i]) = cols
    BY <1>1, <1>6, DLines DEF Lining
  <2>2. L = rows /\ N = cols
    BY <1>2, <2>1
  <2>3. k \in 1 .. N /\ k + 1 \in 1 .. N
    BY <1>2
  <2>4. lines[j][k] = <<j - 1, cols - k>> /\ lines[j][k + 1] = <<j - 1, cols - (k + 1)>>
    BY <1>1, <1>6, <2>2, <2>3, DLines
  <2>5. cols - k = (cols - (k + 1)) + 1
    BY <1>2
  <2>6. H(j - 1, cols - (k + 1)) /\ j - 1 \in Int /\ cols - (k + 1) \in Int
    BY <1>1, <1>2, <2>2, <2>4, <2>5
  <2> QED BY <2>6
<1> QED BY <1>3, <1>4, <1>5, <1>6 DEF Keys

(* No key moves a board without a legal move.                              *)
LEMMA NoOtherMove ==
    ASSUME Sized, NEW board \in [Cells -> Tiles], NEW key \in Keys, Moves(key, board)
    PROVE  LegalMove(board)
<1>1. PICK lines : lines = Lines(key)
  OBVIOUS
<1>2. PICK j \in DOMAIN lines : Movable(Len(lines[j]), TilesOf(board, lines[j]))
  BY <1>1 DEF Moves
<1>3. PICK L \in Nat \ {0}, N \in Nat \ {0} : Lining(lines, L, N)
  BY <1>1, LinesFacts
<1>4. j \in 1 .. L /\ Len(lines[j]) = N /\ \A k \in 1 .. N : lines[j][k] \in Cells
  BY <1>2, <1>3 DEF Lining
<1>5. PICK line : line = TilesOf(board, lines[j])
  OBVIOUS
<1>6. \A k \in 1 .. N : line[k] = board[lines[j][k]]
  BY <1>4, <1>5 DEF TilesOf
<1>7. PICK k \in 1 .. N - 1 : Gap(line, k) \/ Twins(line, k)
  BY <1>2, <1>4, <1>5 DEF Movable
<1>8. k \in 1 .. N /\ k + 1 \in 1 .. N
  OBVIOUS
<1>9. CASE Gap(line, k)
  BY <1>4, <1>6, <1>8, <1>9 DEF Gap, LegalMove
<1>10. CASE Twins(line, k)
  <2>1. board[lines[j][k]] = board[lines[j][k + 1]]
    BY <1>6, <1>8, <1>10 DEF Twins
  <2> QED BY <2>1, <1>1, <1>3, <1>4, Neighbours
<1> QED BY <1>7, <1>9, <1>10

(* legal_move_check() finds out whether some key moves something.          *)
LEMMA LegalMoveFacts ==
    ASSUME Sized, NEW board \in [Cells -> Tiles], HasTile(board)
    PROVE  LegalMove(board) <=> \E key \in Keys : Board(key, board) # board
<1>1. \A key \in Keys : Board(key, board) # board <=> Moves(key, board)
  BY BoardFacts
<1>2. LegalMove(board) => \E key \in Keys : Moves(key, board)
  BY LegalMoveFound
<1>3. \A key \in Keys : Moves(key, board) => LegalMove(board)
  BY NoOtherMove
<1> QED BY <1>1, <1>2, <1>3

-----------------------------------------------------------------------------
(* The game *)

\* The inductive invariant: a game has a tile from its first to its end, and
\* waits for a key only when there is a legal move.
IInv ==
    /\ rows \in 1 .. 9 /\ cols \in 1 .. 9 /\ <<rows, cols>> \in Sizes
    /\ cells \in [Cells -> Tiles]
    /\ index_random \in 0 .. 9
    /\ pc \in {"first", "input", "tile", "check", "over", "quit"}
    /\ pc = "first" => \A p \in Cells : cells[p] = EMPTY
    /\ pc # "first" => HasTile(cells)
    /\ pc = "input" => LegalMove(cells) \/ <<rows, cols>> = <<1, 1>>
    /\ pc = "over" => ~LegalMove(cells)

LEMMA InitStep == Init => IInv
<1> SUFFICES ASSUME Init PROVE IInv
  OBVIOUS
<1>1. rows \in 1 .. 9 /\ cols \in 1 .. 9 /\ <<rows, cols>> \in Sizes
  BY SizesAssumption DEF Init
<1> QED BY <1>1 DEF Init, IInv, Tiles

(* A number below the number of cells is a cell of the board.              *)
LEMMA CellOf ==
    ASSUME NEW a \in Nat, NEW r \in Nat \ {0}, NEW c \in Nat \ {0}
    PROVE  /\ (a % (r * c)) \div c \in 0 .. r - 1
           /\ (a % (r * c)) % c \in 0 .. c - 1
<1>1. PICK m \in Nat \ {0} : m = r * c
  OBVIOUS
<1>2. PICK i \in 0 .. m - 1 : i = a % m
  BY <1>1
<1>3. PICK q \in Int, d \in 0 .. c - 1 : q = i \div c /\ d = i % c /\ i = (q * c) + d
  OBVIOUS
<1>4. q >= 0
  <2>1. q < 0 => q * c <= (-1) * c
    OBVIOUS
  <2> QED BY <2>1, <1>3
<1>5. q < r
  <2>1. q >= r => q * c >= r * c
    OBVIOUS
  <2> QED BY <2>1, <1>1, <1>2, <1>3
<1> QED BY <1>1, <1>2, <1>3, <1>4, <1>5

LEMMA TryTileStep ==
    ASSUME IInv, TryTile
    PROVE  IInv'
<1>1. Sized /\ rows \in Nat \ {0} /\ cols \in Nat \ {0}
  BY DEF IInv, Sized
<1>2. NextIndex \in 0 .. 9 /\ NextIndex + 1 \in 1 .. 10
  BY DEF IInv, NextIndex
<1>3. PICK num \in Nat : num = random_numbers[NextIndex + 1]
  BY <1>2 DEF random_numbers
<1>4. PICK p \in Cells : p = <<(num % (rows * cols)) \div cols, (num % (rows * cols)) % cols>>
  BY <1>1, CellOf, Places
<1>5. NewTile(num) \in Tiles /\ NewTile(num) # EMPTY
  BY DEF NewTile, Tiles, EMPTY
<1>6. /\ pc \in {"first", "tile"} /\ index_random' = NextIndex
      /\ UNCHANGED <<rows, cols, score>> /\ Cells' = Cells
      /\ IF cells[p] = EMPTY
         THEN /\ cells' = [cells EXCEPT ![p] = NewTile(num)]
              /\ pc' = IF pc = "first" THEN "input" ELSE "check"
         ELSE UNCHANGED <<cells, pc>>
  BY <1>3, <1>4 DEF TryTile, Cells
<1>7. CASE cells[p] = EMPTY
  <2>1. /\ cells' \in [Cells -> Tiles] /\ cells'[p] # EMPTY
        /\ \A o \in Cells : o # p => cells'[o] = cells[o]
    BY <1>5, <1>6, <1>7 DEF IInv
  <2>2. HasTile(cells)'
    BY <2>1, <1>6 DEF HasTile
  <2>3. pc' = "input" => LegalMove(cells)' \/ <<rows, cols>> = <<1, 1>>
    <3> SUFFICES ASSUME pc = "first", <<rows, cols>> # <<1, 1>>
                 PROVE  \E o \in Cells : cells'[o] = EMPTY
      BY <1>6, <1>7 DEF LegalMove
    <3>1. \E o \in Cells : o # p
      <4>1. <<0, 0>> \in Cells
        BY <1>1, Places
      <4>2. CASE rows > 1
        <5>1. <<1, 0>> \in Cells /\ <<1, 0>> # <<0, 0>>
          BY <1>1, <4>2, Places
        <5> QED BY <4>1, <5>1
      <4>3. CASE cols > 1
        <5>1. <<0, 1>> \in Cells /\ <<0, 1>> # <<0, 0>>
          BY <1>1, <4>3, Places
        <5> QED BY <4>1, <5>1
      <4>4. rows > 1 \/ cols > 1
        BY <1>1
      <4> QED BY <4>2, <4>3, <4>4
    <3> QED BY <3>1, <2>1 DEF IInv
  <2>4. pc' \in {"input", "check"}
    BY <1>6, <1>7
  <2> QED BY <1>2, <1>6, <2>1, <2>2, <2>3, <2>4 DEF IInv
<1>8. CASE cells[p] # EMPTY
  <2>1. pc = "tile"
    BY <1>6, <1>8 DEF IInv
  <2>2. HasTile(cells)'
    BY <1>6, <1>8, <2>1 DEF IInv, HasTile
  <2> QED BY <1>2, <1>6, <1>8, <2>1, <2>2 DEF IInv
<1> QED BY <1>7, <1>8

LEMMA TurnStep ==
    ASSUME IInv, NEW key \in Keys, Turn(key)
    PROVE  IInv'
<1>1. /\ cells' = Board(key, cells)
      /\ pc' = IF Moved(key, cells) THEN "tile" ELSE "check"
  BY DEF Turn
<1>2. pc = "input" /\ UNCHANGED <<rows, cols, index_random>> /\ Cells' = Cells
  BY DEF Turn, Cells
<1>3. Sized /\ cells \in [Cells -> Tiles] /\ HasTile(cells)
  BY <1>2 DEF IInv, Sized
<1>4. cells' \in [Cells -> Tiles] /\ HasTile(Board(key, cells))
  BY <1>1, <1>3, BoardFacts
<1>5. HasTile(cells)'
  BY <1>1, <1>2, <1>4 DEF HasTile
<1>6. pc' \in {"tile", "check"}
  BY <1>1
<1> QED BY <1>2, <1>4, <1>5, <1>6 DEF IInv

LEMMA OtherStep ==
    ASSUME IInv, BadKey \/ Quit \/ Check \/ UNCHANGED vars
    PROVE  IInv'
<1>1. UNCHANGED <<rows, cols, cells, index_random>> /\ Cells' = Cells
  BY DEF BadKey, Quit, Check, vars, Cells
<1>2. (HasTile(cells)' <=> HasTile(cells)) /\ (LegalMove(cells)' <=> LegalMove(cells))
  BY <1>1 DEF HasTile, LegalMove
<1>3. CASE BadKey \/ Quit
  BY <1>1, <1>2, <1>3 DEF IInv, BadKey, Quit
<1>4. CASE Check
  BY <1>1, <1>2, <1>4 DEF IInv, Check
<1>5. CASE UNCHANGED vars
  BY <1>1, <1>2, <1>5 DEF IInv, vars
<1> QED BY <1>3, <1>4, <1>5

(* IInv holds in every reachable state, for any sizes of boards the player *)
(* may ask for.                                                            *)
THEOREM Invariance == Spec => []IInv
<1>1. Init => IInv
  BY InitStep
<1>2. IInv /\ [Next]_vars => IInv'
  BY TryTileStep, TurnStep, OtherStep DEF Next
<1> QED BY <1>1, <1>2, PTL DEF Spec

(* What a move returns, the flag moved that its loops set on the way, is   *)
(* whether the board is another one after it: no swap or merge is undone   *)
(* by a later one.  A new tile comes for moves that change something only. *)
THEOREM MovedMeansChanged ==
    Spec => [](\A key \in Keys : Moved(key, cells) <=> Board(key, cells) # cells)
<1>1. IInv => \A key \in Keys : Moved(key, cells) <=> Board(key, cells) # cells
  BY BoardFacts DEF IInv, Sized
<1> QED BY <1>1, Invariance, PTL

(* legal_move_check() agrees with the four moves on every board that has a *)
(* tile, although it repeats none of what they do.                         *)
THEOREM LegalMoveAgrees ==
    Spec => [](pc # "first" => (LegalMove(cells) <=> \E key \in Keys : Board(key, cells) # cells))
<1>1. IInv /\ pc # "first" => (LegalMove(cells) <=> \E key \in Keys : Board(key, cells) # cells)
  BY LegalMoveFacts DEF IInv, Sized
<1> QED BY <1>1, Invariance, PTL

(* The game waits for a key only when some key moves something, and is     *)
(* over only when none does, for any boards but those of one cell.         *)
THEOREM OverMeansStuckSafe ==
    ASSUME <<1, 1>> \notin Sizes
    PROVE  Spec => []OverMeansStuck
<1>1. IInv => OverMeansStuck
  <2> SUFFICES ASSUME IInv PROVE OverMeansStuck
    OBVIOUS
  <2>1. Sized /\ cells \in [Cells -> Tiles]
    BY DEF IInv, Sized
  <2>2. CASE pc = "input"
    <3>1. LegalMove(cells) /\ HasTile(cells)
      BY <2>2 DEF IInv
    <3>2. \E key \in Keys : Board(key, cells) # cells
      BY <3>1, <2>1, LegalMoveFacts
    <3> QED BY <2>2, <3>2 DEF OverMeansStuck
  <2>3. CASE pc = "over"
    <3>1. ~LegalMove(cells) /\ HasTile(cells)
      BY <2>3 DEF IInv
    <3>2. ~\E key \in Keys : Board(key, cells) # cells
      BY <3>1, <2>1, LegalMoveFacts
    <3> QED BY <2>3, <3>2 DEF OverMeansStuck
  <2> QED BY <2>2, <2>3 DEF OverMeansStuck
<1> QED BY <1>1, Invariance, PTL

(* Each of the four keys leaves on every line of the board, from its own   *)
(* wall on, what the rules of the game make of it, for lines of any length *)
(* and any tiles: the passes of its loops close the tiles up, and the one  *)
(* pass of merges that is between them doubles no tile twice and joins no  *)
(* tiles that were not neighbours.  The flag that calls for a new tile is  *)
(* set exactly when the board has changed.                                 *)
THEOREM MovesByTheRulesSafe == Spec => MovesByTheRules
<1> DEFINE Step(key) == /\ ByTheRules(key, cells, cells')
                        /\ pc' = "tile" <=> cells' # cells
<1>1. ASSUME IInv, NEW key \in Keys, Turn(key) PROVE Step(key)
  <2>1. Sized /\ cells \in [Cells -> Tiles]
    <3>1. pc = "input"
      BY <1>1 DEF Turn
    <3> QED BY <1>1, <3>1 DEF IInv, Sized
  <2>2. ByTheRules(key, cells, Board(key, cells)) /\ (Moved(key, cells) <=> Board(key, cells) # cells)
    BY <1>1, <2>1, BoardFacts
  <2>3. cells' = Board(key, cells) /\ pc' = IF Moved(key, cells) THEN "tile" ELSE "check"
    BY <1>1 DEF Turn
  <2> QED BY <2>2, <2>3
<1>2. IInv /\ [Next]_vars =>
        [\A key \in Keys : Turn(key) =>
           /\ \A j \in 1 .. Len(Lines(key)) :
                TilesOf(cells', Lines(key)[j]) = Ruled(TilesOf(cells, Lines(key)[j]))
           /\ pc' = "tile" <=> cells' # cells]_vars
  BY <1>1, Zenon DEF ByTheRules
<1> QED BY <1>2, Invariance, PTL DEF Spec, MovesByTheRules
=============================================================================
