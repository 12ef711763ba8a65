----------------------------- MODULE FishProofs -----------------------------
(***************************************************************************)
(* What is proved of Fish, for any screen, array, pictures and calls: the  *)
(* list of src/fish/blink.S meets the elements in use and no others, the   *)
(* screen shows the phases, and the service implements Blinkers.  All of   *)
(* it as long as nobody asks for a blink at location 0, which marks a free *)
(* element.  And what the program adds are the pictures of its two files.  *)
(***************************************************************************)
EXTENDS Fish, SequenceTheorems, FiniteSetTheorems, WellFoundedInduction, TLAPS

\* The hypothesis of the theorems: no caller asks for location 0.
NobodyAsksForZero == \A b \in Requests \cup {Extra} : b.location # 0

-----------------------------------------------------------------------------
(* Least and greatest *)

(* A set of numbers that is not empty has a least element.                 *)
LEMMA Least ==
    ASSUME NEW T, T \subseteq Nat, T # {}
    PROVE  \E n \in T : \A k \in 0 .. n - 1 : k \notin T
<1> DEFINE R == OpToRel(<, Nat)
<1>1. IsWellFoundedOn(R, Nat)
  BY NatLessThanWellFounded
<1>2. \A x, y \in Nat : x < y => <<x, y>> \in R
  BY DEF OpToRel
<1> HIDE DEF R
<1>3. PICK n \in T : \A y \in T : ~(<<y, n>> \in R)
  BY <1>1, WFMin
<1>4. ASSUME NEW k \in 0 .. n - 1, k \in T PROVE FALSE
  <2>1. k \in Nat /\ n \in Nat /\ k < n
    BY <1>4
  <2> QED BY <2>1, <1>2, <1>3, <1>4
<1> QED BY <1>4

(* Min() returns the least of a set of numbers.                            *)
LEMMA MinFacts ==
    ASSUME NEW T, T \subseteq Nat, T # {}
    PROVE  Min(T) \in T /\ \A k \in T : Min(T) <= k
<1>1. PICK n \in T : \A k \in 0 .. n - 1 : k \notin T
  BY Least
<1>2. \A k \in T : n <= k
  <2> TAKE k \in T
  <2>1. k \in Nat /\ n \in Nat /\ ~(k \in 0 .. n - 1)
    BY <1>1
  <2> QED BY <2>1
<1>3. \E x \in T : \A y \in T : x =< y
  BY <1>2
<1> QED BY <1>3 DEF Min

(* Max() returns the greatest of a set of places.                          *)
LEMMA MaxFacts ==
    ASSUME NEW n \in Nat, NEW T, T \subseteq 0 .. n, T # {}
    PROVE  Max(T) \in T /\ \A k \in T : k <= Max(T)
<1> DEFINE U == {n - k : k \in T}
<1>1. U \subseteq Nat /\ U # {}
  OBVIOUS
<1>2. PICK u \in U : \A k \in 0 .. u - 1 : k \notin U
  BY <1>1, Least
<1>3. PICK m \in T : u = n - m
  OBVIOUS
<1>4. \A k \in T : k <= m
  <2> TAKE k \in T
  <2>1. n - k \in U /\ n - k \in Nat /\ u \in Nat
    BY <1>1
  <2>2. ~(n - k \in 0 .. u - 1)
    BY <1>2, <2>1
  <2>3. k \in 0 .. n /\ m \in 0 .. n
    OBVIOUS
  <2> QED BY <1>3, <2>1, <2>2, <2>3
<1>5. \A k \in T : m >= k
  <2> TAKE k \in T
  <2>1. k \in 0 .. n /\ m \in 0 .. n /\ k <= m
    BY <1>4
  <2> QED BY <2>1
<1>6. \E x \in T : \A y \in T : x >= y
  BY <1>5
<1>7. Max(T) \in T /\ \A y \in T : Max(T) >= y
  BY <1>6 DEF Max
<1>8. ASSUME NEW k \in T PROVE k <= Max(T)
  <2>1. k \in 0 .. n /\ Max(T) \in 0 .. n /\ Max(T) >= k
    BY <1>7
  <2> QED BY <2>1
<1> QED BY <1>7, <1>8

(* Induction over the numbers, for a set rather than a predicate.          *)
LEMMA SetInduction ==
    ASSUME NEW T, 0 \in T, \A n \in Nat : n \in T => n + 1 \in T
    PROVE  Nat \subseteq T
<1> SUFFICES ASSUME Nat \ T # {} PROVE FALSE
  OBVIOUS
<1>1. PICK n \in Nat \ T : \A k \in 0 .. n - 1 : k \notin Nat \ T
  BY Least
<1>2. n # 0 /\ n \in Nat
  OBVIOUS
<1>3. n - 1 \in Nat /\ n - 1 \in 0 .. n - 1
  BY <1>2
<1>4. n - 1 \in T
  BY <1>1, <1>3
<1>5. (n - 1) + 1 \in T
  BY <1>3, <1>4
<1>6. (n - 1) + 1 = n
  BY <1>2
<1> QED BY <1>5, <1>6

-----------------------------------------------------------------------------
(* Sequences *)

(* A function on 1 .. n with values in S is a sequence.                    *)
LEMMA Sequence ==
    ASSUME NEW S, NEW n \in Nat, NEW f, f \in [1 .. n -> S]
    PROVE  f \in Seq(S) /\ Len(f) = n /\ DOMAIN f = 1 .. n
BY SeqDef, LenProperties

(* What is in a sequence.                                                  *)
LEMMA Elements ==
    ASSUME NEW S, NEW s \in Seq(S)
    PROVE  /\ Len(s) \in Nat /\ DOMAIN s = 1 .. Len(s) /\ \A i \in 1 .. Len(s) : s[i] \in S
           /\ s = <<>> <=> Len(s) = 0
BY EmptySeq, LenProperties

(* What is behind a new first element.                                     *)
LEMMA Pushed ==
    ASSUME NEW S, NEW t \in Seq(S), NEW x \in S
    PROVE  <<x>> \o t = [k \in 1 .. Len(t) + 1 |-> IF k = 1 THEN x ELSE t[k - 1]]
<1> DEFINE f == [k \in 1 .. Len(t) + 1 |-> IF k = 1 THEN x ELSE t[k - 1]]
<1>1. Len(t) \in Nat /\ \A k \in 1 .. Len(t) : t[k] \in S
  OBVIOUS
<1>2. PICK n \in Nat : n = Len(t)
  BY <1>1
<1>3. f \in [1 .. n + 1 -> S]
  <2>1. \A k \in 1 .. n + 1 : k # 1 => k - 1 \in 1 .. n
    OBVIOUS
  <2> QED BY <1>1, <1>2, <2>1
<1>4. f \in Seq(S) /\ Len(f) = n + 1
  <2> HIDE DEF f
  <2> QED BY <1>2, <1>3, Sequence
<1>5. /\ <<x>> \o t \in Seq(S) /\ Len(<<x>> \o t) = 1 + n
      /\ \A k \in 1 .. 1 + n : (<<x>> \o t)[k] = IF k = 1 THEN x ELSE t[k - 1]
  BY <1>1, <1>2
<1>6. \A k \in 1 .. n + 1 : (<<x>> \o t)[k] = f[k]
  BY <1>2, <1>5
<1> HIDE DEF f
<1>7. <<x>> \o t = f
  BY <1>4, <1>5, <1>6, SeqEqual
<1> QED BY <1>7 DEF f

(* What is left when one place is taken out.                               *)
LEMMA Dropped ==
    ASSUME NEW S, NEW t \in Seq(S), NEW i \in 1 .. Len(t)
    PROVE  Promised!RemoveAt(t, i) = [k \in 1 .. Len(t) - 1 |-> IF k < i THEN t[k] ELSE t[k + 1]]
<1> DEFINE f == [k \in 1 .. Len(t) - 1 |-> IF k < i THEN t[k] ELSE t[k + 1]]
           front == SubSeq(t, 1, i - 1)
           back == SubSeq(t, i + 1, Len(t))
<1>1. Len(t) \in Nat /\ \A k \in 1 .. Len(t) : t[k] \in S
  OBVIOUS
<1>2. PICK n \in Nat : n = Len(t)
  BY <1>1
<1>3. i \in 1 .. n /\ n - 1 \in Nat
  BY <1>2
<1>4. f \in [1 .. n - 1 -> S]
  <2>1. \A k \in 1 .. n - 1 : k \in 1 .. n /\ k + 1 \in 1 .. n
    BY <1>3
  <2> QED BY <1>1, <1>2, <2>1
<1>5. f \in Seq(S) /\ Len(f) = n - 1
  <2> HIDE DEF f
  <2> QED BY <1>3, <1>4, Sequence
<1>6. front \in Seq(S) /\ Len(front) = i - 1 /\ \A k \in 1 .. i - 1 : front[k] = t[k]
  BY <1>1, <1>2, <1>3
<1>7. back \in Seq(S) /\ Len(back) = n - i /\ \A k \in 1 .. n - i : back[k] = t[i + k]
  BY <1>1, <1>2, <1>3
<1>8. Promised!RemoveAt(t, i) = front \o back
  BY DEF Promised!RemoveAt
<1> HIDE DEF front, back
<1>9. /\ front \o back \in Seq(S) /\ Len(front \o back) = n - 1
      /\ \A k \in 1 .. n - 1 : (front \o back)[k] = IF k <= i - 1 THEN front[k] ELSE back[k - (i - 1)]
  <2>1. (i - 1) + (n - i) = n - 1
    BY <1>3
  <2>2. front \in Seq(S) /\ back \in Seq(S)
    BY <1>6, <1>7
  <2>3. /\ front \o back \in Seq(S) /\ Len(front \o back) = Len(front) + Len(back)
        /\ \A k \in 1 .. Len(front) + Len(back) :
              (front \o back)[k] = IF k <= Len(front) THEN front[k] ELSE back[k - Len(front)]
    BY <2>2, ConcatProperties
  <2>4. Len(front) + Len(back) = n - 1 /\ Len(front) = i - 1
    BY <1>6, <1>7, <2>1
  <2> QED BY <2>3, <2>4
<1>10. ASSUME NEW k \in 1 .. n - 1 PROVE (front \o back)[k] = f[k]
  <2>1. CASE k < i
    BY <2>1, <1>2, <1>3, <1>6, <1>9
  <2>2. CASE ~(k < i)
    <3>1. k - (i - 1) \in 1 .. n - i /\ i + (k - (i - 1)) = k + 1
      BY <2>2, <1>3
    <3>2. (front \o back)[k] = back[k - (i - 1)]
      BY <2>2, <1>3, <1>9
    <3> QED BY <2>2, <3>1, <3>2, <1>2, <1>7
  <2> QED BY <2>1, <2>2
<1> HIDE DEF f
<1>11. front \o back = f
  BY <1>5, <1>9, <1>10, SeqEqual
<1> QED BY <1>8, <1>11 DEF f

-----------------------------------------------------------------------------
(* The walk along the list, with array and head as parameters *)

FollowIn(arr) == [p \in 0 .. Slots |-> IF p = NULL THEN NULL ELSE arr[p].next]
AtIn(arr, head) ==
    CHOOSE at : at = [k \in 0 .. Slots |-> IF k = 0 THEN head ELSE FollowIn(arr)[at[k - 1]]]
ListIn(arr, head) ==
    LET walk == [k \in 1 .. Slots |-> AtIn(arr, head)[k - 1]]
    IN  SubSeq(walk, 1, Cardinality({k \in 1 .. Slots : walk[k] # NULL}))

(* They are those of Blink, before a step ...                              *)
LEMMA ListedIs ==
    Listed = ListIn(blink_array, mp1_list_head) /\ At = AtIn(blink_array, mp1_list_head)
BY DEF Listed, ListIn, At, AtIn, Follow, FollowIn

(* ... and after it.                                                       *)
LEMMA ListedIsNext ==
    Listed' = ListIn(blink_array', mp1_list_head') /\ At' = AtIn(blink_array', mp1_list_head')
BY DEF Listed, ListIn, At, AtIn, Follow, FollowIn

(* There is such a walk: the recursion of At is well-founded.              *)
LEMMA AtUnfolds ==
    ASSUME NEW arr, NEW head
    PROVE  AtIn(arr, head) =
             [k \in 0 .. Slots |-> IF k = 0 THEN head ELSE FollowIn(arr)[AtIn(arr, head)[k - 1]]]
<1> DEFINE g == FollowIn(arr)
           Rec(w, m) == w = [k \in 0 .. m |-> IF k = 0 THEN head ELSE g[w[k - 1]]]
           T == {m \in Nat : \E w : Rec(w, m)}
<1> HIDE DEF g
<1>1. 0 \in T
  <2> DEFINE w == [k \in 0 .. 0 |-> head]
  <2>1. Rec(w, 0)
    OBVIOUS
  <2> QED BY <2>1
<1>2. ASSUME NEW m \in Nat, m \in T PROVE m + 1 \in T
  <2>1. PICK w : Rec(w, m)
    BY <1>2
  <2> DEFINE v == [k \in 0 .. m + 1 |-> IF k <= m THEN w[k] ELSE g[w[k - 1]]]
             r == [k \in 0 .. m + 1 |-> IF k = 0 THEN head ELSE g[v[k - 1]]]
  <2>2. \A k \in 0 .. m + 1 : k # 0 => k - 1 \in 0 .. m /\ k - 1 <= m /\ k - 1 \in 0 .. m + 1
    OBVIOUS
  <2>3. \A k \in 0 .. m + 1 : k # 0 => v[k - 1] = w[k - 1]
    BY <2>2
  <2>4. ASSUME NEW k \in 0 .. m + 1 PROVE v[k] = r[k]
    <3>1. CASE k <= m
      <4>1. k \in 0 .. m
        BY <3>1
      <4>2. v[k] = w[k]
        BY <3>1
      <4>3. w[k] = IF k = 0 THEN head ELSE g[w[k - 1]]
        BY <2>1, <4>1
      <4>4. r[k] = IF k = 0 THEN head ELSE g[w[k - 1]]
        BY <2>3
      <4> QED BY <4>2, <4>3, <4>4
    <3>2. CASE ~(k <= m)
      <4>1. k # 0
        BY <3>2
      <4>2. v[k] = g[w[k - 1]]
        BY <3>2
      <4>3. r[k] = g[w[k - 1]]
        BY <4>1, <2>3
      <4> QED BY <4>2, <4>3
    <3> QED BY <3>1, <3>2
  <2>5. v = r
    <3>1. v = [k \in 0 .. m + 1 |-> v[k]] /\ r = [k \in 0 .. m + 1 |-> r[k]]
      OBVIOUS
    <3> HIDE DEF v, r
    <3> QED BY <3>1, <2>4
  <2>6. Rec(v, m + 1)
    BY <2>5
  <2>7. \E u : Rec(u, m + 1)
    <3> HIDE DEF v, r, Rec
    <3> QED BY <2>6
  <2> HIDE DEF v, r, Rec
  <2> QED BY <2>7
<1>3. Slots \in T
  <2> HIDE DEF T
  <2>1. Nat \subseteq T
    BY <1>1, <1>2, SetInduction
  <2> QED BY <2>1, SlotsAssumption
<1>4. \E w : Rec(w, Slots)
  BY <1>3
<1> QED BY <1>4 DEF AtIn, g

(* One step of the walk.                                                   *)
LEMMA AtStep ==
    ASSUME NEW arr, NEW head, NEW k \in 0 .. Slots
    PROVE  /\ k = 0 => AtIn(arr, head)[k] = head
           /\ k # 0 => AtIn(arr, head)[k] = FollowIn(arr)[AtIn(arr, head)[k - 1]]
<1> DEFINE w == AtIn(arr, head)
           g == FollowIn(arr)
<1>1. w = [j \in 0 .. Slots |-> IF j = 0 THEN head ELSE g[w[j - 1]]]
  BY AtUnfolds
<1> HIDE DEF w, g
<1>2. w[k] = IF k = 0 THEN head ELSE g[w[k - 1]]
  BY <1>1, Zenon
<1> QED BY <1>2 DEF w, g

-----------------------------------------------------------------------------
(* The list s is what the pointers from head make of the elements in use.  *)
Linked(arr, head, s) ==
    /\ s \in Seq(1 .. Slots)
    /\ \A i, j \in 1 .. Len(s) : s[i] = s[j] => i = j
    /\ head = IF s = <<>> THEN NULL ELSE s[1]
    /\ \A i \in 1 .. Len(s) : arr[s[i]].next = IF i = Len(s) THEN NULL ELSE s[i + 1]

InUse(arr, s) == \A e \in 1 .. Slots : arr[e].location # 0 <=> \E i \in 1 .. Len(s) : s[i] = e

(* A list of different elements is no longer than there are elements.      *)
LEMMA NoLongerThanSlots ==
    ASSUME NEW s \in Seq(1 .. Slots), \A i, j \in 1 .. Len(s) : s[i] = s[j] => i = j
    PROVE  Len(s) <= Slots
<1>1. Len(s) \in Nat /\ \A i \in 1 .. Len(s) : s[i] \in 1 .. Slots
  BY Elements
<1> DEFINE f == [i \in 1 .. Len(s) |-> s[i]]
<1>2. f \in Injection(1 .. Len(s), 1 .. Slots)
  BY <1>1 DEF Injection, IsInjective
<1>3. IsFiniteSet(1 .. Slots) /\ Cardinality(1 .. Slots) = Slots
  <2>1. Slots \in Nat /\ Slots > 0
    BY SlotsAssumption
  <2>2. IsFiniteSet(1 .. Slots)
        /\ Cardinality(1 .. Slots) = IF 1 > Slots THEN 0 ELSE Slots - 1 + 1
    BY <2>1, FS_Interval
  <2> QED BY <2>1, <2>2
<1>4. Cardinality(1 .. Len(s)) = Len(s)
  <2>1. Cardinality(1 .. Len(s)) = IF 1 > Len(s) THEN 0 ELSE Len(s) - 1 + 1
    BY <1>1, FS_Interval
  <2> QED BY <1>1, <2>1
<1>5. Cardinality(1 .. Len(s)) <= Cardinality(1 .. Slots)
  <2> HIDE DEF f
  <2> QED BY <1>2, <1>3, FS_Injection
<1> QED BY <1>3, <1>4, <1>5

(* The walk goes along the list and stays at its end.                      *)
LEMMA WalkAlong ==
    ASSUME NEW arr, NEW head, NEW s, Linked(arr, head, s)
    PROVE  \A k \in 0 .. Slots : AtIn(arr, head)[k] = IF k < Len(s) THEN s[k + 1] ELSE NULL
<1> DEFINE w == AtIn(arr, head)
           Is(k) == w[k] = IF k < Len(s) THEN s[k + 1] ELSE NULL
           T == {k \in Nat : k \in 0 .. Slots => Is(k)}
<1>1. s \in Seq(1 .. Slots) /\ Len(s) \in Nat /\ \A i \in 1 .. Len(s) : s[i] \in 1 .. Slots
  BY Elements DEF Linked
<1>2. Slots \in Nat
  BY SlotsAssumption
<1>3. 0 \in T
  <2>1. w[0] = head
    BY AtStep, <1>2
  <2>2. head = IF s = <<>> THEN NULL ELSE s[1]
    BY DEF Linked
  <2>3. s = <<>> <=> ~(0 < Len(s))
    BY <1>1
  <2> HIDE DEF w
  <2> QED BY <2>1, <2>2, <2>3
<1>4. ASSUME NEW k \in Nat, k \in T PROVE k + 1 \in T
  <2> SUFFICES ASSUME k + 1 \in 0 .. Slots PROVE Is(k + 1)
    OBVIOUS
  <2>1. k \in 0 .. Slots /\ k + 1 # 0 /\ (k + 1) - 1 = k
    BY <1>2
  <2>2. w[k + 1] = FollowIn(arr)[w[k]]
    BY <2>1, AtStep
  <2>3. w[k] = IF k < Len(s) THEN s[k + 1] ELSE NULL
    BY <1>4, <2>1
  <2> HIDE DEF w
  <2>4. CASE k < Len(s)
    <3>1. k + 1 \in 1 .. Len(s) /\ s[k + 1] \in 1 .. Slots
      BY <1>1, <2>4
    <3>2. w[k + 1] = arr[s[k + 1]].next
      BY <2>2, <2>3, <2>4, <3>1, <1>2 DEF FollowIn, NULL
    <3>3. arr[s[k + 1]].next = IF k + 1 = Len(s) THEN NULL ELSE s[(k + 1) + 1]
      BY <3>1 DEF Linked
    <3>4. k + 1 = Len(s) <=> ~(k + 1 < Len(s))
      BY <1>1, <2>4
    <3> QED BY <3>2, <3>3, <3>4
  <2>5. CASE ~(k < Len(s))
    <3>1. w[k + 1] = NULL
      BY <2>2, <2>3, <2>5, <1>2 DEF FollowIn, NULL
    <3>2. ~(k + 1 < Len(s))
      BY <1>1, <2>5
    <3> QED BY <3>1, <3>2
  <2> QED BY <2>4, <2>5
<1>5. Nat \subseteq T
  <2> HIDE DEF T
  <2> QED BY <1>3, <1>4, SetInduction
<1> QED BY <1>5

(* So what Blink calls the list is s, and the walk comes to its end.       *)
LEMMA LinkedIsListed ==
    ASSUME NEW arr, NEW head, NEW s, Linked(arr, head, s)
    PROVE  ListIn(arr, head) = s /\ AtIn(arr, head)[Slots] = NULL
<1> DEFINE w == AtIn(arr, head)
           walk == [k \in 1 .. Slots |-> w[k - 1]]
           U == {k \in 1 .. Slots : walk[k] # NULL}
<1> HIDE DEF w, walk, U
<1>1. s \in Seq(1 .. Slots) /\ \A i \in 1 .. Len(s) : s[i] \in 1 .. Slots
  <2>1. s \in Seq(1 .. Slots)
    BY DEF Linked
  <2> QED BY <2>1, Elements
<1>2. PICK n \in Nat : n = Len(s)
  BY <1>1
<1>3. Slots \in Nat /\ n <= Slots
  BY <1>1, <1>2, NoLongerThanSlots, SlotsAssumption DEF Linked
<1>4. \A k \in 0 .. Slots : w[k] = IF k < n THEN s[k + 1] ELSE NULL
  BY <1>2, WalkAlong DEF w
<1>5. \A k \in 1 .. Slots : walk[k] = IF k <= n THEN s[k] ELSE NULL
  <2> TAKE k \in 1 .. Slots
  <2>1. k - 1 \in 0 .. Slots /\ (k - 1) + 1 = k /\ (k - 1 < n <=> k <= n)
    BY <1>3
  <2> QED BY <1>4, <2>1 DEF walk
<1>6. U = 1 .. n
  <2>1. \A k \in 1 .. n : k \in 1 .. Slots /\ k <= n /\ s[k] # NULL
    BY <1>1, <1>2, <1>3 DEF NULL
  <2> QED BY <1>5, <2>1, <1>3 DEF U
<1>7. Cardinality(U) = n
  <2>1. Cardinality(1 .. n) = IF 1 > n THEN 0 ELSE n - 1 + 1
    BY FS_Interval
  <2> QED BY <2>1, <1>6
<1>8. walk \in Seq(0 .. Slots) /\ Len(walk) = Slots
  <2>1. walk \in [1 .. Slots -> 0 .. Slots]
    <3>1. \A k \in 1 .. Slots : walk[k] \in 0 .. Slots
      <4> TAKE k \in 1 .. Slots
      <4>1. walk[k] = IF k <= n THEN s[k] ELSE NULL
        BY <1>5
      <4>2. CASE k <= n
        <5>1. k \in 1 .. Len(s)
          BY <1>2, <4>2
        <5>2. s[k] \in 1 .. Slots
          BY <1>1, <5>1
        <5> QED BY <4>1, <4>2, <5>2, <1>3
      <4>3. CASE ~(k <= n)
        BY <4>1, <4>3, <1>3 DEF NULL
      <4> QED BY <4>2, <4>3
    <3>2. walk = [k \in 1 .. Slots |-> walk[k]]
      BY DEF walk
    <3> QED BY <3>1, <3>2
  <2> QED BY <2>1, <1>3, Sequence
<1>9. SubSeq(walk, 1, n) = s
  <2>1. /\ SubSeq(walk, 1, n) \in Seq(0 .. Slots) /\ Len(SubSeq(walk, 1, n)) = n
        /\ \A k \in 1 .. n : SubSeq(walk, 1, n)[k] = walk[k]
    BY <1>3, <1>8
  <2>2. \A k \in 1 .. n : walk[k] = s[k]
    BY <1>3, <1>5
  <2>3. s \in Seq(0 .. Slots)
    <3>1. s \in [1 .. n -> 0 .. Slots]
      BY <1>1, <1>2
    <3> QED BY <3>1, Sequence
  <2> QED BY <2>1, <2>2, <2>3, <1>2, SeqEqual
<1>10. w[Slots] = NULL
  BY <1>3, <1>4
<1>11. ListIn(arr, head) = SubSeq(walk, 1, Cardinality(U))
  BY DEF ListIn, U, walk, w
<1> QED BY <1>7, <1>9, <1>10, <1>11 DEF w

-----------------------------------------------------------------------------
(* How the list changes *)

(* Nothing that matters to the list changes.                               *)
LEMMA KeepLinked ==
    ASSUME NEW arr, NEW head, NEW s, Linked(arr, head, s), InUse(arr, s), NEW arr2,
           \A e \in 1 .. Slots : arr2[e].next = arr[e].next /\ arr2[e].location = arr[e].location
    PROVE  Linked(arr2, head, s) /\ InUse(arr2, s)
<1>1. s \in Seq(1 .. Slots)
  BY DEF Linked
<1>2. \A i \in 1 .. Len(s) : s[i] \in 1 .. Slots
  BY <1>1, Elements
<1>3. \A i \in 1 .. Len(s) : arr2[s[i]].next = arr[s[i]].next
  BY <1>2
<1>4. Linked(arr2, head, s)
  BY <1>3 DEF Linked
<1>5. InUse(arr2, s)
  BY DEF InUse
<1> QED BY <1>4, <1>5

(* A free element is put in front of the list.                             *)
LEMMA PushLinked ==
    ASSUME NEW arr, NEW head, NEW s, Linked(arr, head, s), InUse(arr, s),
           NEW e \in 1 .. Slots, arr[e].location = 0,
           NEW arr2, \A f \in 1 .. Slots : f # e => arr2[f] = arr[f],
           arr2[e].location # 0, arr2[e].next = head
    PROVE  /\ Linked(arr2, e, <<e>> \o s) /\ InUse(arr2, <<e>> \o s)
           /\ \A i \in 1 .. Len(s) : s[i] # e
<1> DEFINE s2 == <<e>> \o s
<1>1. s \in Seq(1 .. Slots)
  BY DEF Linked
<1>2. PICK n \in Nat : n = Len(s)
  BY <1>1, Elements
<1>3. \A i \in 1 .. n : s[i] \in 1 .. Slots /\ s[i] # e
  <2>1. \A i \in 1 .. n : s[i] \in 1 .. Slots
    BY <1>1, <1>2, Elements
  <2>2. ~ \E i \in 1 .. n : s[i] = e
    BY <1>2 DEF InUse
  <2> QED BY <2>1, <2>2
<1>4. s2 = [k \in 1 .. n + 1 |-> IF k = 1 THEN e ELSE s[k - 1]]
  BY <1>1, <1>2, Pushed
<1>5. /\ arr2[e].location # 0 /\ arr2[e].next = head
      /\ \A f \in 1 .. Slots : f # e => arr2[f] = arr[f]
  OBVIOUS
<1> HIDE DEF s2
<1>6. \A k \in 1 .. n + 1 : k # 1 => k - 1 \in 1 .. n
  OBVIOUS
<1>7. s2 \in Seq(1 .. Slots) /\ Len(s2) = n + 1
  <2>1. s2 \in [1 .. n + 1 -> 1 .. Slots]
    BY <1>3, <1>4, <1>6
  <2>2. n + 1 \in Nat
    OBVIOUS
  <2> QED BY <2>1, <2>2, Sequence
<1>8. \A i, j \in 1 .. n : s[i] = s[j] => i = j
  BY <1>2 DEF Linked
<1>9. \A k \in 1 .. n + 1 : s2[k] = IF k = 1 THEN e ELSE s[k - 1]
  BY <1>4
<1>10. \A i, j \in 1 .. n + 1 : s2[i] = s2[j] => i = j
  <2> SUFFICES ASSUME NEW i \in 1 .. n + 1, NEW j \in 1 .. n + 1, s2[i] = s2[j] PROVE i = j
    OBVIOUS
  <2>1. CASE i = 1 \/ j = 1
    BY <2>1, <1>3, <1>6, <1>9
  <2>2. CASE i # 1 /\ j # 1
    <3>1. s[i - 1] = s[j - 1] /\ i - 1 \in 1 .. n /\ j - 1 \in 1 .. n
      BY <2>2, <1>6, <1>9
    <3>2. i - 1 = j - 1
      BY <3>1, <1>8
    <3> QED BY <3>2
  <2> QED BY <2>1, <2>2
<1>11. s2 # <<>> /\ s2[1] = e
  BY <1>7, <1>9, Elements
<1>12. ASSUME NEW k \in 1 .. n + 1
       PROVE  arr2[s2[k]].next = IF k = n + 1 THEN NULL ELSE s2[k + 1]
  <2>1. head = IF n = 0 THEN NULL ELSE s[1]
    BY <1>1, <1>2, Elements DEF Linked
  <2>2. CASE k = 1 /\ n = 0
    BY <2>1, <2>2, <1>5, <1>9
  <2>3. CASE k = 1 /\ n # 0
    <3>1. k + 1 \in 1 .. n + 1 /\ k + 1 # 1 /\ (k + 1) - 1 = 1 /\ k # n + 1
      BY <2>3
    <3>2. s2[k + 1] = s[1]
      BY <1>9, <3>1
    <3> QED BY <2>1, <2>3, <3>1, <3>2, <1>5, <1>9
  <2>4. CASE k # 1
    <3>1. k - 1 \in 1 .. n /\ s2[k] = s[k - 1]
      BY <2>4, <1>6, <1>9
    <3>2. arr2[s2[k]].next = arr[s[k - 1]].next
      BY <3>1, <1>3, <1>5
    <3>3. arr[s[k - 1]].next = IF k - 1 = n THEN NULL ELSE s[(k - 1) + 1]
      BY <3>1, <1>2 DEF Linked
    <3>4. k - 1 = n <=> k = n + 1
      OBVIOUS
    <3>5. k # n + 1 => s2[k + 1] = s[(k - 1) + 1]
      <4> SUFFICES ASSUME k # n + 1 PROVE s2[k + 1] = s[(k - 1) + 1]
        OBVIOUS
      <4>1. k + 1 \in 1 .. n + 1 /\ k + 1 # 1 /\ (k + 1) - 1 = (k - 1) + 1
        OBVIOUS
      <4> QED BY <4>1, <1>9
    <3> QED BY <3>2, <3>3, <3>4, <3>5
  <2> QED BY <2>2, <2>3, <2>4
<1>13. Linked(arr2, e, s2)
  BY <1>7, <1>10, <1>11, <1>12 DEF Linked
<1>14. ASSUME NEW f \in 1 .. Slots
       PROVE  arr2[f].location # 0 <=> \E k \in 1 .. n + 1 : s2[k] = f
  <2>1. CASE f = e
    <3>1. 1 \in 1 .. n + 1
      OBVIOUS
    <3> QED BY <2>1, <3>1, <1>5, <1>9
  <2>2. CASE f # e
    <3>1. arr[f].location # 0 <=> \E i \in 1 .. n : s[i] = f
      BY <1>2 DEF InUse
    <3>2. ASSUME NEW i \in 1 .. n, s[i] = f PROVE \E k \in 1 .. n + 1 : s2[k] = f
      <4>1. i + 1 \in 1 .. n + 1 /\ i + 1 # 1 /\ (i + 1) - 1 = i
        OBVIOUS
      <4> QED BY <3>2, <4>1, <1>9
    <3>3. ASSUME NEW k \in 1 .. n + 1, s2[k] = f PROVE \E i \in 1 .. n : s[i] = f
      BY <3>3, <2>2, <1>6, <1>9
    <3> QED BY <2>2, <3>1, <3>2, <3>3, <1>5
  <2> QED BY <2>1, <2>2
<1>15. InUse(arr2, s2)
  BY <1>7, <1>14 DEF InUse
<1> QED BY <1>2, <1>3, <1>13, <1>15 DEF s2

\* The list without its i-th element.
Without(s, i) == [k \in 1 .. Len(s) - 1 |-> IF k < i THEN s[k] ELSE s[k + 1]]

(* An element is taken out of the list and freed.                          *)
LEMMA DropLinked ==
    ASSUME NEW arr, NEW head, NEW s, Linked(arr, head, s), InUse(arr, s),
           NEW i \in 1 .. Len(s), NEW arr2, NEW head2,
           head2 = IF i = 1 THEN arr[s[1]].next ELSE head,
           arr2[s[i]].location = 0,
           \A e \in 1 .. Slots : e # s[i] => arr2[e].location = arr[e].location,
           \A j \in 1 .. Len(s) : j # i =>
             arr2[s[j]].next = IF j + 1 = i THEN arr[s[i]].next ELSE arr[s[j]].next
    PROVE  Linked(arr2, head2, Without(s, i)) /\ InUse(arr2, Without(s, i))
<1> DEFINE s2 == Without(s, i)
           From(k) == IF k < i THEN k ELSE k + 1
<1>1. s \in Seq(1 .. Slots)
  BY DEF Linked
<1>2. PICK n \in Nat : n = Len(s)
  BY <1>1, Elements
<1>3. i \in 1 .. n /\ n - 1 \in Nat /\ \A j \in 1 .. n : s[j] \in 1 .. Slots
  <2>1. i \in 1 .. n /\ n - 1 \in Nat
    BY <1>2
  <2>2. \A j \in 1 .. n : s[j] \in 1 .. Slots
    BY <1>1, <1>2, Elements
  <2> QED BY <2>1, <2>2
<1>4. /\ \A k \in 1 .. n - 1 : From(k) \in 1 .. n /\ From(k) # i
      /\ \A k, m \in 1 .. n - 1 : From(k) = From(m) => k = m
      /\ \A j \in 1 .. n : j # i => \E k \in 1 .. n - 1 : From(k) = j
  <2>1. ASSUME NEW j \in 1 .. n, j # i PROVE \E k \in 1 .. n - 1 : From(k) = j
    <3>1. CASE j < i
      <4>1. j \in 1 .. n - 1 /\ From(j) = j
        BY <3>1, <1>3
      <4> QED BY <4>1
    <3>2. CASE ~(j < i)
      <4>1. j - 1 \in 1 .. n - 1 /\ From(j - 1) = j
        BY <3>2, <2>1, <1>3
      <4> QED BY <4>1
    <3> QED BY <3>1, <3>2
  <2> QED BY <2>1, <1>3
<1>5. s2 = [k \in 1 .. n - 1 |-> s[From(k)]]
  BY <1>2 DEF Without
<1> HIDE DEF s2
<1>6. \A k \in 1 .. n - 1 : s2[k] = s[From(k)]
  BY <1>5
<1>7. s2 \in Seq(1 .. Slots) /\ Len(s2) = n - 1
  <2>1. s2 \in [1 .. n - 1 -> 1 .. Slots]
    <3> HIDE DEF From
    <3> QED BY <1>3, <1>4, <1>5
  <2> QED BY <2>1, <1>3, Sequence
<1>8. \A j, m \in 1 .. n : s[j] = s[m] => j = m
  BY <1>2 DEF Linked
<1>9. \A k, m \in 1 .. n - 1 : s2[k] = s2[m] => k = m
  <2> HIDE DEF From
  <2> QED BY <1>4, <1>6, <1>8
<1>10. \A j \in 1 .. n : arr[s[j]].next = IF j = n THEN NULL ELSE s[j + 1]
  BY <1>2 DEF Linked
<1>11. \A j \in 1 .. n : j # i =>
         arr2[s[j]].next = IF j + 1 = i THEN arr[s[i]].next ELSE arr[s[j]].next
  BY <1>2
<1>12. head2 = IF s2 = <<>> THEN NULL ELSE s2[1]
  <2>1. s2 = <<>> <=> n = 1
    <3>1. s2 = <<>> <=> n - 1 = 0
      BY <1>7, Elements
    <3> QED BY <3>1
  <2>2. 1 \in 1 .. n
    BY <1>3
  <2>3. n # 1 => 1 \in 1 .. n - 1 /\ s2[1] = s[From(1)]
    BY <1>3, <1>6
  <2>4. CASE i = 1
    <3>1. head2 = IF 1 = n THEN NULL ELSE s[1 + 1]
      BY <2>2, <2>4, <1>10
    <3>2. From(1) = 1 + 1
      BY <2>4
    <3> QED BY <2>1, <2>3, <3>1, <3>2
  <2>5. CASE i # 1
    <3>1. n # 1 /\ From(1) = 1
      BY <2>5, <1>3
    <3>2. s # <<>> /\ head2 = s[1]
      BY <2>5, <3>1, <1>1, <1>2, <1>3, Elements DEF Linked
    <3> QED BY <2>1, <2>3, <3>1, <3>2
  <2> QED BY <2>4, <2>5
<1>13. ASSUME NEW k \in 1 .. n - 1
       PROVE  arr2[s2[k]].next = IF k = n - 1 THEN NULL ELSE s2[k + 1]
  <2>1. From(k) \in 1 .. n /\ From(k) # i /\ s2[k] = s[From(k)]
    BY <1>4, <1>6
  <2>2. arr2[s2[k]].next = IF From(k) + 1 = i THEN arr[s[i]].next ELSE arr[s[From(k)]].next
    BY <2>1, <1>11
  <2>3. k # n - 1 => k + 1 \in 1 .. n - 1 /\ s2[k + 1] = s[From(k + 1)]
    BY <1>3, <1>6
  <2>4. CASE From(k) + 1 = i
    <3>1. i = k + 1 /\ (i = n <=> k = n - 1) /\ From(k + 1) = i + 1
      BY <2>4, <1>3
    <3>2. arr[s[i]].next = IF i = n THEN NULL ELSE s[i + 1]
      BY <1>10, <1>3
    <3> QED BY <2>2, <2>3, <2>4, <3>1, <3>2
  <2>5. CASE From(k) + 1 # i
    <3>1. /\ From(k) = n <=> k = n - 1
          /\ From(k + 1) = From(k) + 1
      <4>1. CASE k < i
        <5>1. From(k) = k /\ k + 1 # i /\ k + 1 \in Nat
          BY <4>1, <2>5
        <5>2. k + 1 < i /\ i \in 1 .. n
          BY <4>1, <5>1, <1>3
        <5>3. From(k + 1) = k + 1 /\ k # n /\ k # n - 1
          BY <5>2
        <5> QED BY <5>1, <5>3
      <4>2. CASE ~(k < i)
        <5>1. From(k) = k + 1 /\ ~(k + 1 < i)
          BY <4>2, <1>3
        <5>2. From(k + 1) = k + 1 + 1 /\ (k + 1 = n <=> k = n - 1)
          BY <5>1
        <5> QED BY <5>1, <5>2
      <4> QED BY <4>1, <4>2
    <3>2. arr[s[From(k)]].next = IF From(k) = n THEN NULL ELSE s[From(k) + 1]
      BY <2>1, <1>10
    <3> QED BY <2>2, <2>3, <2>5, <3>1, <3>2
  <2> QED BY <2>4, <2>5
<1>14. Linked(arr2, head2, s2)
  BY <1>7, <1>9, <1>12, <1>13 DEF Linked
<1>15. ASSUME NEW e \in 1 .. Slots
       PROVE  arr2[e].location # 0 <=> \E k \in 1 .. n - 1 : s2[k] = e
  <2> HIDE DEF From
  <2>1. arr[e].location # 0 <=> \E j \in 1 .. n : s[j] = e
    BY <1>2 DEF InUse
  <2>2. CASE e = s[i]
    <3>1. ASSUME NEW k \in 1 .. n - 1, s2[k] = e PROVE FALSE
      BY <3>1, <2>2, <1>3, <1>4, <1>6, <1>8
    <3> QED BY <2>2, <3>1
  <2>3. CASE e # s[i]
    <3>1. ASSUME NEW j \in 1 .. n, s[j] = e PROVE \E k \in 1 .. n - 1 : s2[k] = e
      <4>1. PICK k \in 1 .. n - 1 : From(k) = j
        BY <3>1, <2>3, <1>4
      <4> QED BY <4>1, <3>1, <1>6
    <3>2. ASSUME NEW k \in 1 .. n - 1, s2[k] = e PROVE \E j \in 1 .. n : s[j] = e
      BY <3>2, <1>4, <1>6
    <3> QED BY <2>1, <2>3, <3>1, <3>2
  <2> QED BY <2>2, <2>3
<1>16. InUse(arr2, s2)
  BY <1>7, <1>15 DEF InUse
<1> QED BY <1>14, <1>16 DEF s2

-----------------------------------------------------------------------------
(* The service *)

IsElement(b) ==
    /\ b = [location |-> b.location, on_char |-> b.on_char, off_char |-> b.off_char,
            on_length |-> b.on_length, off_length |-> b.off_length,
            countdown |-> b.countdown, status |-> b.status, next |-> b.next]
    /\ b.location \in 0 .. Cells - 1
    /\ {b.on_length, b.off_length, b.countdown} \subseteq 0 .. Word - 1
    /\ b.status \in {0, 1} /\ b.next \in 0 .. Slots

IsArray(arr) ==
    /\ arr = [e \in 1 .. Slots |-> arr[e]]
    /\ \A e \in 1 .. Slots : IsElement(arr[e])

Used(arr) == {e \in 1 .. Slots : arr[e].location # 0}

\* ShowsPhase, of the elements in use.
Shows(arr, vm, sm) ==
    \A e \in Used(arr) :
        (/\ \A f \in Used(arr) \ {e} : arr[f].location # arr[e].location
         /\ arr[e].location \notin sm)
        => vm[arr[e].location] = IF arr[e].status = 1 THEN arr[e].on_char ELSE arr[e].off_char

\* The inductive invariant of the service: the pointers make a list of the
\* elements in use, each once, and the screen shows what it should.
BlinkInv ==
    /\ IsArray(blink_array)
    /\ Linked(blink_array, mp1_list_head, Listed)
    /\ InUse(blink_array, Listed)
    /\ Ends
    /\ vmem = [l \in 0 .. Cells - 1 |-> vmem[l]]
    /\ Shows(blink_array, vmem, smudged)

\* The blinks of a list.
Views(arr, s) == [k \in 1 .. Len(s) |-> View(arr[s[k]])]

LEMMA BlinksAre ==
    ASSUME NEW s, s \in Seq(1 .. Slots), Listed = s
    PROVE  Blinks = Views(blink_array, s)
<1>1. DOMAIN s = 1 .. Len(s)
  BY Elements
<1> QED BY <1>1 DEF Blinks, Views

LEMMA BlinksAreNext ==
    ASSUME NEW s, s \in Seq(1 .. Slots), Listed' = s
    PROVE  Blinks' = Views(blink_array', s)
<1>1. DOMAIN s = 1 .. Len(s)
  BY Elements
<1> QED BY <1>1 DEF Blinks, Views, View

(* The list after a step is what the pointers then make.                   *)
LEMMA NewList ==
    ASSUME NEW s, Linked(blink_array', mp1_list_head', s)
    PROVE  Listed' = s /\ Ends'
<1>1. ListIn(blink_array', mp1_list_head') = s /\ AtIn(blink_array', mp1_list_head')[Slots] = NULL
  BY LinkedIsListed
<1> QED BY <1>1, ListedIsNext DEF Ends

(* A sequence given as a function, behind a new first element.             *)
LEMMA PushedFunction ==
    ASSUME NEW n \in Nat, NEW t, t = [k \in 1 .. n |-> t[k]], NEW x
    PROVE  Len(t) = n /\ <<x>> \o t = [k \in 1 .. n + 1 |-> IF k = 1 THEN x ELSE t[k - 1]]
<1> DEFINE S == {t[k] : k \in 1 .. n} \cup {x}
<1>1. t \in [1 .. n -> S]
  <2>1. \A k \in 1 .. n : t[k] \in S
    OBVIOUS
  <2> HIDE DEF S
  <2> QED BY <2>1
<1>2. x \in S
  OBVIOUS
<1> HIDE DEF S
<1>3. t \in Seq(S) /\ Len(t) = n
  BY <1>1, Sequence
<1> QED BY <1>2, <1>3, Pushed

(* And without one of its places.                                          *)
LEMMA DroppedFunction ==
    ASSUME NEW n \in Nat, NEW t, t = [k \in 1 .. n |-> t[k]], NEW i \in 1 .. n
    PROVE  Promised!RemoveAt(t, i) = [k \in 1 .. n - 1 |-> IF k < i THEN t[k] ELSE t[k + 1]]
<1> DEFINE S == {t[k] : k \in 1 .. n}
<1>1. t \in [1 .. n -> S]
  <2>1. \A k \in 1 .. n : t[k] \in S
    OBVIOUS
  <2> HIDE DEF S
  <2> QED BY <2>1
<1> HIDE DEF S
<1>2. t \in Seq(S) /\ Len(t) = n
  BY <1>1, Sequence
<1> QED BY <1>2, Dropped

(* A free element is found if there is one.                                *)
LEMMA MallocFacts ==
    \/ mp1_malloc = NULL /\ \A e \in 1 .. Slots : blink_array[e].location # 0
    \/ mp1_malloc \in 1 .. Slots /\ blink_array[mp1_malloc].location = 0 /\ mp1_malloc # NULL
<1> DEFINE free == {e \in 1 .. Slots : blink_array[e].location = 0}
           least == CHOOSE e \in free : \A f \in free : e <= f
<1>1. CASE free = {}
  <2>1. mp1_malloc = NULL
    BY <1>1 DEF mp1_malloc
  <2>2. \A e \in 1 .. Slots : blink_array[e].location # 0
    BY <1>1
  <2> HIDE DEF free
  <2> QED BY <2>1, <2>2
<1>2. CASE free # {}
  <2>1. mp1_malloc = least
    BY <1>2 DEF mp1_malloc
  <2>2. free \subseteq Nat
    OBVIOUS
  <2>3. Min(free) \in free /\ \A k \in free : Min(free) <= k
    <3> HIDE DEF free
    <3> QED BY <1>2, <2>2, MinFacts
  <2>4. \E e \in free : \A f \in free : e <= f
    BY <2>3
  <2>5. mp1_malloc \in free
    <3> HIDE DEF free
    <3> QED BY <2>1, <2>4
  <2> QED BY <2>5 DEF NULL
<1> HIDE DEF free
<1> QED BY <1>1, <1>2

(* The list and the blinks on it.                                          *)
LEMMA BlinkFacts ==
    ASSUME BlinkInv
    PROVE  /\ Listed \in Seq(1 .. Slots) /\ Len(Listed) \in Nat /\ DOMAIN Listed = 1 .. Len(Listed)
           /\ \A i \in 1 .. Len(Listed) :
                /\ Listed[i] \in 1 .. Slots /\ IsElement(blink_array[Listed[i]])
                /\ blink_array[Listed[i]].location \in 0 .. Cells - 1
                /\ Blinks[i] = View(blink_array[Listed[i]])
           /\ \A i, j \in 1 .. Len(Listed) : Listed[i] = Listed[j] => i = j
           /\ Blinks = [k \in 1 .. Len(Listed) |-> View(blink_array[Listed[k]])]
           /\ DOMAIN Blinks = 1 .. Len(Listed)
           /\ \A e \in 1 .. Slots : e \in Used(blink_array) <=> \E i \in 1 .. Len(Listed) : Listed[i] = e
<1> DEFINE s == Listed
<1>1. s \in Seq(1 .. Slots) /\ \A i, j \in 1 .. Len(s) : s[i] = s[j] => i = j
  BY DEF BlinkInv, Linked
<1>2. Len(s) \in Nat /\ DOMAIN s = 1 .. Len(s) /\ \A i \in 1 .. Len(s) : s[i] \in 1 .. Slots
  BY <1>1, Elements
<1>3. Blinks = [k \in 1 .. Len(s) |-> View(blink_array[s[k]])]
  BY <1>1, BlinksAre DEF Views
<1>4. \A i \in 1 .. Len(s) : IsElement(blink_array[s[i]])
  BY <1>2 DEF BlinkInv, IsArray
<1>5. \A i \in 1 .. Len(s) : blink_array[s[i]].location \in 0 .. Cells - 1
  BY <1>4 DEF IsElement
<1>6. InUse(blink_array, s)
  BY DEF BlinkInv
<1> HIDE DEF s
<1>7. \A e \in 1 .. Slots : e \in Used(blink_array) <=> \E i \in 1 .. Len(s) : s[i] = e
  BY <1>6 DEF Used, InUse
<1>8. DOMAIN Blinks = 1 .. Len(s) /\ \A i \in 1 .. Len(s) : Blinks[i] = View(blink_array[s[i]])
  BY <1>3
<1> QED BY <1>1, <1>2, <1>3, <1>4, <1>5, <1>7, <1>8 DEF s

(* Nothing changes.                                                        *)
LEMMA StutterStep ==
    ASSUME BlinkInv, UNCHANGED <<blink_array, mp1_list_head, vmem, smudged>>
    PROVE  BlinkInv' /\ Blinks' = Blinks
<1>1. Listed' = Listed /\ At' = At
  BY ListedIs, ListedIsNext
<1>2. Blinks' = Blinks
  BY <1>1 DEF Blinks, View
<1>3. IsArray(blink_array') /\ InUse(blink_array', Listed')
  BY <1>1 DEF BlinkInv
<1>4. Linked(blink_array', mp1_list_head', Listed')
  BY <1>1 DEF BlinkInv
<1>5. Ends'
  BY <1>1 DEF BlinkInv, Ends
<1>6. Shows(blink_array', vmem', smudged') /\ vmem' = [l \in 0 .. Cells - 1 |-> vmem'[l]]
  BY DEF BlinkInv
<1> QED BY <1>2, <1>3, <1>4, <1>5, <1>6 DEF BlinkInv

(* An addition is refused only when every element is in use.               *)
LEMMA FullWhenRefused ==
    ASSUME BlinkInv, mp1_malloc = NULL
    PROVE  Slots <= Len(Listed)
<1>1. PICK n \in Nat : n = Len(Listed)
  BY BlinkFacts
<1>2. \A e \in 1 .. Slots : \E i \in 1 .. n : Listed[i] = e
  <2>1. \A e \in 1 .. Slots : blink_array[e].location # 0
    BY MallocFacts, Zenon DEF NULL
  <2>2. \A e \in 1 .. Slots : e \in Used(blink_array)
    BY <2>1 DEF Used
  <2> QED BY <1>1, <2>2, BlinkFacts
<1>3. \A i \in 1 .. n : Listed[i] \in 1 .. Slots
  BY <1>1, BlinkFacts
<1> DEFINE f == [i \in 1 .. n |-> Listed[i]]
<1>4. f \in Surjection(1 .. n, 1 .. Slots)
  <2>1. f \in [1 .. n -> 1 .. Slots]
    BY <1>3
  <2>2. \A e \in 1 .. Slots : \E i \in 1 .. n : f[i] = e
    BY <1>2
  <2> HIDE DEF f
  <2> QED BY <2>1, <2>2 DEF Surjection
<1>5. Cardinality(1 .. Slots) <= n
  BY <1>4, FS_SurjCardinalityBound DEF ExistsSurjection
<1>6. Cardinality(1 .. Slots) = Slots
  BY FS_Interval, SlotsAssumption
<1> QED BY <1>1, <1>5, <1>6

(* The blinks are as many as the elements on the list.                     *)
LEMMA LengthOfBlinks ==
    ASSUME BlinkInv
    PROVE  Len(Blinks) = Len(Listed) /\ Len(Listed) \in Nat
<1>1. PICK n \in Nat : n = Len(Listed)
  BY BlinkFacts
<1>2. Blinks = [k \in 1 .. n |-> View(blink_array[Listed[k]])]
  BY <1>1, BlinkFacts
<1> QED BY <1>1, <1>2

(* add                                                                     *)
LEMMA AddStep ==
    ASSUME BlinkInv, NEW b, b.location \in Nat \ {0},
           {b.on_length, b.off_length} \subseteq 0 .. Word - 1, mp1_ioctl_add(b)
    PROVE  BlinkInv' /\ Promised!Add(b)
<1> DEFINE arr == blink_array
           s == Listed
           e == mp1_malloc
           lit == [location |-> b.location, on_char |-> b.on_char, off_char |-> b.off_char,
                   on_length |-> b.on_length, off_length |-> b.off_length,
                   countdown |-> b.on_length, status |-> 1, next |-> mp1_list_head]
<1>0. asked' = <<"add", b>>
  BY DEF mp1_ioctl_add
<1>1. CASE ~(b.location < Cells /\ e # NULL)
  <2>1. UNCHANGED <<blink_array, mp1_list_head, vmem, smudged>> /\ result' = Failed
    BY <1>1 DEF mp1_ioctl_add
  <2>2. BlinkInv' /\ Blinks' = Blinks
    BY <2>1, StutterStep
  <2>3. ~(Len(Blinks) < Slots /\ b.location < Cells)
    <3>1. Len(Blinks) = Len(Listed) /\ Len(Listed) \in Nat
      BY LengthOfBlinks
    <3>2. e = NULL => ~(Len(Listed) < Slots)
      BY <3>1, FullWhenRefused, SlotsAssumption
    <3> HIDE DEF e
    <3> QED BY <1>1, <3>1, <3>2
  <2> QED BY <1>0, <2>1, <2>2, <2>3 DEF Promised!Add, Failed, Promised!Failed
<1>2. CASE b.location < Cells /\ e # NULL
  <2>1. /\ blink_array' = [arr EXCEPT ![e] = lit] /\ mp1_list_head' = e
        /\ vmem' = [vmem EXCEPT ![b.location] = b.on_char]
        /\ smudged' = smudged \ {b.location} /\ result' = Done
    BY <1>2 DEF mp1_ioctl_add, mp1_poke
  <2>2. e \in 1 .. Slots /\ arr[e].location = 0
    BY <1>2, MallocFacts
  <2>3. PICK x : x = lit
    OBVIOUS
  <2>4. lit = x
    BY <2>3
  <2>5. /\ x.location = b.location /\ x.on_char = b.on_char /\ x.off_char = b.off_char
        /\ x.on_length = b.on_length /\ x.off_length = b.off_length
        /\ x.countdown = b.on_length /\ x.status = 1 /\ x.next = mp1_list_head
        /\ x = [location |-> x.location, on_char |-> x.on_char, off_char |-> x.off_char,
                on_length |-> x.on_length, off_length |-> x.off_length,
                countdown |-> x.countdown, status |-> x.status, next |-> x.next]
    BY <2>3
  <2> HIDE DEF e, lit
  <2>6. IsElement(x)
    <3>1. b.location \in 0 .. Cells - 1
      BY <1>2, CellsAssumption
    <3>2. mp1_list_head \in 0 .. Slots
      BY BlinkFacts, SlotsAssumption DEF BlinkInv, Linked, NULL
    <3> QED BY <2>5, <3>1, <3>2 DEF IsElement
  <2>7. /\ arr = [f \in 1 .. Slots |-> arr[f]] /\ \A f \in 1 .. Slots : IsElement(arr[f])
        /\ Linked(arr, mp1_list_head, s) /\ InUse(arr, s)
        /\ vmem = [l \in 0 .. Cells - 1 |-> vmem[l]] /\ Shows(arr, vmem, smudged)
    BY DEF BlinkInv, IsArray
  <2>8. /\ blink_array' = [f \in 1 .. Slots |-> blink_array'[f]]
        /\ blink_array'[e] = x /\ \A f \in 1 .. Slots : f # e => blink_array'[f] = arr[f]
    BY <2>1, <2>2, <2>4, <2>7
  <2>9. /\ Linked(blink_array', mp1_list_head', <<e>> \o s) /\ InUse(blink_array', <<e>> \o s)
        /\ \A i \in 1 .. Len(s) : s[i] # e
    <3>1. /\ arr[e].location = 0 /\ Linked(arr, mp1_list_head, s) /\ InUse(arr, s)
          /\ \A f \in 1 .. Slots : f # e => blink_array'[f] = arr[f]
          /\ blink_array'[e].location # 0 /\ blink_array'[e].next = mp1_list_head
          /\ mp1_list_head' = e
      BY <2>1, <2>2, <2>5, <2>7, <2>8
    <3> QED BY <2>2, <3>1, PushLinked
  <2>10. Listed' = <<e>> \o s /\ Ends'
    BY <2>9, NewList
  <2>11. IsArray(blink_array')
    BY <2>6, <2>7, <2>8 DEF IsArray
  <2>12. /\ vmem' = [l \in 0 .. Cells - 1 |-> vmem'[l]]
         /\ vmem'[b.location] = b.on_char
         /\ \A l \in 0 .. Cells - 1 : l # b.location => vmem'[l] = vmem[l]
    <3>1. b.location \in 0 .. Cells - 1
      BY <1>2, CellsAssumption
    <3> QED BY <2>1, <2>7, <3>1
  <2>13. Shows(blink_array', vmem', smudged')
    <3>1. Used(blink_array') = Used(arr) \cup {e} /\ e \notin Used(arr)
      BY <2>2, <2>5, <2>8 DEF Used
    <3>2. ASSUME NEW f \in Used(blink_array'),
                 \A g \in Used(blink_array') \ {f} : blink_array'[g].location # blink_array'[f].location,
                 blink_array'[f].location \notin smudged'
          PROVE  vmem'[blink_array'[f].location] =
                   IF blink_array'[f].status = 1 THEN blink_array'[f].on_char ELSE blink_array'[f].off_char
      <4>1. CASE f = e
        BY <4>1, <2>5, <2>8, <2>12
      <4>2. CASE f # e
        <5>1. f \in Used(arr) /\ f \in 1 .. Slots /\ blink_array'[f] = arr[f]
          BY <4>2, <3>1, <2>8 DEF Used
        <5>2. arr[f].location # b.location
          BY <4>2, <3>1, <3>2, <5>1, <2>5, <2>8
        <5>3. \A g \in Used(arr) \ {f} : arr[g].location # arr[f].location
          <6> TAKE g \in Used(arr) \ {f}
          <6>1. g \in 1 .. Slots /\ g # e /\ g \in Used(blink_array') \ {f}
            BY <3>1 DEF Used
          <6> QED BY <6>1, <3>2, <5>1, <2>8
        <5>4. arr[f].location \notin smudged
          BY <3>2, <5>1, <5>2, <2>1
        <5>5. vmem[arr[f].location] = IF arr[f].status = 1 THEN arr[f].on_char ELSE arr[f].off_char
          BY <5>1, <5>3, <5>4, <2>7 DEF Shows
        <5>6. arr[f].location \in 0 .. Cells - 1
          BY <5>1, <2>7 DEF IsElement
        <5> QED BY <5>1, <5>2, <5>5, <5>6, <2>12
      <4> QED BY <4>1, <4>2
    <3> QED BY <3>2 DEF Shows
  <2>14. BlinkInv'
    BY <2>9, <2>10, <2>11, <2>12, <2>13 DEF BlinkInv
  <2>15. s \in Seq(1 .. Slots) /\ <<e>> \o s \in Seq(1 .. Slots)
    BY <2>7, <2>9 DEF Linked
  <2>16. PICK n \in Nat : n = Len(s)
    BY <2>15, Elements
  <2>17. /\ <<e>> \o s = [k \in 1 .. n + 1 |-> IF k = 1 THEN e ELSE s[k - 1]]
         /\ Len(<<e>> \o s) = n + 1
    BY <2>2, <2>15, <2>16, Pushed, ConcatProperties
  <2>18. Blinks = Views(arr, s) /\ Blinks' = Views(blink_array', <<e>> \o s)
    BY <2>10, <2>15, BlinksAre, BlinksAreNext
  <2>19. Blinks = [k \in 1 .. n |-> View(arr[s[k]])]
    BY <2>16, <2>18 DEF Views
  <2>20. Blinks = [k \in 1 .. n |-> Blinks[k]]
    BY <2>19
  <2>21. <<Promised!Lit(b)>> \o Blinks =
           [k \in 1 .. n + 1 |-> IF k = 1 THEN Promised!Lit(b) ELSE Blinks[k - 1]] /\ Len(Blinks) = n
    BY <2>20, PushedFunction
  <2>22. Blinks' = [k \in 1 .. n + 1 |-> View(blink_array'[(<<e>> \o s)[k]])]
    BY <2>17, <2>18 DEF Views
  <2>23. ASSUME NEW k \in 1 .. n + 1
         PROVE  View(blink_array'[(<<e>> \o s)[k]]) = IF k = 1 THEN Promised!Lit(b) ELSE Blinks[k - 1]
    <3>1. (<<e>> \o s)[k] = IF k = 1 THEN e ELSE s[k - 1]
      BY <2>17
    <3>2. CASE k = 1
      <4>1. View(x) = Promised!Lit(b)
        BY <2>5 DEF View, Promised!Lit
      <4> QED BY <3>1, <3>2, <4>1, <2>8
    <3>3. CASE k # 1
      <4>1. k - 1 \in 1 .. n
        BY <3>3
      <4>2. s[k - 1] \in 1 .. Slots /\ s[k - 1] # e
        BY <4>1, <2>9, <2>15, <2>16, Elements
      <4>3. blink_array'[s[k - 1]] = arr[s[k - 1]]
        BY <4>2, <2>8
      <4> QED BY <3>1, <3>3, <4>1, <4>3, <2>19
    <3> QED BY <3>2, <3>3
  <2>24. Blinks' = <<Promised!Lit(b)>> \o Blinks
    BY <2>21, <2>22, <2>23
  <2>25. n < Slots
    <3>1. n + 1 <= Slots
      BY <2>9, <2>15, <2>17, NoLongerThanSlots DEF Linked
    <3> QED BY <3>1, SlotsAssumption
  <2>26. Len(Blinks) < Slots
    BY <2>21, <2>25
  <2> QED BY <1>0, <1>2, <2>1, <2>14, <2>24, <2>26 DEF Promised!Add, Done, Promised!Done
<1> QED BY <1>1, <1>2

-----------------------------------------------------------------------------
(* Changes of one element *)

(* Another pointer.                                                        *)
LEMMA NextChanged ==
    ASSUME NEW b, IsElement(b), NEW p \in 0 .. Slots
    PROVE  /\ IsElement([b EXCEPT !.next = p]) /\ View([b EXCEPT !.next = p]) = View(b)
           /\ [b EXCEPT !.next = p].next = p
           /\ [b EXCEPT !.next = p].location = b.location
           /\ [b EXCEPT !.next = p].status = b.status
           /\ [b EXCEPT !.next = p].on_char = b.on_char
           /\ [b EXCEPT !.next = p].off_char = b.off_char
<1> DEFINE x == [location |-> b.location, on_char |-> b.on_char, off_char |-> b.off_char,
                 on_length |-> b.on_length, off_length |-> b.off_length,
                 countdown |-> b.countdown, status |-> b.status, next |-> p]
<1>1. [b EXCEPT !.next = p] = x
  BY DEF IsElement
<1>2. IsElement(x) /\ View(x) = View(b)
  BY DEF IsElement, View
<1> QED BY <1>1, <1>2

\* b is synced with a, as an explicit record.
Synced(b, a) ==
    [location |-> b.location, on_char |-> b.on_char, off_char |-> b.off_char,
     on_length |-> a.on_length, off_length |-> a.off_length,
     countdown |-> a.countdown, status |-> a.status, next |-> b.next]

(* Lengths and phase of another element.                                   *)
LEMMA PhaseChanged ==
    ASSUME NEW b, IsElement(b), NEW a, IsElement(a)
    PROVE  /\ [b EXCEPT !.on_length = a.on_length, !.off_length = a.off_length,
                        !.countdown = a.countdown, !.status = a.status] = Synced(b, a)
           /\ Promised!InStepWith(View(b), View(a)) = View(Synced(b, a))
           /\ IsElement(Synced(b, a))
<1>1. PICK b1 : b1 = [b EXCEPT !.on_length = a.on_length]
  OBVIOUS
<1>2. b1 = [location |-> b.location, on_char |-> b.on_char, off_char |-> b.off_char,
            on_length |-> a.on_length, off_length |-> b.off_length,
            countdown |-> b.countdown, status |-> b.status, next |-> b.next]
  BY <1>1 DEF IsElement
<1>3. PICK b2 : b2 = [b1 EXCEPT !.off_length = a.off_length]
  OBVIOUS
<1>4. b2 = [location |-> b.location, on_char |-> b.on_char, off_char |-> b.off_char,
            on_length |-> a.on_length, off_length |-> a.off_length,
            countdown |-> b.countdown, status |-> b.status, next |-> b.next]
  BY <1>2, <1>3
<1>5. PICK b3 : b3 = [b2 EXCEPT !.countdown = a.countdown]
  OBVIOUS
<1>6. b3 = [location |-> b.location, on_char |-> b.on_char, off_char |-> b.off_char,
            on_length |-> a.on_length, off_length |-> a.off_length,
            countdown |-> a.countdown, status |-> b.status, next |-> b.next]
  BY <1>4, <1>5
<1>7. [b3 EXCEPT !.status = a.status] = Synced(b, a)
  BY <1>6 DEF Synced
<1>8. [b EXCEPT !.on_length = a.on_length, !.off_length = a.off_length,
                !.countdown = a.countdown, !.status = a.status] = Synced(b, a)
  BY <1>1, <1>3, <1>5, <1>7
<1>9. IsElement(Synced(b, a))
  BY DEF IsElement, Synced
<1>10. PICK v : v = View(b)
  OBVIOUS
<1>11. PICK v1 : v1 = [v EXCEPT !.on_length = a.on_length]
  OBVIOUS
<1>12. v1 = [location |-> b.location, on_char |-> b.on_char, off_char |-> b.off_char,
             on_length |-> a.on_length, off_length |-> b.off_length,
             countdown |-> b.countdown, status |-> b.status]
  BY <1>10, <1>11 DEF View
<1>13. PICK v2 : v2 = [v1 EXCEPT !.off_length = a.off_length]
  OBVIOUS
<1>14. v2 = [location |-> b.location, on_char |-> b.on_char, off_char |-> b.off_char,
             on_length |-> a.on_length, off_length |-> a.off_length,
             countdown |-> b.countdown, status |-> b.status]
  BY <1>12, <1>13
<1>15. PICK v3 : v3 = [v2 EXCEPT !.countdown = a.countdown]
  OBVIOUS
<1>16. v3 = [location |-> b.location, on_char |-> b.on_char, off_char |-> b.off_char,
             on_length |-> a.on_length, off_length |-> a.off_length,
             countdown |-> a.countdown, status |-> b.status]
  BY <1>14, <1>15
<1>17. [v3 EXCEPT !.status = a.status] = View(Synced(b, a))
  BY <1>16 DEF Synced, View
<1>18. /\ View(a).on_length = a.on_length /\ View(a).off_length = a.off_length
       /\ View(a).countdown = a.countdown /\ View(a).status = a.status
  BY DEF View
<1>19. Promised!InStepWith(v, View(a)) =
         [v EXCEPT !.on_length = a.on_length, !.off_length = a.off_length,
                   !.countdown = a.countdown, !.status = a.status]
  BY <1>18 DEF Promised!InStepWith
<1>20. Promised!InStepWith(v, View(a)) = View(Synced(b, a))
  BY <1>11, <1>13, <1>15, <1>17, <1>19
<1> QED BY <1>8, <1>9, <1>10, <1>20

(* One tick: the phase goes on, or the other begins.                       *)
LEMMA AgedFacts ==
    ASSUME NEW b, IsElement(b)
    PROVE  /\ IsElement(Aged(b)) /\ View(Aged(b)) = Promised!Aged(View(b))
           /\ Aged(b).location = b.location /\ Aged(b).next = b.next
           /\ Aged(b).on_char = b.on_char /\ Aged(b).off_char = b.off_char
           /\ Aged(b).status = IF GoesOn(CountedDown(b)) THEN b.status ELSE 1 - b.status
<1> DEFINE c == (b.countdown - 1) % Word
           With(d, t) == [location |-> b.location, on_char |-> b.on_char, off_char |-> b.off_char,
                          on_length |-> b.on_length, off_length |-> b.off_length,
                          countdown |-> d, status |-> t, next |-> b.next]
           length == IF b.status = 1 THEN b.off_length ELSE b.on_length
           Seen(d, t) == [location |-> b.location, on_char |-> b.on_char, off_char |-> b.off_char,
                          on_length |-> b.on_length, off_length |-> b.off_length,
                          countdown |-> d, status |-> t]
<1>1. c \in 0 .. Word - 1
  <2>1. b.countdown - 1 \in Int /\ Word \in Nat \ {0}
    BY WordAssumption DEF IsElement
  <2> QED BY <2>1
<1> HIDE DEF c
<1>2. CountedDown(b) = c
  BY DEF CountedDown, c
<1>3. b = With(b.countdown, b.status)
  BY DEF IsElement
<1>4. b.status \in {0, 1} /\ length \in 0 .. Word - 1 /\ b.location \in 0 .. Cells - 1
      /\ b.on_length \in 0 .. Word - 1 /\ b.off_length \in 0 .. Word - 1
  BY DEF IsElement
<1>5. \A d \in 0 .. Word - 1, t \in {0, 1} :
        /\ IsElement(With(d, t)) /\ View(With(d, t)) = Seen(d, t)
        /\ With(d, t).location = b.location /\ With(d, t).next = b.next
        /\ With(d, t).on_char = b.on_char /\ With(d, t).off_char = b.off_char
        /\ With(d, t).status = t
  BY <1>4 DEF IsElement, View
<1>6. View(b) = Seen(b.countdown, b.status)
  BY DEF View
<1>7. CASE GoesOn(c)
  <2>1. Aged(b) = With(c, b.status)
    <3>1. Aged(b) = [b EXCEPT !.countdown = c]
      BY <1>2, <1>7 DEF Aged
    <3> QED BY <3>1, <1>3
  <2>2. Promised!Aged(View(b)) = Seen(c, b.status)
    <3>1. (View(b).countdown - 1) % Word = c
      BY DEF View, c
    <3>2. Promised!Aged(View(b)) = [View(b) EXCEPT !.countdown = c]
      BY <3>1, <1>7 DEF Promised!Aged, Promised!Positive, GoesOn
    <3> QED BY <3>2, <1>6
  <2> HIDE DEF With, Seen, length
  <2> QED BY <2>1, <2>2, <1>1, <1>2, <1>4, <1>5, <1>7
<1>8. CASE ~GoesOn(c)
  <2>1. Aged(b) = With(length, 1 - b.status)
    <3>1. CASE b.status = 1
      <4>1. Aged(b) = [b EXCEPT !.countdown = b.off_length, !.status = 0]
        BY <1>2, <1>8, <3>1 DEF Aged
      <4>2. PICK b1 : b1 = [b EXCEPT !.countdown = b.off_length]
        OBVIOUS
      <4>3. b1 = With(b.off_length, b.status)
        BY <4>2, <1>3
      <4>4. [b1 EXCEPT !.status = 0] = With(b.off_length, 0)
        BY <4>3
      <4> QED BY <4>1, <4>2, <4>4, <3>1
    <3>2. CASE b.status = 0
      <4>1. Aged(b) = [b EXCEPT !.countdown = b.on_length, !.status = 1]
        BY <1>2, <1>8, <3>2 DEF Aged
      <4>2. PICK b1 : b1 = [b EXCEPT !.countdown = b.on_length]
        OBVIOUS
      <4>3. b1 = With(b.on_length, b.status)
        BY <4>2, <1>3
      <4>4. [b1 EXCEPT !.status = 1] = With(b.on_length, 1)
        BY <4>3
      <4> QED BY <4>1, <4>2, <4>4, <3>2
    <3> QED BY <3>1, <3>2, <1>4
  <2>2. Promised!Aged(View(b)) = Seen(length, 1 - b.status)
    <3>1. (View(b).countdown - 1) % Word = c
      BY DEF View, c
    <3>2. /\ View(b).status = b.status /\ View(b).on_length = b.on_length
          /\ View(b).off_length = b.off_length
      BY DEF View
    <3>3. Promised!Aged(View(b)) = [View(b) EXCEPT !.countdown = length, !.status = 1 - b.status]
      BY <3>1, <3>2, <1>8 DEF Promised!Aged, Promised!Positive, GoesOn
    <3>4. PICK v : v = [View(b) EXCEPT !.countdown = length]
      OBVIOUS
    <3>5. v = Seen(length, b.status)
      BY <3>4, <1>6
    <3>6. [v EXCEPT !.status = 1 - b.status] = Seen(length, 1 - b.status)
      BY <3>5
    <3> QED BY <3>3, <3>4, <3>6
  <2>3. 1 - b.status \in {0, 1}
    BY <1>4
  <2> HIDE DEF With, Seen, length
  <2> QED BY <2>1, <2>2, <2>3, <1>2, <1>4, <1>5, <1>8
<1> QED BY <1>7, <1>8

-----------------------------------------------------------------------------
(* The calls *)

(* The list meets the elements in use.                                     *)
LEMMA ListIsUsed ==
    ASSUME BlinkInv
    PROVE  Range(Listed) = Used(blink_array) /\ IsInjective(Listed)
<1>1. PICK s : s = Listed
  OBVIOUS
<1>2. PICK n \in Nat : n = Len(s)
  BY <1>1, BlinkFacts
<1>3. /\ DOMAIN s = 1 .. n /\ \A i \in 1 .. n : s[i] \in 1 .. Slots
      /\ \A i, j \in 1 .. n : s[i] = s[j] => i = j
      /\ \A e \in 1 .. Slots : e \in Used(blink_array) <=> \E i \in 1 .. n : s[i] = e
  BY <1>1, <1>2, BlinkFacts
<1>4. Range(s) = {s[i] : i \in 1 .. n}
  BY <1>3 DEF Range
<1>5. Used(blink_array) \subseteq 1 .. Slots
  BY DEF Used
<1>6. Range(s) = Used(blink_array)
  BY <1>3, <1>4, <1>5
<1>7. IsInjective(s)
  BY <1>3 DEF IsInjective
<1> QED BY <1>1, <1>6, <1>7

\* What the helper finds at l is the k-th of the list, 0 for nothing.
Finds(l, k) ==
    /\ k = 0 => mp1_find_helper(l) = NULL
    /\ k # 0 => /\ k \in 1 .. Len(Listed) /\ mp1_find_helper(l) = Listed[k]
                /\ Listed[k] # NULL /\ blink_array[Listed[k]].location = l

(* It is what the abstract service finds.                                  *)
LEMMA HelperFacts ==
    ASSUME BlinkInv, NEW l
    PROVE  Finds(l, Promised!Newest(l))
<1> DEFINE s == Listed
           here == {k \in 1 .. Len(s) : blink_array[s[k]].location = l}
<1>1. /\ DOMAIN s = 1 .. Len(s) /\ DOMAIN Blinks = 1 .. Len(s) /\ Len(s) \in Nat
      /\ \A k \in 1 .. Len(s) : s[k] \in 1 .. Slots /\ Blinks[k].location = blink_array[s[k]].location
  <2>1. \A k \in 1 .. Len(s) : Blinks[k].location = blink_array[s[k]].location
    <3>1. \A k \in 1 .. Len(s) : Blinks[k] = View(blink_array[s[k]])
      BY BlinkFacts
    <3>2. \A k \in 1 .. Len(s) : View(blink_array[s[k]]).location = blink_array[s[k]].location
      BY DEF View
    <3> HIDE DEF s
    <3> QED BY <3>1, <3>2
  <2> QED BY <2>1, BlinkFacts
<1>2. PlacesAt(l, s) = here
  BY <1>1 DEF PlacesAt
<1>3. {k \in DOMAIN Blinks : Blinks[k].location = l} = here
  BY <1>1
<1>4. Promised!Newest(l) = IF here = {} THEN 0 ELSE Promised!Min(here)
  BY <1>3 DEF Promised!Newest
<1>5. mp1_find_helper(l) = IF here = {} THEN NULL ELSE s[Min(here)]
  BY <1>2 DEF mp1_find_helper
<1>6. Promised!Min(here) = Min(here)
  BY DEF Promised!Min, Min
<1>7. here \subseteq Nat
  BY <1>1
<1>8. here # {} => Min(here) \in here
  <2> HIDE DEF here
  <2> QED BY <1>7, MinFacts
<1>9. CASE here = {}
  <2>1. Promised!Newest(l) = 0 /\ mp1_find_helper(l) = NULL
    BY <1>4, <1>5, <1>9
  <2> QED BY <2>1 DEF Finds
<1>10. CASE here # {}
  <2>1. PICK k \in here : k = Min(here)
    BY <1>8, <1>10
  <2>2. Promised!Newest(l) = k /\ mp1_find_helper(l) = s[k]
    BY <1>4, <1>5, <1>6, <1>10, <2>1
  <2>3. k \in 1 .. Len(s) /\ k # 0 /\ s[k] # NULL /\ blink_array[s[k]].location = l
    BY <1>1 DEF NULL
  <2> QED BY <2>2, <2>3 DEF Finds
<1> QED BY <1>9, <1>10

(* find                                                                    *)
LEMMA FindStep ==
    ASSUME BlinkInv, NEW l, mp1_ioctl_find(l)
    PROVE  BlinkInv' /\ Promised!Find(l)
<1> DEFINE k == Promised!Newest(l)
<1>1. UNCHANGED <<blink_array, mp1_list_head, vmem, smudged>>
  BY DEF mp1_ioctl_find
<1>2. BlinkInv' /\ Blinks' = Blinks
  BY <1>1, StutterStep
<1>3. Finds(l, k)
  BY HelperFacts
<1>4. k # 0 => Blinks[k] = View(blink_array[Listed[k]])
  <2> HIDE DEF k
  <2> QED BY <1>3, BlinkFacts DEF Finds
<1>5. result' = IF mp1_find_helper(l) # NULL THEN Copied(View(blink_array[mp1_find_helper(l)])) ELSE Failed
  BY DEF mp1_ioctl_find
<1>6. result' = IF k # 0 THEN Promised!Copied(Blinks[k]) ELSE Promised!Failed
  <2> HIDE DEF k
  <2> QED BY <1>3, <1>4, <1>5 DEF Finds, Copied, Failed, Promised!Copied, Promised!Failed
<1>7. asked' = <<"find", l>>
  BY DEF mp1_ioctl_find
<1> QED BY <1>2, <1>6, <1>7 DEF Promised!Find

(* remove                                                                  *)
LEMMA RemoveStep ==
    ASSUME BlinkInv, NEW l, mp1_ioctl_remove(l)
    PROVE  BlinkInv' /\ Promised!RemoveBlink(l)
<1> DEFINE arr == blink_array
           s == Listed
<1>1. PICK k : k = Promised!Newest(l)
  OBVIOUS
<1>2. Finds(l, k) /\ asked' = <<"remove", l>>
  BY <1>1, HelperFacts DEF mp1_ioctl_remove
<1>3. CASE k = 0
  <2>1. mp1_find_helper(l) = NULL
    BY <1>2, <1>3 DEF Finds
  <2>2. UNCHANGED <<blink_array, mp1_list_head, vmem, smudged>> /\ result' = Failed
    BY <2>1 DEF mp1_ioctl_remove
  <2>3. BlinkInv' /\ Blinks' = Blinks
    BY <2>2, StutterStep
  <2> QED BY <1>1, <1>2, <1>3, <2>2, <2>3 DEF Promised!RemoveBlink, Failed, Promised!Failed
<1>4. CASE k # 0
  <2>1. PICK e : e = s[k]
    OBVIOUS
  <2>2. /\ k \in 1 .. Len(s) /\ mp1_find_helper(l) = e /\ e # NULL
        /\ arr[e].location = l
    BY <1>2, <1>4, <2>1 DEF Finds
  <2> DEFINE before == {f \in Range(Listed) : blink_array[f].next = e}
  <2>3. /\ mp1_list_head' = IF mp1_list_head = e THEN arr[e].next ELSE mp1_list_head
        /\ blink_array' = [f \in 1 .. Slots |->
                       IF f = e THEN Free
                       ELSE IF f \in before /\ mp1_list_head # e
                       THEN [arr[f] EXCEPT !.next = arr[e].next]
                       ELSE arr[f]]
        /\ smudged' = smudged \cup {l} /\ result' = Done /\ vmem' = vmem
    BY <2>2 DEF mp1_ioctl_remove
  <2>4. PICK n \in Nat : n = Len(s)
    BY BlinkFacts
  <2>5. /\ s \in Seq(1 .. Slots) /\ k \in 1 .. n /\ DOMAIN s = 1 .. n
        /\ \A i \in 1 .. n : s[i] \in 1 .. Slots
        /\ \A i, j \in 1 .. n : s[i] = s[j] => i = j
    BY <2>2, <2>4, BlinkFacts
  <2>6. /\ Linked(arr, mp1_list_head, s) /\ InUse(arr, s) /\ Shows(arr, vmem, smudged)
        /\ vmem = [m \in 0 .. Cells - 1 |-> vmem[m]] /\ \A f \in 1 .. Slots : IsElement(arr[f])
    BY DEF BlinkInv, IsArray
  <2>7. e \in 1 .. Slots
    BY <2>1, <2>5
  <2>8. mp1_list_head = s[1] /\ (mp1_list_head = e <=> k = 1)
    <3>1. 1 \in 1 .. n /\ n # 0
      BY <2>5
    <3>2. s # <<>>
      BY <2>4, <2>5, <3>1, Elements
    <3>3. mp1_list_head = s[1]
      BY <2>6, <3>2 DEF Linked
    <3> QED BY <3>1, <3>3, <2>1, <2>5
  <2>9. /\ blink_array' = [f \in 1 .. Slots |-> blink_array'[f]]
        /\ blink_array'[e] = Free
        /\ \A f \in 1 .. Slots : f # e =>
             blink_array'[f] = IF f \in before /\ mp1_list_head # e
                               THEN [arr[f] EXCEPT !.next = arr[e].next] ELSE arr[f]
    BY <2>3, <2>7
  <2>10. \A j \in 1 .. n : arr[s[j]].next = IF j = n THEN NULL ELSE s[j + 1]
    BY <2>4, <2>6 DEF Linked
  <2>11. \A j \in 1 .. n : s[j] \in before <=> j + 1 = k
    <3> TAKE j \in 1 .. n
    <3>1. s[j] \in Range(s)
      BY <2>5 DEF Range
    <3>2. s[j] \in before <=> arr[s[j]].next = e
      BY <3>1
    <3>3. CASE j = n
      <4>1. arr[s[j]].next = NULL
        BY <3>3, <2>10
      <4>2. j + 1 # k
        BY <3>3, <2>5
      <4> QED BY <3>2, <4>1, <4>2, <2>2
    <3>4. CASE j # n
      <4>1. j + 1 \in 1 .. n /\ arr[s[j]].next = s[j + 1]
        BY <3>4, <2>10
      <4>2. s[j + 1] = e <=> j + 1 = k
        BY <4>1, <2>1, <2>5
      <4> QED BY <3>2, <4>1, <4>2
    <3> QED BY <3>3, <3>4
  <2> HIDE DEF before
  <2>12. \A f \in 1 .. Slots : f # e =>
           /\ IsElement(blink_array'[f]) /\ View(blink_array'[f]) = View(arr[f])
           /\ blink_array'[f].location = arr[f].location /\ blink_array'[f].status = arr[f].status
           /\ blink_array'[f].on_char = arr[f].on_char /\ blink_array'[f].off_char = arr[f].off_char
    <3> SUFFICES ASSUME NEW f \in 1 .. Slots, f # e
                 PROVE  /\ IsElement(blink_array'[f]) /\ View(blink_array'[f]) = View(arr[f])
                        /\ blink_array'[f].location = arr[f].location
                        /\ blink_array'[f].status = arr[f].status
                        /\ blink_array'[f].on_char = arr[f].on_char
                        /\ blink_array'[f].off_char = arr[f].off_char
      OBVIOUS
    <3>1. IsElement(arr[f])
      BY <2>6
    <3>2. CASE f \in before /\ mp1_list_head # e
      <4>1. blink_array'[f] = [arr[f] EXCEPT !.next = arr[e].next]
        BY <2>9, <3>2
      <4>2. arr[e].next \in 0 .. Slots
        BY <2>6, <2>7 DEF IsElement
      <4> QED BY <3>1, <4>1, <4>2, NextChanged
    <3>3. CASE ~(f \in before /\ mp1_list_head # e)
      BY <2>9, <3>1, <3>3
    <3> QED BY <3>2, <3>3
  <2>13. blink_array'[e].location = 0 /\ IsElement(blink_array'[e])
    BY <2>9, CellsAssumption, WordAssumption, SlotsAssumption DEF Free, IsElement, NULL
  <2>14. \A j \in 1 .. n : j # k =>
           blink_array'[s[j]].next = IF j + 1 = k THEN arr[s[k]].next ELSE arr[s[j]].next
    <3> SUFFICES ASSUME NEW j \in 1 .. n, j # k
                 PROVE  blink_array'[s[j]].next = IF j + 1 = k THEN arr[s[k]].next ELSE arr[s[j]].next
      OBVIOUS
    <3>1. s[j] \in 1 .. Slots /\ s[j] # e
      BY <2>1, <2>5
    <3>2. CASE j + 1 = k
      <4>1. s[j] \in before /\ mp1_list_head # e
        BY <3>2, <2>8, <2>11
      <4>2. blink_array'[s[j]] = [arr[s[j]] EXCEPT !.next = arr[e].next]
        BY <3>1, <4>1, <2>9
      <4>3. IsElement(arr[s[j]])
        BY <3>1, <2>6
      <4>4. blink_array'[s[j]].next = arr[e].next
        <5>1. arr[e].next \in 0 .. Slots
          BY <2>6, <2>7 DEF IsElement
        <5> QED BY <4>2, <4>3, <5>1, NextChanged
      <4> QED BY <3>2, <4>4, <2>1
    <3>3. CASE j + 1 # k
      <4>1. s[j] \notin before
        BY <3>3, <2>11
      <4> QED BY <3>1, <3>3, <4>1, <2>9
    <3> QED BY <3>2, <3>3
  <2>15. Linked(blink_array', mp1_list_head', Without(s, k)) /\ InUse(blink_array', Without(s, k))
    <3>1. mp1_list_head' = IF k = 1 THEN arr[s[1]].next ELSE mp1_list_head
      BY <2>1, <2>3, <2>8
    <3>2. blink_array'[s[k]].location = 0
      BY <2>1, <2>13
    <3>3. \A f \in 1 .. Slots : f # s[k] => blink_array'[f].location = arr[f].location
      BY <2>1, <2>12
    <3>4. \A j \in 1 .. Len(s) : j # k =>
            blink_array'[s[j]].next = IF j + 1 = k THEN arr[s[k]].next ELSE arr[s[j]].next
      BY <2>4, <2>14
    <3>5. k \in 1 .. Len(s) /\ Linked(arr, mp1_list_head, s) /\ InUse(arr, s)
      BY <2>2, <2>6
    <3> QED BY <3>1, <3>2, <3>3, <3>4, <3>5, DropLinked
  <2>16. Listed' = Without(s, k) /\ Ends'
    BY <2>15, NewList
  <2>17. Shows(blink_array', vmem', smudged')
    <3>1. Used(blink_array') = Used(arr) \ {e}
      BY <2>7, <2>12, <2>13 DEF Used
    <3>2. ASSUME NEW f \in Used(blink_array'),
                 \A g \in Used(blink_array') \ {f} : blink_array'[g].location # blink_array'[f].location,
                 blink_array'[f].location \notin smudged'
          PROVE  vmem'[blink_array'[f].location] =
                   IF blink_array'[f].status = 1 THEN blink_array'[f].on_char ELSE blink_array'[f].off_char
      <4>1. f \in Used(arr) /\ f \in 1 .. Slots /\ f # e
        BY <3>1 DEF Used
      <4>2. arr[f].location # l /\ arr[f].location \notin smudged
        BY <4>1, <3>2, <2>3, <2>12
      <4>3. \A g \in Used(arr) \ {f} : arr[g].location # arr[f].location
        <5> TAKE g \in Used(arr) \ {f}
        <5>1. CASE g = e
          BY <5>1, <4>2, <2>2
        <5>2. CASE g # e
          <6>1. g \in 1 .. Slots /\ g \in Used(blink_array') \ {f}
            BY <5>2, <3>1 DEF Used
          <6> QED BY <5>2, <6>1, <3>2, <4>1, <2>12
        <5> QED BY <5>1, <5>2
      <4>4. vmem[arr[f].location] = IF arr[f].status = 1 THEN arr[f].on_char ELSE arr[f].off_char
        BY <4>1, <4>2, <4>3, <2>6 DEF Shows
      <4> QED BY <4>1, <4>4, <2>3, <2>12
    <3> QED BY <3>2 DEF Shows
  <2>18. IsArray(blink_array')
    BY <2>9, <2>12, <2>13 DEF IsArray
  <2>19. BlinkInv'
    <3>1. vmem' = [m \in 0 .. Cells - 1 |-> vmem'[m]]
      BY <2>3, <2>6
    <3> QED BY <3>1, <2>15, <2>16, <2>17, <2>18 DEF BlinkInv
  <2>20. Blinks' = Promised!RemoveAt(Blinks, k)
    <3>1. Blinks = [j \in 1 .. n |-> View(arr[s[j]])]
      BY <2>4, BlinkFacts
    <3>2. Blinks = [j \in 1 .. n |-> Blinks[j]]
      BY <3>1
    <3>3. Promised!RemoveAt(Blinks, k) =
            [j \in 1 .. n - 1 |-> IF j < k THEN Blinks[j] ELSE Blinks[j + 1]]
      BY <3>2, <2>5, DroppedFunction
    <3>4. Without(s, k) = [j \in 1 .. n - 1 |-> IF j < k THEN s[j] ELSE s[j + 1]]
      BY <2>4 DEF Without
    <3>5. Without(s, k) \in Seq(1 .. Slots)
      BY <2>15 DEF Linked
    <3>6. Len(Without(s, k)) = n - 1
      <4>1. n - 1 \in Nat /\ Without(s, k) \in [1 .. n - 1 -> 1 .. Slots]
        <5>1. n - 1 \in Nat /\ \A j \in 1 .. n - 1 : j \in 1 .. n /\ j + 1 \in 1 .. n
          BY <2>5
        <5> QED BY <5>1, <3>4, <2>5
      <4> QED BY <4>1, Sequence
    <3>7. Blinks' = [j \in 1 .. n - 1 |-> View(blink_array'[Without(s, k)[j]])]
      BY <2>16, <3>5, <3>6, BlinksAreNext DEF Views
    <3>8. ASSUME NEW j \in 1 .. n - 1
          PROVE  View(blink_array'[Without(s, k)[j]]) = IF j < k THEN Blinks[j] ELSE Blinks[j + 1]
      <4>1. j \in 1 .. n /\ j + 1 \in 1 .. n
        BY <2>5
      <4>2. CASE j < k
        <5>1. Without(s, k)[j] = s[j] /\ s[j] # e /\ s[j] \in 1 .. Slots
          BY <3>4, <4>1, <4>2, <2>1, <2>5
        <5> QED BY <5>1, <4>1, <4>2, <3>1, <2>12
      <4>3. CASE ~(j < k)
        <5>1. Without(s, k)[j] = s[j + 1] /\ s[j + 1] # e /\ s[j + 1] \in 1 .. Slots
          BY <3>4, <4>1, <4>3, <2>1, <2>5
        <5> QED BY <5>1, <4>1, <4>3, <3>1, <2>12
      <4> QED BY <4>2, <4>3
    <3> QED BY <3>3, <3>7, <3>8
  <2> QED BY <1>1, <1>2, <1>4, <2>3, <2>19, <2>20 DEF Promised!RemoveBlink, Done, Promised!Done
<1> QED BY <1>3, <1>4

(* sync                                                                    *)
LEMMA SyncStep ==
    ASSUME BlinkInv, NEW from, NEW to, mp1_ioctl_sync(from, to)
    PROVE  BlinkInv' /\ Promised!Sync(from, to)
<1> DEFINE arr == blink_array
           s == Listed
<1>1. PICK ka, kb : ka = Promised!Newest(from) /\ kb = Promised!Newest(to)
  OBVIOUS
<1>2. Finds(from, ka) /\ Finds(to, kb) /\ asked' = <<"sync", from, to>>
  BY <1>1, HelperFacts DEF mp1_ioctl_sync
<1>3. CASE ka = 0 \/ kb = 0
  <2>1. mp1_find_helper(from) = NULL \/ mp1_find_helper(to) = NULL
    BY <1>2, <1>3 DEF Finds
  <2>2. UNCHANGED <<blink_array, mp1_list_head, vmem, smudged>> /\ result' = Failed
    BY <2>1 DEF mp1_ioctl_sync
  <2>3. BlinkInv' /\ Blinks' = Blinks
    BY <2>2, StutterStep
  <2> QED BY <1>1, <1>2, <1>3, <2>2, <2>3 DEF Promised!Sync, Failed, Promised!Failed
<1>4. CASE ka # 0 /\ kb # 0
  <2>1. PICK a, b : a = s[ka] /\ b = s[kb]
    OBVIOUS
  <2>2. /\ ka \in 1 .. Len(s) /\ mp1_find_helper(from) = a /\ a # NULL
        /\ kb \in 1 .. Len(s) /\ mp1_find_helper(to) = b /\ b # NULL
        /\ arr[b].location = to
    BY <1>2, <1>4, <2>1 DEF Finds
  <2>3. PICK n \in Nat : n = Len(s)
    BY BlinkFacts
  <2>4. /\ s \in Seq(1 .. Slots) /\ ka \in 1 .. n /\ kb \in 1 .. n
        /\ \A i \in 1 .. n : s[i] \in 1 .. Slots
        /\ \A i, j \in 1 .. n : s[i] = s[j] => i = j
    BY <2>2, <2>3, BlinkFacts
  <2>5. /\ Linked(arr, mp1_list_head, s) /\ InUse(arr, s) /\ Shows(arr, vmem, smudged)
        /\ arr = [f \in 1 .. Slots |-> arr[f]]
        /\ vmem = [m \in 0 .. Cells - 1 |-> vmem[m]] /\ \A f \in 1 .. Slots : IsElement(arr[f])
    BY DEF BlinkInv, IsArray
  <2>6. a \in 1 .. Slots /\ b \in 1 .. Slots
    BY <2>1, <2>4
  <2>7. PICK x : x = Synced(arr[b], arr[a])
    OBVIOUS
  <2>8. /\ [arr[b] EXCEPT !.on_length = arr[a].on_length, !.off_length = arr[a].off_length,
                          !.countdown = arr[a].countdown, !.status = arr[a].status] = x
        /\ Promised!InStepWith(View(arr[b]), View(arr[a])) = View(x)
        /\ IsElement(x)
    BY <2>5, <2>6, <2>7, PhaseChanged
  <2>9. /\ x.location = arr[b].location /\ x.next = arr[b].next
        /\ x.on_char = arr[b].on_char /\ x.off_char = arr[b].off_char
    BY <2>7 DEF Synced
  <2>10. /\ blink_array' = [arr EXCEPT ![b] = x]
         /\ vmem' = [vmem EXCEPT ![to] = x.off_char]
         /\ smudged' = IF x.status = 1 THEN smudged \cup {to} ELSE smudged \ {to}
         /\ result' = Done /\ mp1_list_head' = mp1_list_head
    BY <2>2, <2>8 DEF mp1_ioctl_sync, mp1_poke, SyncChar
  <2>11. /\ blink_array' = [f \in 1 .. Slots |-> blink_array'[f]]
         /\ blink_array'[b] = x /\ \A f \in 1 .. Slots : f # b => blink_array'[f] = arr[f]
    BY <2>5, <2>6, <2>10
  <2>12. \A f \in 1 .. Slots :
           blink_array'[f].next = arr[f].next /\ blink_array'[f].location = arr[f].location
    BY <2>9, <2>11
  <2>13. Linked(blink_array', mp1_list_head', s) /\ InUse(blink_array', s)
    BY <2>5, <2>10, <2>12, KeepLinked
  <2>14. Listed' = s /\ Ends'
    BY <2>13, NewList
  <2>15. IsArray(blink_array')
    BY <2>5, <2>8, <2>11 DEF IsArray
  <2>16. to \in 0 .. Cells - 1
    BY <2>2, <2>5, <2>6 DEF IsElement
  <2>17. /\ vmem' = [m \in 0 .. Cells - 1 |-> vmem'[m]]
         /\ vmem'[to] = x.off_char /\ \A m \in 0 .. Cells - 1 : m # to => vmem'[m] = vmem[m]
    BY <2>5, <2>10, <2>16
  <2>18. Shows(blink_array', vmem', smudged')
    <3>1. Used(blink_array') = Used(arr)
      BY <2>12 DEF Used
    <3>2. ASSUME NEW f \in Used(blink_array'),
                 \A g \in Used(blink_array') \ {f} : blink_array'[g].location # blink_array'[f].location,
                 blink_array'[f].location \notin smudged'
          PROVE  vmem'[blink_array'[f].location] =
                   IF blink_array'[f].status = 1 THEN blink_array'[f].on_char ELSE blink_array'[f].off_char
      <4>1. f \in Used(arr) /\ f \in 1 .. Slots
        BY <3>1 DEF Used
      <4>2. CASE f = b
        <5>1. x.status # 1
          BY <4>2, <3>2, <2>2, <2>9, <2>10, <2>11
        <5> QED BY <4>2, <5>1, <2>2, <2>9, <2>11, <2>17
      <4>3. CASE f # b
        <5>1. blink_array'[f] = arr[f]
          BY <4>1, <4>3, <2>11
        <5>2. arr[f].location # to
          <6>1. b \in Used(arr)
            <7>1. arr[f].location \in Nat /\ arr[b].location \in Nat
              BY <4>1, <2>5, <2>6 DEF IsElement
            <7>2. \E i \in 1 .. Len(s) : s[i] = b
              BY <2>1, <2>2
            <7> QED BY <7>2, <2>6, BlinkFacts
          <6>2. blink_array'[b].location # blink_array'[f].location
            BY <6>1, <3>1, <3>2, <4>3
          <6> QED BY <6>2, <5>1, <2>2, <2>6, <2>12
        <5>3. arr[f].location \notin smudged
          BY <3>2, <5>1, <5>2, <2>10
        <5>4. \A g \in Used(arr) \ {f} : arr[g].location # arr[f].location
          <6> TAKE g \in Used(arr) \ {f}
          <6>1. g \in 1 .. Slots /\ g \in Used(blink_array') \ {f}
            BY <3>1 DEF Used
          <6> QED BY <6>1, <3>2, <5>1, <2>12
        <5>5. vmem[arr[f].location] = IF arr[f].status = 1 THEN arr[f].on_char ELSE arr[f].off_char
          BY <4>1, <5>3, <5>4, <2>5 DEF Shows
        <5>6. arr[f].location \in 0 .. Cells - 1
          BY <4>1, <2>5 DEF IsElement
        <5> QED BY <5>1, <5>2, <5>5, <5>6, <2>17
      <4> QED BY <4>2, <4>3
    <3> QED BY <3>2 DEF Shows
  <2>19. BlinkInv'
    BY <2>13, <2>14, <2>15, <2>17, <2>18 DEF BlinkInv
  <2>20. Blinks' = [Blinks EXCEPT ![kb] = Promised!InStepWith(@, Blinks[ka])]
    <3>1. Blinks = [j \in 1 .. n |-> View(arr[s[j]])]
      BY <2>3, BlinkFacts
    <3>2. Blinks' = [j \in 1 .. n |-> View(blink_array'[s[j]])]
      BY <2>3, <2>4, <2>14, BlinksAreNext DEF Views
    <3>3. Blinks[kb] = View(arr[b]) /\ Blinks[ka] = View(arr[a])
      BY <2>1, <2>4, <3>1
    <3>4. PICK v : v = Promised!InStepWith(View(arr[b]), View(arr[a]))
      OBVIOUS
    <3>5. v = View(x)
      BY <2>8, <3>4
    <3>6. \A j \in 1 .. n : View(blink_array'[s[j]]) = IF j = kb THEN v ELSE View(arr[s[j]])
      <4> TAKE j \in 1 .. n
      <4>1. CASE j = kb
        BY <4>1, <3>5, <2>1, <2>11
      <4>2. CASE j # kb
        <5>1. s[j] \in 1 .. Slots /\ s[j] # b
          BY <4>2, <2>1, <2>4
        <5> QED BY <4>2, <5>1, <2>11
      <4> QED BY <4>1, <4>2
    <3>7. [Blinks EXCEPT ![kb] = v] = [j \in 1 .. n |-> IF j = kb THEN v ELSE View(arr[s[j]])]
      BY <3>1, <2>4
    <3>8. Blinks' = [Blinks EXCEPT ![kb] = v]
      BY <3>2, <3>6, <3>7
    <3> QED BY <3>3, <3>4, <3>8
  <2> QED BY <1>1, <1>2, <1>4, <2>10, <2>19, <2>20 DEF Promised!Sync, Done, Promised!Done
<1> QED BY <1>3, <1>4

(* The tick                                                                *)
LEMMA TickStep ==
    ASSUME BlinkInv, mp1_rtc_tasklet
    PROVE  BlinkInv' /\ Promised!Tick
<1> DEFINE arr == blink_array
           s == Listed
           writers(l) == {k \in PlacesAt(l, s) : ~GoesOn(CountedDown(arr[s[k]]))}
<1>1. /\ blink_array' = [e \in 1 .. Slots |-> IF e \in Range(s) THEN Aged(arr[e]) ELSE arr[e]]
      /\ vmem' = [l \in DOMAIN vmem |->
                    IF writers(l) = {} THEN vmem[l] ELSE Poked(arr[s[Max(writers(l))]])]
      /\ smudged' = {l \in smudged : writers(l) = {}}
      /\ result' = Done /\ asked' = <<>> /\ mp1_list_head' = mp1_list_head
  BY DEF mp1_rtc_tasklet
<1>2. PICK n \in Nat : n = Len(s)
  BY BlinkFacts
<1>3. /\ s \in Seq(1 .. Slots) /\ DOMAIN s = 1 .. n
      /\ \A i \in 1 .. n : s[i] \in 1 .. Slots
      /\ \A i, j \in 1 .. n : s[i] = s[j] => i = j
      /\ \A e \in 1 .. Slots : e \in Used(arr) <=> \E i \in 1 .. n : s[i] = e
  BY <1>2, BlinkFacts
<1>4. /\ Linked(arr, mp1_list_head, s) /\ InUse(arr, s) /\ Shows(arr, vmem, smudged)
      /\ vmem = [m \in 0 .. Cells - 1 |-> vmem[m]] /\ \A f \in 1 .. Slots : IsElement(arr[f])
  BY DEF BlinkInv, IsArray
<1>5. \A e \in 1 .. Slots : e \in Range(s) <=> e \in Used(arr)
  BY <1>3 DEF Range
<1>6. /\ blink_array' = [e \in 1 .. Slots |-> blink_array'[e]]
      /\ \A e \in 1 .. Slots : blink_array'[e] = IF e \in Used(arr) THEN Aged(arr[e]) ELSE arr[e]
  BY <1>1, <1>5
<1>7. \A e \in 1 .. Slots :
        /\ IsElement(blink_array'[e])
        /\ blink_array'[e].next = arr[e].next /\ blink_array'[e].location = arr[e].location
        /\ blink_array'[e].on_char = arr[e].on_char /\ blink_array'[e].off_char = arr[e].off_char
  <2> TAKE e \in 1 .. Slots
  <2>1. IsElement(arr[e])
    BY <1>4
  <2> QED BY <2>1, <1>6, AgedFacts
<1>8. Linked(blink_array', mp1_list_head', s) /\ InUse(blink_array', s)
  BY <1>1, <1>4, <1>7, KeepLinked
<1>9. Listed' = s /\ Ends'
  BY <1>8, NewList
<1>10. IsArray(blink_array')
  BY <1>6, <1>7 DEF IsArray
<1>11. /\ vmem' = [m \in 0 .. Cells - 1 |-> vmem'[m]]
       /\ \A m \in 0 .. Cells - 1 :
            vmem'[m] = IF writers(m) = {} THEN vmem[m] ELSE Poked(arr[s[Max(writers(m))]])
  BY <1>1, <1>4
<1>12. Shows(blink_array', vmem', smudged')
  <2>1. Used(blink_array') = Used(arr)
    BY <1>7 DEF Used
  <2>2. ASSUME NEW f \in Used(blink_array'),
               \A g \in Used(blink_array') \ {f} : blink_array'[g].location # blink_array'[f].location,
               blink_array'[f].location \notin smudged'
        PROVE  vmem'[blink_array'[f].location] =
                 IF blink_array'[f].status = 1 THEN blink_array'[f].on_char ELSE blink_array'[f].off_char
    <3>1. f \in Used(arr) /\ f \in 1 .. Slots
      BY <2>1 DEF Used
    <3>2. PICK i \in 1 .. n : s[i] = f
      BY <3>1, <1>3
    <3>3. PICK l : l = arr[f].location
      OBVIOUS
    <3>4. l \in 0 .. Cells - 1
      BY <3>1, <3>3, <1>4 DEF IsElement
    <3>5. \A g \in Used(arr) \ {f} : arr[g].location # l
      <4> TAKE g \in Used(arr) \ {f}
      <4>1. g \in 1 .. Slots /\ g \in Used(blink_array') \ {f}
        BY <2>1 DEF Used
      <4> QED BY <4>1, <2>2, <3>1, <3>3, <1>7
    <3>6. PlacesAt(l, s) = {i}
      <4>1. ASSUME NEW k \in 1 .. n, arr[s[k]].location = l PROVE k = i
        <5>1. s[k] \in Used(arr) /\ s[k] \in 1 .. Slots
          BY <1>3
        <5>2. s[k] = f
          BY <4>1, <5>1, <3>5
        <5> QED BY <5>2, <3>2, <1>3
      <4>2. arr[s[i]].location = l
        BY <3>2, <3>3
      <4> QED BY <4>1, <4>2, <1>3 DEF PlacesAt
    <3>7. /\ blink_array'[f] = Aged(arr[f]) /\ blink_array'[f].location = l
          /\ blink_array'[f].on_char = arr[f].on_char /\ blink_array'[f].off_char = arr[f].off_char
      BY <3>1, <3>3, <1>6, <1>7
    <3>8. /\ IsElement(arr[f]) /\ arr[f].status \in {0, 1}
          /\ blink_array'[f].status =
               IF GoesOn(CountedDown(arr[f])) THEN arr[f].status ELSE 1 - arr[f].status
      <4>1. IsElement(arr[f])
        BY <3>1, <1>4
      <4>2. arr[f].status \in {0, 1}
        BY <4>1 DEF IsElement
      <4>3. Aged(arr[f]).status =
               IF GoesOn(CountedDown(arr[f])) THEN arr[f].status ELSE 1 - arr[f].status
        BY <4>1, AgedFacts
      <4> QED BY <4>1, <4>2, <4>3, <3>7
    <3>9. CASE GoesOn(CountedDown(arr[f]))
      <4>1. writers(l) = {}
        BY <3>6, <3>9, <3>2
      <4>2. l \notin smudged
        BY <4>1, <2>2, <3>7, <1>1
      <4>3. vmem[l] = IF arr[f].status = 1 THEN arr[f].on_char ELSE arr[f].off_char
        BY <3>1, <3>3, <3>5, <4>2, <1>4 DEF Shows
      <4>4. vmem'[l] = vmem[l]
        BY <3>4, <4>1, <1>11
      <4> QED BY <3>7, <3>8, <3>9, <4>3, <4>4
    <3>10. CASE ~GoesOn(CountedDown(arr[f]))
      <4>1. writers(l) = {i}
        BY <3>6, <3>10, <3>2
      <4>2. Max({i}) = i
        <5>1. {i} \subseteq 0 .. n /\ {i} # {}
          OBVIOUS
        <5>2. Max({i}) \in {i}
          BY <5>1, MaxFacts
        <5> QED BY <5>2
      <4>3. vmem'[l] = Poked(arr[f])
        <5>1. writers(l) # {} /\ Max(writers(l)) = i
          BY <4>1, <4>2
        <5> HIDE DEF writers
        <5> QED BY <5>1, <3>2, <3>4, <1>11
      <4> QED BY <3>7, <3>8, <3>10, <4>3 DEF Poked
    <3> QED BY <3>9, <3>10
  <2> QED BY <2>2 DEF Shows
<1>13. BlinkInv'
  BY <1>8, <1>9, <1>10, <1>11, <1>12 DEF BlinkInv
<1>14. Blinks' = [k \in DOMAIN Blinks |-> Promised!Aged(Blinks[k])]
  <2>1. Blinks = [j \in 1 .. n |-> View(arr[s[j]])]
    BY <1>2, BlinkFacts
  <2>2. Blinks' = [j \in 1 .. n |-> View(blink_array'[s[j]])]
    BY <1>2, <1>3, <1>9, BlinksAreNext DEF Views
  <2>3. \A j \in 1 .. n : View(blink_array'[s[j]]) = Promised!Aged(Blinks[j])
    <3> TAKE j \in 1 .. n
    <3>1. s[j] \in Used(arr) /\ s[j] \in 1 .. Slots
      BY <1>3
    <3>2. blink_array'[s[j]] = Aged(arr[s[j]]) /\ IsElement(arr[s[j]])
      BY <3>1, <1>4, <1>6
    <3>3. Blinks[j] = View(arr[s[j]])
      BY <2>1
    <3> QED BY <3>2, <3>3, AgedFacts
  <2>4. DOMAIN Blinks = 1 .. n
    BY <2>1
  <2> QED BY <2>2, <2>3, <2>4
<1> QED BY <1>1, <1>13, <1>14 DEF Promised!Tick, Done, Promised!Done

-----------------------------------------------------------------------------
(* The program and its callers *)

\* Each step of the scan has read a byte of one file or the other: a line that
\* has ended, other than with its file, has ended within its row.
ReadAlong ==
    /\ scan.row + scan.col <= scan.read0 + scan.read1
    /\ scan.c0 = NL => scan.eof0 \/ scan.col > 0
    /\ scan.c1 = NL => scan.eof1 \/ scan.col > 0

\* What the scan of the pictures keeps to, as long as it goes on.
ScanInv ==
    /\ {scan.row, scan.col} \subseteq Nat
    /\ scan.read0 \in 0 .. Len(file0) /\ scan.read1 \in 0 .. Len(file1)
    /\ pc = "frames" => file0 \in Pictures0 /\ file1 \in Pictures1
    /\ pc = "frames" => ReadAlong

\* The rest of the types.
RestOK ==
    /\ pc \in {"frames", "shown", "added", "synced", "removed", "caller"}
    /\ left \in Nat
    /\ smudged \subseteq 0 .. Cells - 1

IInv == BlinkInv /\ ScanInv /\ RestOK

\* b is a request with 16-bit lengths that no free element could stand for.
Asks(b) ==
    /\ b = [location |-> b.location, on_char |-> b.on_char, off_char |-> b.off_char,
            on_length |-> b.on_length, off_length |-> b.off_length]
    /\ b.location \in Nat \ {0} /\ {b.on_length, b.off_length} \subseteq 0 .. Word - 1

(* An addition to the array is one to the abstract list.                   *)
LEMMA AddIsAbstract ==
    ASSUME BlinkInv, NEW b, Asks(b), mp1_ioctl_add(b)
    PROVE  BlinkInv' /\ Promised!Add(b)
BY AddStep DEF Asks

(* One byte of a picture at the most.                                      *)
LEMMA ReadByteFacts ==
    ASSUME NEW f \in Pictures0 \cup Pictures1, NEW c, NEW n \in 0 .. Len(f), NEW eof
    PROVE  /\ ReadByte(f, c, n, eof).n \in 0 .. Len(f)
           /\ ReadByte(f, c, n, eof).c \in Range(f) \cup {NL}
           /\ ReadByte(f, c, n, eof).n >= n
           /\ ReadByte(f, c, n, eof).c # NL => ReadByte(f, c, n, eof).n = n + 1
           /\ ~ReadByte(f, c, n, eof).eof /\ c # NL => ReadByte(f, c, n, eof).n = n + 1
           /\ ~ReadByte(f, c, n, eof).eof /\ c = NL => ~eof
<1>1. DOMAIN f = 1 .. Len(f) /\ Len(f) \in Nat
  BY PicturesAssumption
<1>2. CASE c = NL
  BY <1>2 DEF ReadByte
<1>3. CASE c # NL /\ n < Len(f)
  <2>1. n + 1 \in DOMAIN f /\ n + 1 \in 0 .. Len(f)
    BY <1>1, <1>3
  <2> QED BY <1>3, <2>1 DEF ReadByte, Range
<1>4. CASE c # NL /\ ~(n < Len(f))
  BY <1>4 DEF ReadByte
<1> QED BY <1>2, <1>3, <1>4

(* The place of the pictures that is read next.                            *)
LEMMA AfterFacts ==
    ASSUME ScanInv, pc = "frames"
    PROVE  /\ After = [c0 |-> After.c0, c1 |-> After.c1, eof0 |-> After.eof0, eof1 |-> After.eof1,
                       row |-> scan.row, col |-> scan.col,
                       read0 |-> After.read0, read1 |-> After.read1]
           /\ After.row = scan.row /\ After.col = scan.col
           /\ After.read0 \in 0 .. Len(file0) /\ After.read1 \in 0 .. Len(file1)
           /\ After.c0 \in Bytes(Pictures0) /\ After.c1 \in Bytes(Pictures1)
           /\ After.read0 >= scan.read0 /\ After.read1 >= scan.read1
           /\ ~(After.c0 = NL /\ After.c1 = NL) =>
                After.read0 + After.read1 >= scan.read0 + scan.read1 + 1
           /\ ~(After.eof0 /\ After.eof1) =>
                scan.row + 1 <= After.read0 + After.read1
<1> DEFINE a == ReadByte(file0, scan.c0, scan.read0, scan.eof0)
           b == ReadByte(file1, scan.c1, scan.read1, scan.eof1)
<1>1. file0 \in Pictures0 /\ file1 \in Pictures1
  BY DEF ScanInv
<1>2. /\ a.n \in 0 .. Len(file0) /\ a.c \in Range(file0) \cup {NL}
      /\ b.n \in 0 .. Len(file1) /\ b.c \in Range(file1) \cup {NL}
  BY <1>1, ReadByteFacts DEF ScanInv
<1>5. /\ a.n >= scan.read0
      /\ a.c # NL => a.n = scan.read0 + 1
      /\ ~a.eof /\ scan.c0 # NL => a.n = scan.read0 + 1
      /\ ~a.eof /\ scan.c0 = NL => ~scan.eof0
  BY <1>1, ReadByteFacts DEF ScanInv
<1>6. /\ b.n >= scan.read1
      /\ b.c # NL => b.n = scan.read1 + 1
      /\ ~b.eof /\ scan.c1 # NL => b.n = scan.read1 + 1
      /\ ~b.eof /\ scan.c1 = NL => ~scan.eof1
  BY <1>1, ReadByteFacts DEF ScanInv
<1>7. /\ Len(file0) \in Nat /\ Len(file1) \in Nat /\ {scan.row, scan.col} \subseteq Nat
      /\ scan.read0 \in 0 .. Len(file0) /\ scan.read1 \in 0 .. Len(file1) /\ ReadAlong
  BY <1>1, PicturesAssumption DEF ScanInv
<1>3. After = [c0 |-> a.c, c1 |-> b.c, eof0 |-> a.eof, eof1 |-> b.eof,
               row |-> scan.row, col |-> scan.col, read0 |-> a.n, read1 |-> b.n]
  BY DEF After
<1> HIDE DEF a, b
<1>4. a.c \in Bytes(Pictures0) /\ b.c \in Bytes(Pictures1)
  BY <1>1, <1>2 DEF Bytes
<1>8. a.n + b.n >= scan.read0 + scan.read1
      /\ (~(a.c = NL /\ b.c = NL) => a.n + b.n >= scan.read0 + scan.read1 + 1)
  BY <1>2, <1>5, <1>6, <1>7
<1>9. ~(a.eof /\ b.eof) => scan.row + 1 <= a.n + b.n
  <2>1. PICK r \in Nat, k \in Nat : r = scan.row /\ k = scan.col
    BY <1>7
  <2>2. PICK n \in Nat, m \in Nat : n = scan.read0 /\ m = scan.read1
    BY <1>7
  <2>3. PICK x \in Nat, y \in Nat : x = a.n /\ y = b.n
    BY <1>2, <1>7
  <2>4. r + k <= n + m /\ x >= n /\ y >= m
    BY <1>5, <1>6, <1>7, <2>1, <2>2, <2>3 DEF ReadAlong
  <2>5. ASSUME ~(a.eof /\ b.eof) PROVE x = n + 1 \/ y = m + 1 \/ k > 0
    <3>1. CASE ~a.eof
      BY <3>1, <1>5, <1>7, <2>1, <2>2, <2>3 DEF ReadAlong
    <3>2. CASE ~b.eof
      BY <3>2, <1>6, <1>7, <2>1, <2>2, <2>3 DEF ReadAlong
    <3> QED BY <2>5, <3>1, <3>2
  <2>6. x = n + 1 \/ y = m + 1 \/ k > 0 => r + 1 <= x + y
    BY <2>4
  <2> QED BY <2>1, <2>3, <2>5, <2>6
<1>10. /\ After.c0 = a.c /\ After.c1 = b.c /\ After.eof0 = a.eof /\ After.eof1 = b.eof
       /\ After.row = scan.row /\ After.col = scan.col
       /\ After.read0 = a.n /\ After.read1 = b.n
  BY <1>3
<1> QED BY <1>2, <1>3, <1>4, <1>5, <1>6, <1>8, <1>9, <1>10

(* The scan is nowhere that the two files, one behind the other, would not *)
(* reach if each of their bytes ended a line.                              *)
LEMMA ScanOnFiles ==
    ASSUME ScanInv, pc = "frames"
    PROVE  scan.row * Columns + scan.col \in 0 .. 2 * Word
<1>1. file0 \in Pictures0 /\ file1 \in Pictures1
  BY DEF ScanInv
<1>2. PICK r \in Nat, k \in Nat : r = scan.row /\ k = scan.col
  BY DEF ScanInv
<1>3. PICK n \in Nat, m \in Nat : n = Len(file0) /\ m = Len(file1)
  BY <1>1, PicturesAssumption
<1>4. r + k <= n + m
  <2>1. scan.read0 \in 0 .. n /\ scan.read1 \in 0 .. m /\ r + k <= scan.read0 + scan.read1
    BY <1>2, <1>3 DEF ScanInv, ReadAlong
  <2> QED BY <2>1
<1>5. PICK c \in Nat : c = Columns /\ c >= 1
  BY FishAssumption
<1>6. PICK w \in Nat : w = Word
  BY WordAssumption
<1>7. n * c <= w /\ m * c <= w
  <2>1. n * c + Offset <= w /\ m * c + Offset <= w
    BY <1>1, <1>3, <1>5, <1>6, PicturesAssumption
  <2>2. n * c \in Nat /\ m * c \in Nat /\ Offset \in Nat
    BY FishAssumption
  <2> QED BY <2>1, <2>2, <1>6
<1>8. \A x, y, z \in Nat : x <= y => x * z <= y * z
  OBVIOUS
<1>9. (r + k) * c <= (n + m) * c
  BY <1>4, <1>8
<1>10. (r + k) * c = r * c + k * c /\ (n + m) * c = n * c + m * c
  OBVIOUS
<1>11. k <= k * c
  <2>1. 1 * k <= c * k
    BY <1>5, <1>8
  <2> QED BY <2>1
<1>12. r * c \in Nat /\ k * c \in Nat /\ n * c \in Nat /\ m * c \in Nat
  OBVIOUS
<1>13. r * c + k <= w + w
  BY <1>7, <1>9, <1>10, <1>11, <1>12
<1> QED BY <1>2, <1>5, <1>6, <1>12, <1>13

(* What add_frames() asks for.                                             *)
LEMMA FrameBlinkFacts ==
    ASSUME ScanInv, pc = "frames"
    PROVE  /\ Asks(FrameBlink(After))
           /\ FrameBlink(After) \in AllRequests
<1>1. /\ After.row = scan.row /\ After.col = scan.col
      /\ After.c0 \in Bytes(Pictures0) /\ After.c1 \in Bytes(Pictures1)
  BY AfterFacts
<1>2. PICK b : b = FrameBlink(After)
  OBVIOUS
<1>3. PICK m \in Nat : m = scan.row * Columns
  <2>1. scan.row \in Nat /\ Columns \in Nat
    BY FishAssumption DEF ScanInv
  <2> QED BY <2>1
<1>4. scan.col \in Nat /\ Offset \in Nat \ {0} /\ FrameLength \in 0 .. Word - 1
  BY FishAssumption, WordAssumption DEF ScanInv
<1>5. b = [location |-> m + scan.col + Offset, on_char |-> Shown(After.c0),
           off_char |-> Shown(After.c1), on_length |-> FrameLength, off_length |-> FrameLength]
  BY <1>1, <1>2, <1>3 DEF FrameBlink
<1>6. Asks(b)
  <2>1. m + scan.col + Offset \in Nat \ {0}
    BY <1>4
  <2> QED BY <1>4, <1>5, <2>1 DEF Asks
<1>7. b \in AllRequests
  <2>1. PICK l \in 0 .. 2 * Word : l = m + scan.col
    BY <1>1, <1>3, ScanOnFiles
  <2>2. 0 * Columns + l + Offset = m + scan.col + Offset
    <3>1. 0 * Columns = 0
      BY FishAssumption
    <3> QED BY <3>1, <2>1, <1>4
  <2>3. b = FrameBlink([row |-> 0, col |-> l, c0 |-> After.c0, c1 |-> After.c1])
    BY <1>5, <2>2 DEF FrameBlink
  <2> QED BY <1>1, <2>3 DEF AllRequests, FrameBlinks
<1> QED BY <1>2, <1>6, <1>7

(* The calls and the tick keep the screen's smudges on the screen.         *)
LEMMA SmudgedOnScreen ==
    ASSUME BlinkInv, smudged \subseteq 0 .. Cells - 1,
           \/ \E b : mp1_ioctl_add(b)
           \/ \E l : mp1_ioctl_remove(l) \/ mp1_ioctl_find(l)
           \/ \E from, to : mp1_ioctl_sync(from, to)
           \/ mp1_rtc_tasklet
           \/ UNCHANGED smudged
    PROVE  smudged' \subseteq 0 .. Cells - 1
<1>1. ASSUME NEW l, mp1_find_helper(l) # NULL PROVE l \in 0 .. Cells - 1
  <2>1. PICK k : k = Promised!Newest(l)
    OBVIOUS
  <2>2. Finds(l, k)
    BY <2>1, HelperFacts
  <2>3. k \in 1 .. Len(Listed) /\ blink_array[Listed[k]].location = l
    BY <2>2, <1>1 DEF Finds
  <2> QED BY <2>3, BlinkFacts
<1>2. ASSUME NEW b, mp1_ioctl_add(b) PROVE smudged' \subseteq smudged
  BY <1>2 DEF mp1_ioctl_add
<1>3. ASSUME NEW l, mp1_ioctl_remove(l) PROVE smudged' \subseteq 0 .. Cells - 1
  <2>1. CASE mp1_find_helper(l) # NULL
    <3>1. smudged' = smudged \cup {l}
      BY <1>3, <2>1 DEF mp1_ioctl_remove
    <3> QED BY <3>1, <2>1, <1>1
  <2>2. CASE mp1_find_helper(l) = NULL
    <3>1. smudged' = smudged
      BY <1>3, <2>2 DEF mp1_ioctl_remove
    <3> QED BY <3>1
  <2> QED BY <2>1, <2>2
<1>4. ASSUME NEW l, mp1_ioctl_find(l) PROVE smudged' = smudged
  BY <1>4 DEF mp1_ioctl_find
<1>5. ASSUME NEW from, NEW to, mp1_ioctl_sync(from, to) PROVE smudged' \subseteq 0 .. Cells - 1
  <2>1. CASE mp1_find_helper(from) # NULL /\ mp1_find_helper(to) # NULL
    <3>1. smudged' = smudged \cup {to} \/ smudged' = smudged \ {to}
      BY <1>5, <2>1 DEF mp1_ioctl_sync
    <3> QED BY <3>1, <2>1, <1>1
  <2>2. CASE ~(mp1_find_helper(from) # NULL /\ mp1_find_helper(to) # NULL)
    <3>1. smudged' = smudged
      BY <1>5, <2>2 DEF mp1_ioctl_sync
    <3> QED BY <3>1
  <2> QED BY <2>1, <2>2
<1>6. mp1_rtc_tasklet => smudged' \subseteq smudged
  BY DEF mp1_rtc_tasklet
<1> QED BY <1>2, <1>3, <1>4, <1>5, <1>6

(* A step of a behaviour as the abstract service sees it.                  *)
AbstractStep == Promised!Next \/ UNCHANGED <<Blinks, asked, result>>

LEMMA ColumnStep ==
    ASSUME IInv, Column
    PROVE  IInv' /\ AbstractStep
<1>1. ScanInv /\ pc = "frames" /\ BlinkInv /\ RestOK
  BY DEF IInv, Column
<1>2. UNCHANGED <<pc, file0, file1, left>> /\ scan' = [After EXCEPT !.col = @ + 1]
  BY DEF Column
<1>3. ScanInv'
  <2>1. PICK a : a = After
    OBVIOUS
  <2>2. /\ a = [c0 |-> a.c0, c1 |-> a.c1, eof0 |-> a.eof0, eof1 |-> a.eof1,
                row |-> scan.row, col |-> scan.col, read0 |-> a.read0, read1 |-> a.read1]
        /\ a.read0 \in 0 .. Len(file0) /\ a.read1 \in 0 .. Len(file1)
    BY <1>1, <2>1, AfterFacts
  <2>3. scan' = [c0 |-> a.c0, c1 |-> a.c1, eof0 |-> a.eof0, eof1 |-> a.eof1,
                 row |-> scan.row, col |-> scan.col + 1, read0 |-> a.read0, read1 |-> a.read1]
    BY <1>2, <2>1, <2>2
  <2>4. ReadAlong'
    <3>1. scan.row + (scan.col + 1) <= a.read0 + a.read1
      <4>1. /\ {scan.row, scan.col} \subseteq Nat /\ scan.read0 \in Nat /\ scan.read1 \in Nat
            /\ a.read0 \in Nat /\ a.read1 \in Nat
        BY <1>1, <2>2 DEF ScanInv
      <4>2. scan.row + scan.col <= scan.read0 + scan.read1
        BY <1>1 DEF ScanInv, ReadAlong
      <4>3. a.read0 + a.read1 >= scan.read0 + scan.read1 + 1
        BY <1>1, <2>1, AfterFacts DEF Column
      <4> QED BY <4>1, <4>2, <4>3
    <3>2. scan.col + 1 > 0
      BY <1>1 DEF ScanInv
    <3> QED BY <2>3, <3>1, <3>2 DEF ReadAlong
  <2> QED BY <1>1, <1>2, <2>2, <2>3, <2>4 DEF ScanInv
<1>4. CASE {After.c0, After.c1} \subseteq {Blank, NL}
  <2>1. UNCHANGED blinkVars
    BY <1>4 DEF Column
  <2>2. BlinkInv' /\ Blinks' = Blinks
    BY <1>1, <2>1, StutterStep DEF blinkVars
  <2>3. result' = result /\ asked' = asked /\ RestOK'
    BY <1>1, <1>2, <2>1 DEF blinkVars, RestOK
  <2> QED BY <1>3, <2>2, <2>3 DEF IInv, AbstractStep
<1>5. CASE ~({After.c0, After.c1} \subseteq {Blank, NL})
  <2>1. mp1_ioctl_add(FrameBlink(After))
    BY <1>5 DEF Column
  <2>2. PICK b : b = FrameBlink(After)
    OBVIOUS
  <2>3. Asks(b) /\ b \in AllRequests /\ mp1_ioctl_add(b)
    BY <1>1, <2>1, <2>2, FrameBlinkFacts
  <2>4. BlinkInv' /\ Promised!Add(b)
    BY <1>1, <2>3, AddIsAbstract
  <2>5. RestOK'
    BY <1>1, <1>2, <2>3, SmudgedOnScreen DEF RestOK
  <2> QED BY <1>3, <2>3, <2>4, <2>5 DEF IInv, AbstractStep, Promised!Next
<1> QED BY <1>4, <1>5

(* What the end of a row makes of the scan.                                *)
LEMMA RowScan ==
    ASSUME ScanInv, pc = "frames", EndOfRow
    PROVE  /\ scan'.row = scan.row + 1 /\ scan'.col = 0
           /\ scan'.c0 = IF After.eof0 THEN NL ELSE Blank
           /\ scan'.c1 = IF After.eof1 THEN NL ELSE Blank
           /\ scan'.eof0 = After.eof0 /\ scan'.eof1 = After.eof1
           /\ scan'.read0 = After.read0 /\ scan'.read1 = After.read1
<1>1. PICK a : a = After
  OBVIOUS
<1>2. a = [c0 |-> a.c0, c1 |-> a.c1, eof0 |-> a.eof0, eof1 |-> a.eof1,
           row |-> scan.row, col |-> scan.col, read0 |-> a.read0, read1 |-> a.read1]
  BY <1>1, AfterFacts
<1>3. PICK a1 : a1 = [a EXCEPT !.row = @ + 1]
  OBVIOUS
<1>4. a1 = [c0 |-> a.c0, c1 |-> a.c1, eof0 |-> a.eof0, eof1 |-> a.eof1,
            row |-> scan.row + 1, col |-> scan.col, read0 |-> a.read0, read1 |-> a.read1]
  BY <1>2, <1>3
<1>5. PICK a2 : a2 = [a1 EXCEPT !.col = 0]
  OBVIOUS
<1>6. a2 = [c0 |-> a.c0, c1 |-> a.c1, eof0 |-> a.eof0, eof1 |-> a.eof1,
            row |-> scan.row + 1, col |-> 0, read0 |-> a.read0, read1 |-> a.read1]
  BY <1>4, <1>5
<1>7. PICK x, y : x = (IF After.eof0 THEN NL ELSE Blank) /\ y = (IF After.eof1 THEN NL ELSE Blank)
  OBVIOUS
<1>8. PICK a3 : a3 = [a2 EXCEPT !.c0 = x]
  OBVIOUS
<1>9. a3 = [c0 |-> x, c1 |-> a.c1, eof0 |-> a.eof0, eof1 |-> a.eof1,
            row |-> scan.row + 1, col |-> 0, read0 |-> a.read0, read1 |-> a.read1]
  BY <1>6, <1>8
<1>10. [a3 EXCEPT !.c1 = y] =
         [c0 |-> x, c1 |-> y, eof0 |-> a.eof0, eof1 |-> a.eof1,
          row |-> scan.row + 1, col |-> 0, read0 |-> a.read0, read1 |-> a.read1]
  BY <1>9
<1>11. scan' = [a3 EXCEPT !.c1 = y]
  BY <1>1, <1>3, <1>5, <1>7, <1>8 DEF EndOfRow
<1> QED BY <1>1, <1>7, <1>10, <1>11

LEMMA EndOfRowStep ==
    ASSUME IInv, EndOfRow
    PROVE  IInv' /\ AbstractStep
<1>1. ScanInv /\ pc = "frames" /\ BlinkInv /\ RestOK
  BY DEF IInv, EndOfRow
<1>2. UNCHANGED <<file0, file1>> /\ UNCHANGED blinkVars
      /\ scan' = [After EXCEPT !.row = @ + 1, !.col = 0,
                               !.c0 = IF After.eof0 THEN NL ELSE Blank,
                               !.c1 = IF After.eof1 THEN NL ELSE Blank]
  BY DEF EndOfRow
<1>3. (pc' = pc /\ left' = left) \/ (pc' = "shown" /\ left' = Wait)
  BY DEF EndOfRow
<1>4. ScanInv'
  <2>1. PICK a : a = After
    OBVIOUS
  <2>2. /\ a = [c0 |-> a.c0, c1 |-> a.c1, eof0 |-> a.eof0, eof1 |-> a.eof1,
                row |-> scan.row, col |-> scan.col, read0 |-> a.read0, read1 |-> a.read1]
        /\ a.read0 \in 0 .. Len(file0) /\ a.read1 \in 0 .. Len(file1)
    BY <1>1, <2>1, AfterFacts
  <2>3. scan'.row = scan.row + 1 /\ scan'.col = 0
         /\ scan'.read0 = a.read0 /\ scan'.read1 = a.read1
    BY <1>1, <2>1, RowScan
  <2>4. pc' = "frames" => pc = "frames"
    BY <1>3
  <2>5. ASSUME pc' = "frames" PROVE ReadAlong'
    <3>1. ~(After.eof0 /\ After.eof1)
      BY <2>5 DEF EndOfRow
    <3>2. scan.row + 1 <= a.read0 + a.read1
      BY <1>1, <2>1, <3>1, AfterFacts
    <3>3. /\ scan'.c0 = NL => scan'.eof0
          /\ scan'.c1 = NL => scan'.eof1
      BY <1>1, RowScan, FishAssumption
    <3>4. scan'.row + scan'.col <= scan'.read0 + scan'.read1
      BY <1>1, <2>3, <3>2 DEF ScanInv
    <3> QED BY <3>3, <3>4 DEF ReadAlong
  <2> QED BY <1>1, <1>2, <2>2, <2>3, <2>4, <2>5 DEF ScanInv
<1>5. BlinkInv' /\ Blinks' = Blinks
  BY <1>1, <1>2, StutterStep DEF blinkVars
<1>6. result' = result /\ asked' = asked /\ RestOK'
  BY <1>1, <1>2, <1>3, FishAssumption DEF blinkVars, RestOK
<1> QED BY <1>4, <1>5, <1>6 DEF IInv, AbstractStep

LEMMA NextStep ==
    ASSUME NobodyAsksForZero, IInv, [Next]_vars
    PROVE  IInv' /\ AbstractStep
<1>1. BlinkInv /\ ScanInv /\ RestOK
  BY DEF IInv
<1>2. CASE Column
  BY <1>2, ColumnStep
<1>3. CASE EndOfRow
  BY <1>3, EndOfRowStep
<1>4. ASSUME UNCHANGED <<file0, file1, scan>>, pc' # "frames" PROVE ScanInv'
  BY <1>1, <1>4 DEF ScanInv
<1>5. CASE Tick
  <2>1. mp1_rtc_tasklet /\ UNCHANGED <<pc, file0, file1, scan>>
        /\ pc \in {"shown", "added", "synced", "removed", "caller"}
        /\ left' \in Nat
    BY <1>1, <1>5 DEF Tick, RestOK
  <2>2. BlinkInv' /\ Promised!Tick
    BY <1>1, <2>1, TickStep
  <2>3. ScanInv'
    BY <2>1, <1>4
  <2>4. RestOK'
    BY <1>1, <2>1, SmudgedOnScreen DEF RestOK
  <2> QED BY <2>2, <2>3, <2>4 DEF IInv, AbstractStep, Promised!Next
<1>6. CASE AddExtra
  <2>1. mp1_ioctl_add(Extra) /\ UNCHANGED <<file0, file1, scan>> /\ pc' = "added" /\ left' = Wait
    BY <1>6 DEF AddExtra
  <2>2. Asks(Extra) /\ Extra \in AllRequests
    <3>1. IsRequest(Extra) /\ Extra.location # 0
      BY FishAssumption DEF NobodyAsksForZero
    <3> QED BY <3>1, WordAssumption DEF IsRequest, Asks, AllRequests
  <2>3. BlinkInv' /\ Promised!Add(Extra)
    BY <1>1, <2>1, <2>2, AddIsAbstract
  <2>4. ScanInv'
    BY <2>1, <1>4
  <2>5. RestOK'
    BY <1>1, <2>1, SmudgedOnScreen, FishAssumption DEF RestOK
  <2> QED BY <2>2, <2>3, <2>4, <2>5 DEF IInv, AbstractStep, Promised!Next
<1>7. CASE SyncExtra
  <2>1. mp1_ioctl_sync(Offset, Extra.location) /\ UNCHANGED <<file0, file1, scan>>
        /\ pc' = "synced" /\ left' = Wait
    BY <1>7 DEF SyncExtra
  <2>2. BlinkInv' /\ Promised!Sync(Offset, Extra.location)
    BY <1>1, <2>1, SyncStep
  <2>3. Offset \in AllLocations /\ Extra.location \in AllLocations
    BY DEF AllLocations
  <2>4. ScanInv'
    BY <2>1, <1>4
  <2>5. RestOK'
    BY <1>1, <2>1, SmudgedOnScreen, FishAssumption DEF RestOK
  <2> QED BY <2>2, <2>3, <2>4, <2>5 DEF IInv, AbstractStep, Promised!Next
<1>8. CASE RemoveAnother
  <2>1. mp1_ioctl_remove(Wait) /\ UNCHANGED <<file0, file1, scan>>
        /\ pc' = "removed" /\ left' = LastWait
    BY <1>8 DEF RemoveAnother
  <2>2. BlinkInv' /\ Promised!RemoveBlink(Wait)
    BY <1>1, <2>1, RemoveStep
  <2>3. Wait \in AllLocations
    BY DEF AllLocations
  <2>4. ScanInv'
    BY <2>1, <1>4
  <2>5. RestOK'
    BY <1>1, <2>1, SmudgedOnScreen, FishAssumption DEF RestOK
  <2> QED BY <2>2, <2>3, <2>4, <2>5 DEF IInv, AbstractStep, Promised!Next
<1>9. CASE CallerCalls
  <2>1. /\ Calls /\ pc = "caller" /\ pc' = "caller" /\ UNCHANGED <<file0, file1, scan>>
        /\ left' \in Nat
    BY <1>1, <1>9 DEF CallerCalls, RestOK
  <2>2. ScanInv'
    BY <2>1, <1>4
  <2>3. RestOK'
    BY <1>1, <2>1, SmudgedOnScreen DEF RestOK, Calls
  <2>4. ASSUME NEW b \in Requests, mp1_ioctl_add(b) PROVE BlinkInv' /\ AbstractStep
    <3>1. Asks(b) /\ b \in AllRequests
      <4>1. IsRequest(b) /\ b.location # 0
        BY RequestsAssumption DEF NobodyAsksForZero
      <4> QED BY <4>1, WordAssumption DEF IsRequest, Asks, AllRequests
    <3> QED BY <1>1, <2>4, <3>1, AddIsAbstract DEF AbstractStep, Promised!Next
  <2>5. ASSUME NEW l \in Locations, mp1_ioctl_remove(l) PROVE BlinkInv' /\ AbstractStep
    <3>1. BlinkInv' /\ Promised!RemoveBlink(l)
      BY <1>1, <2>5, RemoveStep
    <3> QED BY <3>1 DEF AbstractStep, Promised!Next, AllLocations
  <2>6. ASSUME NEW l \in Locations, mp1_ioctl_find(l) PROVE BlinkInv' /\ AbstractStep
    <3>1. BlinkInv' /\ Promised!Find(l)
      BY <1>1, <2>6, FindStep
    <3> QED BY <3>1 DEF AbstractStep, Promised!Next, AllLocations
  <2>7. ASSUME NEW from \in Locations, NEW to \in Locations, mp1_ioctl_sync(from, to)
        PROVE  BlinkInv' /\ AbstractStep
    <3>1. BlinkInv' /\ Promised!Sync(from, to)
      BY <1>1, <2>7, SyncStep
    <3> QED BY <3>1 DEF AbstractStep, Promised!Next, AllLocations
  <2>8. BlinkInv' /\ AbstractStep
    BY <2>1, <2>4, <2>5, <2>6, <2>7 DEF Calls
  <2> QED BY <2>2, <2>3, <2>8 DEF IInv
<1>10. CASE UNCHANGED vars
  <2>1. /\ UNCHANGED blinkVars /\ pc' = pc /\ file0' = file0 /\ file1' = file1
        /\ scan' = scan /\ left' = left
    BY <1>10 DEF vars
  <2>2. BlinkInv' /\ Blinks' = Blinks
    BY <1>1, <2>1, StutterStep DEF blinkVars
  <2>3. ScanInv'
    BY <1>1, <2>1 DEF ScanInv, ReadAlong
  <2>4. RestOK' /\ result' = result /\ asked' = asked
    BY <1>1, <2>1 DEF RestOK, blinkVars
  <2> QED BY <2>2, <2>3, <2>4 DEF IInv, AbstractStep
<1> QED
  BY <1>2, <1>3, <1>5, <1>6, <1>7, <1>8, <1>9, <1>10 DEF Next, Finished

(* Everything is blank and free at first.                                  *)
LEMMA InitStep == Init => IInv /\ Promised!Init
<1> SUFFICES ASSUME Init PROVE IInv /\ Promised!Init
  OBVIOUS
<1>1. /\ blink_array = [e \in 1 .. Slots |-> Free] /\ mp1_list_head = NULL
      /\ vmem = [l \in 0 .. Cells - 1 |-> Blank] /\ result = Done /\ asked = <<>>
      /\ smudged = {}
  BY DEF Init, BlinkInit
<1>2. <<>> \in Seq(1 .. Slots) /\ Len(<<>>) = 0
  BY EmptySeq
<1>3. Linked(blink_array, mp1_list_head, <<>>)
  BY <1>1, <1>2 DEF Linked
<1>4. Listed = <<>> /\ Ends
  BY <1>3, LinkedIsListed, ListedIs DEF Ends
<1>5. \A e \in 1 .. Slots : blink_array[e].location = 0 /\ IsElement(blink_array[e])
  <2>1. IsElement(Free) /\ Free.location = 0
    BY CellsAssumption, WordAssumption, SlotsAssumption DEF Free, IsElement, NULL
  <2> QED BY <1>1, <2>1
<1>6. InUse(blink_array, <<>>)
  BY <1>2, <1>5 DEF InUse
<1>7. Shows(blink_array, vmem, smudged)
  BY <1>5 DEF Shows, Used
<1>8. IsArray(blink_array)
  BY <1>1, <1>5 DEF IsArray
<1>9. BlinkInv
  <2>1. vmem = [l \in 0 .. Cells - 1 |-> vmem[l]]
    BY <1>1
  <2> QED BY <2>1, <1>3, <1>4, <1>6, <1>7, <1>8 DEF BlinkInv
<1>10. ScanInv
  <2>1. scan.row = 0 /\ scan.col = 0 /\ scan.read0 = 0 /\ scan.read1 = 0
    BY DEF Init, Start
  <2>2. Len(file0) \in Nat /\ Len(file1) \in Nat
    BY <1>2, PicturesAssumption DEF Init
  <2>3. pc = "frames" => file0 \in Pictures0 /\ file1 \in Pictures1
    BY DEF Init
  <2>4. ReadAlong
    BY <2>1, FishAssumption DEF Init, Start, ReadAlong
  <2> QED BY <2>1, <2>2, <2>3, <2>4 DEF ScanInv
<1>11. RestOK
  BY <1>1, FishAssumption DEF Init, RestOK
<1>12. Promised!Init
  <2>1. Blinks = Views(blink_array, <<>>)
    BY <1>2, <1>4, BlinksAre
  <2>2. Blinks = <<>>
    <3>1. Blinks = [k \in 1 .. 0 |-> View(blink_array[<<>>[k]])]
      BY <1>2, <2>1 DEF Views
    <3>2. DOMAIN Blinks = {}
      BY <3>1
    <3>3. Blinks \in [1 .. 0 -> {}]
      BY <3>1
    <3> QED BY <3>3, Sequence, Elements
  <2> QED BY <1>1, <2>2 DEF Promised!Init, Done, Promised!Done
<1> QED BY <1>9, <1>10, <1>11, <1>12 DEF IInv

-----------------------------------------------------------------------------
(* The pictures *)

\* The row and column of a byte of a file, and the order of reading.
Pos(f, i) == <<LineOf(f, i), PlaceOf(f, i)>>
Before(p, q) == p[1] < q[1] \/ (p[1] = q[1] /\ p[2] < q[2])

\* n bytes of a file are read when the scan is at row r and column k, the last
\* of them c: its characters are all at places before that, and the next byte
\* stands there or, when it is held back, at the start of the next row.
InStep(f, c, n, eof, r, k) ==
    /\ n \in 0 .. Len(f) /\ eof \in BOOLEAN
    /\ \A i \in 1 .. n : f[i] # NL => Before(Pos(f, i), <<r, k>>)
    /\ eof => n = Len(f) /\ c = NL
    /\ ~eof => Pos(f, n + 1) = IF c = NL THEN <<r + 1, 0>> ELSE <<r, k>>

\* The places of the pictures that the scan has passed.
Placed(f0, f1, r, k) == {p \in Places(f0, f1) : Before(p, <<r, k>>)}

Drawn(b) == <<b.location, b.on_char, b.off_char>>
DrawnAt(f0, f1, p) ==
    <<p[1] * Columns + p[2] + Offset, CharAt(f0, p[1], p[2]), CharAt(f1, p[1], p[2])>>

\* A list has one blink for each of finitely many places, as the pictures have it there.
Held(list, f0, f1, P) ==
    /\ IsFiniteSet(P)
    /\ list = [i \in 1 .. Cardinality(P) |-> list[i]]
    /\ {Drawn(list[i]) : i \in 1 .. Cardinality(P)} = {DrawnAt(f0, f1, p) : p \in P}

\* The inductive invariant of add_frames(): both files are read in step, and
\* the list holds what they have shown so far.
PictureInv ==
    /\ pc = "frames" =>
         /\ InStep(file0, scan.c0, scan.read0, scan.eof0, scan.row, scan.col)
         /\ InStep(file1, scan.c1, scan.read1, scan.eof1, scan.row, scan.col)
         /\ Held(Blinks, file0, file1, Placed(file0, file1, scan.row, scan.col))
    /\ pc = "shown" => Held(Blinks, file0, file1, Places(file0, file1))

\* The hypothesis: the array has an element for every place of the pictures.
PicturesFit == \A f0 \in Pictures0, f1 \in Pictures1 : Cardinality(Places(f0, f1)) <= Slots

(* The order of reading is transitive.                                     *)
LEMMA Transitive ==
    ASSUME NEW p \in Nat \X Nat, NEW q \in Nat \X Nat, NEW s \in Nat \X Nat, Before(p, q), Before(q, s)
    PROVE  Before(p, s)
<1>1. PICK a \in Nat, b \in Nat : p = <<a, b>>
  OBVIOUS
<1>2. PICK c \in Nat, d \in Nat : q = <<c, d>>
  OBVIOUS
<1>3. PICK e \in Nat, f \in Nat : s = <<e, f>>
  OBVIOUS
<1>4. a < c \/ (a = c /\ b < d)
  BY <1>1, <1>2 DEF Before
<1>5. c < e \/ (c = e /\ d < f)
  BY <1>2, <1>3 DEF Before
<1>6. a < e \/ (a = e /\ b < f)
  BY <1>4, <1>5
<1> QED BY <1>1, <1>3, <1>6 DEF Before

(* A byte is at the place behind the one before it, or at the start of a   *)
(* row behind the end of a line.                                           *)
LEMMA PlaceFacts ==
    ASSUME NEW f, NEW i \in Nat \ {0}
    PROVE  /\ LineOf(f, i) \in 0 .. i - 1 /\ PlaceOf(f, i) \in 0 .. i - 1
           /\ f[i] = NL => LineOf(f, i + 1) = LineOf(f, i) + 1 /\ PlaceOf(f, i + 1) = 0
           /\ f[i] # NL => /\ LineOf(f, i + 1) = LineOf(f, i)
                           /\ PlaceOf(f, i + 1) = PlaceOf(f, i) + 1
<1> DEFINE stops(n) == {j \in 1 .. n - 1 : f[j] = NL}
<1>1. \A n \in Nat \ {0} : /\ IsFiniteSet(stops(n)) /\ Cardinality(stops(n)) \in 0 .. n - 1
                           /\ Max({0} \cup stops(n)) \in 0 .. n - 1
  <2> TAKE n \in Nat \ {0}
  <2>0. PICK m \in Nat : m = n - 1
    OBVIOUS
  <2>1. PICK S : S = stops(n) /\ m = n - 1
    BY <2>0
  <2>2. S \in SUBSET (1 .. m) /\ {0} \cup S \subseteq 0 .. m /\ {0} \cup S # {}
    BY <2>1
  <2>3. IsFiniteSet(1 .. m) /\ Cardinality(1 .. m) = m
    BY FS_Interval
  <2>4. IsFiniteSet(S) /\ Cardinality(S) <= m
    BY <2>2, <2>3, FS_Subset
  <2>5. Cardinality(S) \in Nat
    BY <2>4, FS_CardinalityType
  <2>6. PICK T : T = {0} \cup S
    OBVIOUS
  <2>7. Max(T) \in T
    BY <2>2, <2>6, MaxFacts
  <2>8. Max({0} \cup S) \in 0 .. m
    BY <2>2, <2>6, <2>7
  <2> QED BY <2>1, <2>4, <2>5, <2>8
<1>2. PICK now, then : now = stops(i) /\ then = stops(i + 1)
  OBVIOUS
<1>3. PICK m : m = Max({0} \cup now)
  OBVIOUS
<1>4. LineOf(f, i) = Cardinality(now) /\ PlaceOf(f, i) = i - 1 - m
  BY <1>2, <1>3 DEF LineOf, PlaceOf
<1>5. LineOf(f, i + 1) = Cardinality(then) /\ PlaceOf(f, i + 1) = i - Max({0} \cup then)
  <2>1. (i + 1) - 1 = i
    OBVIOUS
  <2> QED BY <2>1, <1>2 DEF LineOf, PlaceOf
<1>6. IsFiniteSet(now) /\ Cardinality(now) \in 0 .. i - 1 /\ m \in 0 .. i - 1
  BY <1>1, <1>2, <1>3
<1>7. (i + 1) - 1 = i /\ i \in 1 .. i /\ 1 .. i = (1 .. i - 1) \cup {i} /\ ~(i \in 1 .. i - 1)
  OBVIOUS
<1>8. CASE f[i] = NL
  <2>1. then = now \cup {i} /\ i \notin now
    BY <1>2, <1>7, <1>8
  <2>2. Cardinality(then) = Cardinality(now) + 1
    BY <2>1, <1>6, FS_AddElement
  <2>3. PICK T : T = {0} \cup then
    OBVIOUS
  <2>4. T \subseteq 0 .. i /\ T # {} /\ i \in T
    BY <2>1, <2>3, <1>2
  <2>5. Max(T) \in T /\ \A k \in T : k <= Max(T)
    BY <2>4, MaxFacts
  <2>6. Max(T) = i
    <3>1. Max(T) \in 0 .. i /\ i <= Max(T)
      BY <2>4, <2>5
    <3> QED BY <3>1
  <2>7. PlaceOf(f, i + 1) = 0
    BY <2>3, <2>6, <1>5
  <2> HIDE DEF stops
  <2> QED BY <2>2, <2>7, <1>4, <1>5, <1>6, <1>8
<1>9. CASE f[i] # NL
  <2>1. then = now
    BY <1>2, <1>7, <1>9
  <2>2. PlaceOf(f, i + 1) = PlaceOf(f, i) + 1
    BY <2>1, <1>3, <1>4, <1>5, <1>6
  <2> HIDE DEF stops
  <2> QED BY <2>1, <2>2, <1>4, <1>5, <1>6, <1>9
<1> HIDE DEF stops
<1>10. i - 1 - m \in 0 .. i - 1
  BY <1>6
<1> QED BY <1>4, <1>6, <1>8, <1>9, <1>10

(* A row and a column are numbers.                                         *)
LEMMA PosIn ==
    ASSUME NEW f, NEW i \in Nat \ {0}
    PROVE  Pos(f, i) \in Nat \X Nat /\ Pos(f, i)[1] = LineOf(f, i) /\ Pos(f, i)[2] = PlaceOf(f, i)
<1>1. LineOf(f, i) \in Nat /\ PlaceOf(f, i) \in Nat
  BY PlaceFacts
<1> QED BY <1>1 DEF Pos

(* The bytes of a file are at places in the order of reading.              *)
LEMMA PlacesInOrder ==
    ASSUME NEW f, NEW i \in Nat \ {0}, NEW j \in Nat \ {0}, i < j
    PROVE  Before(Pos(f, i), Pos(f, j))
<1> DEFINE T == {n \in Nat : Before(Pos(f, i), Pos(f, i + n + 1))}
<1>1. \A k \in Nat \ {0} : Before(Pos(f, k), Pos(f, k + 1))
  <2> TAKE k \in Nat \ {0}
  <2>1. /\ LineOf(f, k) \in Nat /\ PlaceOf(f, k) \in Nat
        /\ \/ LineOf(f, k + 1) = LineOf(f, k) + 1
           \/ LineOf(f, k + 1) = LineOf(f, k) /\ PlaceOf(f, k + 1) = PlaceOf(f, k) + 1
    BY PlaceFacts
  <2> QED BY <2>1, PosIn DEF Before
<1>2. 0 \in T
  <2>1. i + 0 + 1 = i + 1
    OBVIOUS
  <2> QED BY <2>1, <1>1
<1>3. ASSUME NEW n \in Nat, n \in T PROVE n + 1 \in T
  <2>1. PICK k \in Nat \ {0} : k = i + n + 1
    OBVIOUS
  <2>2. i + (n + 1) + 1 = k + 1 /\ k + 1 \in Nat \ {0}
    BY <2>1
  <2>3. Before(Pos(f, i), Pos(f, k)) /\ Before(Pos(f, k), Pos(f, k + 1))
    BY <1>1, <1>3, <2>1
  <2>4. Pos(f, i) \in Nat \X Nat /\ Pos(f, k) \in Nat \X Nat /\ Pos(f, k + 1) \in Nat \X Nat
    BY <2>2, PosIn
  <2>5. Before(Pos(f, i), Pos(f, k + 1))
    BY <2>3, <2>4, Transitive
  <2> QED BY <2>2, <2>5
<1> HIDE DEF T
<1>4. j - i - 1 \in T
  <2>1. Nat \subseteq T
    BY <1>2, <1>3, SetInduction
  <2> QED BY <2>1
<1>5. i + (j - i - 1) + 1 = j
  OBVIOUS
<1> QED BY <1>4, <1>5 DEF T

IsFile(f) == DOMAIN f = 1 .. Len(f) /\ Len(f) \in Nat

\* A character of a file at a place.
Has(f, r, k, i) == i \in 1 .. Len(f) /\ f[i] # NL /\ Pos(f, i) = <<r, k>>

(* What stands at a place.                                                 *)
LEMMA CharFacts ==
    ASSUME NEW f, IsFile(f), NEW r, NEW k
    PROVE  /\ (\A i : ~Has(f, r, k, i)) => CharAt(f, r, k) = Blank
           /\ \A i : Has(f, r, k, i) => CharAt(f, r, k) = f[i]
<1> DEFINE here == {i \in DOMAIN f : f[i] # NL /\ LineOf(f, i) = r /\ PlaceOf(f, i) = k}
<1>1. \A i : i \in here <=> Has(f, r, k, i)
  BY DEF Has, IsFile, Pos
<1>2. CharAt(f, r, k) = IF here = {} THEN Blank ELSE f[CHOOSE i \in here : TRUE]
  BY DEF CharAt
<1> HIDE DEF here
<1>3. ASSUME NEW i \in here, NEW j \in here PROVE i = j
  <2>1. /\ i \in Nat \ {0} /\ j \in Nat \ {0} /\ Pos(f, i) = Pos(f, j)
    BY <1>1, <1>3 DEF Has, IsFile
  <2>2. ~Before(Pos(f, i), Pos(f, i))
    <3>1. Pos(f, i)[1] \in Nat /\ Pos(f, i)[2] \in Nat
      BY <2>1, PosIn, PlaceFacts
    <3> QED BY <3>1 DEF Before
  <2>3. ~(i < j) /\ ~(j < i)
    BY <2>1, <2>2, PlacesInOrder
  <2> QED BY <2>1, <2>3
<1>4. ASSUME NEW i \in here PROVE f[CHOOSE j \in here : TRUE] = f[i]
  <2>1. (CHOOSE j \in here : TRUE) \in here
    BY <1>4
  <2>2. (CHOOSE j \in here : TRUE) = i
    BY <2>1, <1>3, <1>4
  <2> QED BY <2>2
<1>5. ASSUME \A i : ~Has(f, r, k, i) PROVE CharAt(f, r, k) = Blank
  BY <1>1, <1>2, <1>5
<1>6. ASSUME NEW i, Has(f, r, k, i) PROVE CharAt(f, r, k) = f[i]
  BY <1>1, <1>2, <1>4, <1>6
<1> QED BY <1>5, <1>6

(* A file that has come to the end of its line shows nothing more in the   *)
(* row, and is held back until the next one.                               *)
LEMMA HeldBack ==
    ASSUME NEW f, IsFile(f), NEW n, NEW eof, NEW r \in Nat, NEW k \in Nat, InStep(f, NL, n, eof, r, k)
    PROVE  /\ \A j \in Nat : j >= k => CharAt(f, r, j) = Blank
           /\ InStep(f, NL, n, eof, r, k + 1)
           /\ InStep(f, IF eof THEN NL ELSE Blank, n, eof, r + 1, 0)
<1>1. /\ n \in 0 .. Len(f) /\ eof \in BOOLEAN
      /\ \A i \in 1 .. n : f[i] # NL => Before(Pos(f, i), <<r, k>>)
      /\ eof => n = Len(f)
      /\ ~eof => Pos(f, n + 1) = <<r + 1, 0>>
  BY DEF InStep
<1>2. \A i \in 1 .. n : LineOf(f, i) \in Nat /\ PlaceOf(f, i) \in Nat /\ Pos(f, i) = <<LineOf(f, i), PlaceOf(f, i)>>
  BY <1>1, PlaceFacts DEF Pos
<1>3. \A i \in 1 .. n : f[i] # NL =>
        LineOf(f, i) < r \/ (LineOf(f, i) = r /\ PlaceOf(f, i) < k)
  <2> TAKE i \in 1 .. n
  <2> HAVE f[i] # NL
  <2>1. PICK u \in Nat, v \in Nat : u = LineOf(f, i) /\ v = PlaceOf(f, i)
    BY <1>2
  <2>2. Before(<<u, v>>, <<r, k>>)
    BY <2>1, <1>1, <1>2
  <2> QED BY <2>1, <2>2 DEF Before
<1>4. \A i \in 1 .. n : f[i] # NL => Before(Pos(f, i), <<r, k + 1>>) /\ Before(Pos(f, i), <<r + 1, 0>>)
  BY <1>2, <1>3 DEF Before
<1>5. ASSUME NEW j \in Nat, j >= k PROVE CharAt(f, r, j) = Blank
  <2> SUFFICES ASSUME NEW i, Has(f, r, j, i) PROVE FALSE
    BY CharFacts
  <2>1. i \in 1 .. Len(f) /\ f[i] # NL /\ LineOf(f, i) = r /\ PlaceOf(f, i) = j /\ Len(f) \in Nat
    BY DEF Has, Pos, IsFile
  <2>2. CASE i \in 1 .. n
    BY <2>1, <2>2, <1>3, <1>5
  <2>3. CASE ~(i \in 1 .. n)
    <3>1. n \in Nat /\ n + 1 \in Nat \ {0} /\ i \in Nat \ {0} /\ ~eof /\ n + 1 <= i
      BY <2>1, <2>3, <1>1
    <3>2. LineOf(f, n + 1) = r + 1
      BY <3>1, <1>1 DEF Pos
    <3>3. CASE i = n + 1
      BY <3>2, <3>3, <2>1
    <3>4. CASE n + 1 < i
      <4>1. Before(Pos(f, n + 1), Pos(f, i))
        BY <3>1, <3>4, PlacesInOrder
      <4> QED BY <4>1, <3>2, <2>1 DEF Before, Pos
    <3> QED BY <3>1, <3>3, <3>4
  <2> QED BY <2>2, <2>3
<1>6. InStep(f, NL, n, eof, r, k + 1)
  BY <1>1, <1>4 DEF InStep
<1>7. InStep(f, IF eof THEN NL ELSE Blank, n, eof, r + 1, 0)
  <2>1. CASE eof
    BY <2>1, <1>1, <1>4 DEF InStep
  <2>2. CASE ~eof
    BY <2>2, <1>1, <1>4, FishAssumption DEF InStep
  <2> QED BY <2>1, <2>2
<1> QED BY <1>5, <1>6, <1>7


(* A byte of a file at the most is read for each place of the scan, and it *)
(* is the character the picture has there.                                 *)
LEMMA ReadInStep ==
    ASSUME NEW f, IsFile(f), NEW c, NEW n, NEW eof, NEW r \in Nat, NEW k \in Nat,
           InStep(f, c, n, eof, r, k), NEW a, a = ReadByte(f, c, n, eof)
    PROVE  /\ Shown(a.c) = CharAt(f, r, k)
           /\ InStep(f, a.c, a.n, a.eof, r, k + 1)
           /\ a.c = NL => /\ \A j \in Nat : j >= k => CharAt(f, r, j) = Blank
                          /\ InStep(f, IF a.eof THEN NL ELSE Blank, a.n, a.eof, r + 1, 0)
<1>1. /\ n \in 0 .. Len(f) /\ eof \in BOOLEAN /\ Len(f) \in Nat
      /\ \A i \in 1 .. n : f[i] # NL => Before(Pos(f, i), <<r, k>>)
      /\ eof => n = Len(f) /\ c = NL
      /\ ~eof => Pos(f, n + 1) = IF c = NL THEN <<r + 1, 0>> ELSE <<r, k>>
  BY DEF InStep, IsFile
<1>2. ASSUME a.c = NL, InStep(f, NL, a.n, a.eof, r, k)
      PROVE  /\ Shown(a.c) = CharAt(f, r, k)
             /\ InStep(f, a.c, a.n, a.eof, r, k + 1)
             /\ \A j \in Nat : j >= k => CharAt(f, r, j) = Blank
             /\ InStep(f, IF a.eof THEN NL ELSE Blank, a.n, a.eof, r + 1, 0)
  <2>1. /\ \A j \in Nat : j >= k => CharAt(f, r, j) = Blank
        /\ InStep(f, NL, a.n, a.eof, r, k + 1)
        /\ InStep(f, IF a.eof THEN NL ELSE Blank, a.n, a.eof, r + 1, 0)
    BY <1>2, HeldBack
  <2>2. CharAt(f, r, k) = Blank
    BY <2>1
  <2> QED BY <1>2, <2>1, <2>2 DEF Shown
<1>3. CASE c = NL
  <2>1. a.c = NL /\ a.n = n /\ a.eof = eof
    BY <1>3 DEF ReadByte
  <2> QED BY <1>2, <1>3, <2>1
<1>4. CASE c # NL /\ ~(n < Len(f))
  <2>1. a.c = NL /\ a.n = n /\ a.eof = TRUE
    BY <1>4 DEF ReadByte
  <2>2. n = Len(f)
    BY <1>1, <1>4
  <2>3. InStep(f, NL, n, TRUE, r, k)
    BY <1>1, <2>2 DEF InStep
  <2> QED BY <1>2, <2>1, <2>3
<1>5. CASE c # NL /\ n < Len(f)
  <2>1. a.c = f[n + 1] /\ a.n = n + 1 /\ a.eof = eof
    BY <1>5 DEF ReadByte
  <2>2. ~eof /\ Pos(f, n + 1) = <<r, k>> /\ n + 1 \in 1 .. Len(f) /\ n + 1 \in Nat \ {0}
        /\ n + 1 \in 0 .. Len(f) /\ eof = FALSE
    BY <1>1, <1>5
  <2>3. LineOf(f, n + 1) = r /\ PlaceOf(f, n + 1) = k
    BY <2>2 DEF Pos
  <2>4. /\ f[n + 1] = NL => LineOf(f, (n + 1) + 1) = r + 1 /\ PlaceOf(f, (n + 1) + 1) = 0
        /\ f[n + 1] # NL => LineOf(f, (n + 1) + 1) = r /\ PlaceOf(f, (n + 1) + 1) = k + 1
    BY <2>2, <2>3, PlaceFacts
  <2>5. \A i \in 1 .. n + 1 : i \in 1 .. n \/ i = n + 1
    BY <1>1
  <2>6. CASE f[n + 1] = NL
    <3>1. Pos(f, (n + 1) + 1) = <<r + 1, 0>>
      BY <2>4, <2>6 DEF Pos
    <3>2. \A i \in 1 .. n + 1 : f[i] # NL => Before(Pos(f, i), <<r, k>>)
      BY <1>1, <2>5, <2>6
    <3>3. InStep(f, NL, n + 1, FALSE, r, k)
      BY <2>2, <3>1, <3>2 DEF InStep
    <3> QED BY <1>2, <2>1, <2>2, <2>6, <3>3
  <2>7. CASE f[n + 1] # NL
    <3>1. Pos(f, (n + 1) + 1) = <<r, k + 1>>
      BY <2>4, <2>7 DEF Pos
    <3>2. ASSUME NEW i \in 1 .. n + 1, f[i] # NL PROVE Before(Pos(f, i), <<r, k + 1>>)
      <4>1. CASE i = n + 1
        BY <4>1, <2>2 DEF Before
      <4>2. CASE i \in 1 .. n
        <5>1. Before(Pos(f, i), <<r, k>>) /\ Before(<<r, k>>, <<r, k + 1>>)
          BY <4>2, <3>2, <1>1 DEF Before
        <5>2. Pos(f, i) \in Nat \X Nat /\ <<r, k>> \in Nat \X Nat /\ <<r, k + 1>> \in Nat \X Nat
          BY <4>2, PosIn
        <5> QED BY <5>1, <5>2, Transitive
      <4> QED BY <4>1, <4>2, <2>5, <3>2
    <3>3. InStep(f, f[n + 1], n + 1, FALSE, r, k + 1)
      BY <2>2, <2>7, <3>1, <3>2 DEF InStep
    <3>4. Has(f, r, k, n + 1)
      BY <2>2, <2>7 DEF Has
    <3>5. CharAt(f, r, k) = f[n + 1]
      BY <3>4, CharFacts
    <3>6. Shown(a.c) = CharAt(f, r, k)
      BY <3>5, <2>1, <2>7 DEF Shown
    <3> QED BY <3>3, <3>6, <2>1, <2>2, <2>7
  <2> QED BY <2>6, <2>7
<1> QED BY <1>3, <1>4, <1>5

(* A character is at one of the first rows and columns.                    *)
LEMMA CharInSize ==
    ASSUME NEW f, IsFile(f), NEW r, NEW k, CharAt(f, r, k) # Blank
    PROVE  /\ r \in 0 .. Len(f) /\ k \in 0 .. Len(f)
           /\ \E i \in 1 .. Len(f) : f[i] # NL /\ Pos(f, i) = <<r, k>>
<1>1. PICK i : Has(f, r, k, i)
  BY CharFacts
<1>2. i \in 1 .. Len(f) /\ f[i] # NL /\ Pos(f, i) = <<r, k>> /\ Len(f) \in Nat
  BY <1>1 DEF Has, IsFile
<1>3. LineOf(f, i) = r /\ PlaceOf(f, i) = k
  BY <1>2 DEF Pos
<1>4. i \in Nat \ {0} /\ i - 1 <= Len(f)
  BY <1>2
<1>5. r \in 0 .. i - 1 /\ k \in 0 .. i - 1
  BY <1>3, <1>4, PlaceFacts
<1> QED BY <1>2, <1>4, <1>5

-----------------------------------------------------------------------------
(* The places of two pictures *)

(* There are finitely many places in two pictures.                         *)
LEMMA PlacesFinite ==
    ASSUME NEW f0, NEW f1, IsFile(f0), IsFile(f1), NEW P, P \subseteq Places(f0, f1)
    PROVE  IsFiniteSet(P) /\ Cardinality(P) \in Nat /\ Cardinality(P) <= Cardinality(Places(f0, f1))
<1>1. PICK n \in Nat : n = Len(f0) + Len(f1)
  BY DEF IsFile
<1>2. IsFiniteSet((0 .. n) \X (0 .. n))
  <2>1. IsFiniteSet(0 .. n)
    BY FS_Interval
  <2> QED BY <2>1, FS_Product
<1>3. Places(f0, f1) \in SUBSET ((0 .. n) \X (0 .. n))
  BY <1>1 DEF Places
<1>4. IsFiniteSet(Places(f0, f1))
  BY <1>2, <1>3, FS_Subset
<1>5. IsFiniteSet(P) /\ Cardinality(P) <= Cardinality(Places(f0, f1))
  BY <1>4, FS_Subset
<1> QED BY <1>5, FS_CardinalityType

(* A place counts when a picture has a character there and it is on the    *)
(* screen.                                                                 *)
LEMMA InPlaces ==
    ASSUME NEW f0, NEW f1, IsFile(f0), IsFile(f1), NEW r, NEW k
    PROVE  /\ <<r, k>> \in Places(f0, f1) <=>
                /\ {CharAt(f0, r, k), CharAt(f1, r, k)} # {Blank}
                /\ r * Columns + k + Offset < Cells
<1>1. PICK n \in Nat : n = Len(f0) + Len(f1)
  BY DEF IsFile
<1>2. <<r, k>> \in Places(f0, f1) <=>
        /\ <<r, k>> \in (0 .. n) \X (0 .. n)
        /\ {CharAt(f0, r, k), CharAt(f1, r, k)} # {Blank}
        /\ r * Columns + k + Offset < Cells
  BY <1>1 DEF Places
<1>3. Len(f0) \in Nat /\ Len(f1) \in Nat
  BY DEF IsFile
<1>4. ASSUME {CharAt(f0, r, k), CharAt(f1, r, k)} # {Blank} PROVE <<r, k>> \in (0 .. n) \X (0 .. n)
  <2>1. \/ r \in 0 .. Len(f0) /\ k \in 0 .. Len(f0)
        \/ r \in 0 .. Len(f1) /\ k \in 0 .. Len(f1)
    <3>1. CharAt(f0, r, k) # Blank \/ CharAt(f1, r, k) # Blank
      BY <1>4
    <3> QED BY <3>1, CharInSize
  <2> QED BY <2>1, <1>1, <1>3
<1> QED BY <1>2, <1>4

(* Places are pairs of numbers.                                            *)
LEMMA ArePairs ==
    ASSUME NEW f0, NEW f1, IsFile(f0), IsFile(f1), NEW p \in Places(f0, f1)
    PROVE  p = <<p[1], p[2]>> /\ p[1] \in Nat /\ p[2] \in Nat
<1>1. PICK n \in Nat : n = Len(f0) + Len(f1)
  BY DEF IsFile
<1>2. p \in (0 .. n) \X (0 .. n)
  BY <1>1 DEF Places
<1> QED BY <1>2

(* The next place, the end of a row and the end of the files.              *)
LEMMA PlacedNext ==
    ASSUME NEW f0, NEW f1, IsFile(f0), IsFile(f1), NEW r \in Nat, NEW k \in Nat
    PROVE  /\ <<r, k>> \notin Placed(f0, f1, r, k)
           /\ <<r, k>> \in Places(f0, f1) =>
                Placed(f0, f1, r, k + 1) = Placed(f0, f1, r, k) \cup {<<r, k>>}
           /\ <<r, k>> \notin Places(f0, f1) => Placed(f0, f1, r, k + 1) = Placed(f0, f1, r, k)
<1>1. \A p \in Places(f0, f1) : Before(p, <<r, k + 1>>) <=> Before(p, <<r, k>>) \/ p = <<r, k>>
  <2> TAKE p \in Places(f0, f1)
  <2>1. p = <<p[1], p[2]>> /\ p[1] \in Nat /\ p[2] \in Nat
    BY ArePairs
  <2> QED BY <2>1 DEF Before
<1>2. ~Before(<<r, k>>, <<r, k>>)
  BY DEF Before
<1> QED BY <1>1, <1>2 DEF Placed

(* At the end of a row nothing in it is left.                              *)
LEMMA PlacedRow ==
    ASSUME NEW f0, NEW f1, IsFile(f0), IsFile(f1), NEW r \in Nat, NEW k \in Nat,
           \A j \in Nat : j >= k => CharAt(f0, r, j) = Blank /\ CharAt(f1, r, j) = Blank
    PROVE  Placed(f0, f1, r + 1, 0) = Placed(f0, f1, r, k)
<1>1. ASSUME NEW p \in Places(f0, f1) PROVE Before(p, <<r + 1, 0>>) <=> Before(p, <<r, k>>)
  <2>1. PICK a \in Nat, b \in Nat : p = <<a, b>>
    BY ArePairs
  <2>2. {CharAt(f0, a, b), CharAt(f1, a, b)} # {Blank}
    BY <2>1, InPlaces
  <2>3. ~(a = r /\ b >= k)
    BY <2>2
  <2> QED BY <2>1, <2>3 DEF Before
<1> QED BY <1>1 DEF Placed

(* At the end of both files nothing at all is left.                        *)
LEMMA PlacedAll ==
    ASSUME NEW f0, NEW f1, IsFile(f0), IsFile(f1), NEW r \in Nat, NEW k \in Nat,
           NEW n, NEW m, InStep(f0, NL, n, TRUE, r, k), InStep(f1, NL, m, TRUE, r, k)
    PROVE  Placed(f0, f1, r, k) = Places(f0, f1)
<1>1. /\ \A i \in 1 .. Len(f0) : f0[i] # NL => Before(Pos(f0, i), <<r, k>>)
      /\ \A i \in 1 .. Len(f1) : f1[i] # NL => Before(Pos(f1, i), <<r, k>>)
  BY DEF InStep
<1>2. ASSUME NEW p \in Places(f0, f1) PROVE Before(p, <<r, k>>)
  <2>1. PICK a \in Nat, b \in Nat : p = <<a, b>>
    BY ArePairs
  <2>2. CharAt(f0, a, b) # Blank \/ CharAt(f1, a, b) # Blank
    <3>1. {CharAt(f0, a, b), CharAt(f1, a, b)} # {Blank}
      BY <2>1, InPlaces
    <3> QED BY <3>1
  <2> QED BY <1>1, <2>1, <2>2, CharInSize
<1> QED BY <1>2 DEF Placed


-----------------------------------------------------------------------------
(* The list of the pictures *)

(* A blink on the screen is put in front of a list that is not full.       *)
LEMMA AddFits ==
    ASSUME BlinkInv, NEW b, Asks(b), b.location < Cells, mp1_ioctl_add(b),
           NEW n \in Nat, n < Slots, Blinks = [i \in 1 .. n |-> Blinks[i]]
    PROVE  Blinks' = [i \in 1 .. n + 1 |-> IF i = 1 THEN Promised!Lit(b) ELSE Blinks[i - 1]]
<1>1. n = Len(Listed)
  <2>1. PICK m \in Nat : m = Len(Listed) /\ DOMAIN Blinks = 1 .. m
    BY BlinkFacts
  <2>2. 1 .. n = 1 .. m
    BY <2>1
  <2>3. n = m
    BY <2>2
  <2> QED BY <2>1, <2>3
<1>2. mp1_malloc # NULL
  BY <1>1, FullWhenRefused, SlotsAssumption
<1>3. result' = Done
  BY <1>2 DEF mp1_ioctl_add
<1>4. Done # Promised!Failed
  BY DEF Done, Promised!Failed
<1>5. b.location \in Nat \ {0} /\ {b.on_length, b.off_length} \subseteq 0 .. Word - 1
  BY DEF Asks
<1>6. Blinks' = <<Promised!Lit(b)>> \o Blinks
  BY <1>3, <1>4, <1>5, AddStep DEF Promised!Add
<1>7. PICK x : x = Promised!Lit(b)
  OBVIOUS
<1> QED BY <1>6, <1>7, PushedFunction

(* One that is not on the screen is refused.                               *)
LEMMA AddRefused ==
    ASSUME BlinkInv, NEW b, ~(b.location < Cells), mp1_ioctl_add(b)
    PROVE  Blinks' = Blinks
<1>1. UNCHANGED <<blink_array, mp1_list_head, vmem, smudged>>
  BY DEF mp1_ioctl_add
<1> QED BY <1>1, StutterStep

(* One more blink, for one more place.                                     *)
LEMMA HeldNext ==
    ASSUME NEW f0, NEW f1, NEW P, IsFiniteSet(P), NEW p, p \notin P, NEW list, Held(list, f0, f1, P),
           NEW x, Drawn(x) = DrawnAt(f0, f1, p), NEW n \in Nat, n = Cardinality(P),
           NEW new, new = [i \in 1 .. n + 1 |-> IF i = 1 THEN x ELSE list[i - 1]]
    PROVE  Held(new, f0, f1, P \cup {p})
<1>1. Cardinality(P \cup {p}) = n + 1 /\ IsFiniteSet(P \cup {p})
  BY FS_AddElement
<1>2. {Drawn(list[i]) : i \in 1 .. n} = {DrawnAt(f0, f1, q) : q \in P}
  BY DEF Held
<1>3. new[1] = x /\ \A i \in 1 .. n : new[i + 1] = list[i]
  OBVIOUS
<1>4. \A i \in 1 .. n + 1 : i = 1 \/ (i - 1 \in 1 .. n /\ (i - 1) + 1 = i)
  OBVIOUS
<1>5. {Drawn(new[i]) : i \in 1 .. n + 1} = {Drawn(list[i]) : i \in 1 .. n} \cup {Drawn(x)}
  <2>1. ASSUME NEW i \in 1 .. n + 1
        PROVE  Drawn(new[i]) \in {Drawn(list[j]) : j \in 1 .. n} \cup {Drawn(x)}
    <3>1. CASE i = 1
      BY <1>3, <3>1
    <3>2. CASE i - 1 \in 1 .. n /\ (i - 1) + 1 = i
      BY <1>3, <3>2
    <3> QED BY <3>1, <3>2, <1>4
  <2>2. ASSUME NEW i \in 1 .. n PROVE Drawn(list[i]) \in {Drawn(new[j]) : j \in 1 .. n + 1}
    <3>1. i + 1 \in 1 .. n + 1
      OBVIOUS
    <3> QED BY <3>1, <1>3
  <2>3. Drawn(x) \in {Drawn(new[j]) : j \in 1 .. n + 1}
    <3>1. 1 \in 1 .. n + 1
      OBVIOUS
    <3> QED BY <3>1, <1>3
  <2> QED BY <2>1, <2>2, <2>3
<1>6. {DrawnAt(f0, f1, q) : q \in P \cup {p}} = {DrawnAt(f0, f1, q) : q \in P} \cup {DrawnAt(f0, f1, p)}
  OBVIOUS
<1>7. new = [i \in 1 .. n + 1 |-> new[i]]
  OBVIOUS
<1> QED BY <1>1, <1>2, <1>5, <1>6, <1>7 DEF Held

(* Blinks that are drawn alike are the same pictures.                      *)
LEMMA HeldSame ==
    ASSUME NEW f0, NEW f1, NEW P, NEW list, Held(list, f0, f1, P),
           NEW new, new = [i \in 1 .. Cardinality(P) |-> new[i]],
           \A i \in 1 .. Cardinality(P) : Drawn(new[i]) = Drawn(list[i])
    PROVE  Held(new, f0, f1, P)
BY DEF Held


(* The next state of the scan.                                             *)
LEMMA AfterIs ==
    ASSUME NEW a, a = ReadByte(file0, scan.c0, scan.read0, scan.eof0),
           NEW b, b = ReadByte(file1, scan.c1, scan.read1, scan.eof1)
    PROVE  /\ After = [c0 |-> a.c, c1 |-> b.c, eof0 |-> a.eof, eof1 |-> b.eof,
                       row |-> scan.row, col |-> scan.col, read0 |-> a.n, read1 |-> b.n]
           /\ After.c0 = a.c /\ After.c1 = b.c /\ After.eof0 = a.eof /\ After.eof1 = b.eof
           /\ After.row = scan.row /\ After.col = scan.col
<1>1. After = [c0 |-> a.c, c1 |-> b.c, eof0 |-> a.eof, eof1 |-> b.eof,
               row |-> scan.row, col |-> scan.col, read0 |-> a.n, read1 |-> b.n]
  BY DEF After
<1> QED BY <1>1

(* The blink added for a column is the one of its place, and there is room *)
(* for it.                                                                 *)
LEMMA ColumnPictures ==
    ASSUME PicturesFit, IInv, PictureInv, Column
    PROVE  PictureInv'
<1>1. /\ ScanInv /\ BlinkInv /\ pc = "frames" /\ pc' = "frames"
      /\ file0' = file0 /\ file1' = file1 /\ scan' = [After EXCEPT !.col = @ + 1]
  BY DEF IInv, Column
<1>2. PICK f0, f1 : f0 = file0 /\ f1 = file1
  OBVIOUS
<1>3. PICK r \in Nat, k \in Nat : r = scan.row /\ k = scan.col
  BY <1>1 DEF ScanInv
<1>4. IsFile(f0) /\ IsFile(f1) /\ Cardinality(Places(f0, f1)) <= Slots
  BY <1>1, <1>2, PicturesAssumption DEF ScanInv, IsFile, PicturesFit
<1>5. PICK a, b : /\ a = ReadByte(f0, scan.c0, scan.read0, scan.eof0)
                  /\ b = ReadByte(f1, scan.c1, scan.read1, scan.eof1)
  OBVIOUS
<1>6. PICK P : P = Placed(f0, f1, r, k)
  OBVIOUS
<1>7. /\ InStep(f0, scan.c0, scan.read0, scan.eof0, r, k)
      /\ InStep(f1, scan.c1, scan.read1, scan.eof1, r, k)
      /\ Held(Blinks, f0, f1, P)
  BY <1>1, <1>2, <1>3, <1>6 DEF PictureInv
<1>8. /\ Shown(a.c) = CharAt(f0, r, k) /\ InStep(f0, a.c, a.n, a.eof, r, k + 1)
      /\ Shown(b.c) = CharAt(f1, r, k) /\ InStep(f1, b.c, b.n, b.eof, r, k + 1)
  BY <1>4, <1>5, <1>7, ReadInStep
<1>9. /\ After = [c0 |-> a.c, c1 |-> b.c, eof0 |-> a.eof, eof1 |-> b.eof,
                  row |-> r, col |-> k, read0 |-> a.n, read1 |-> b.n]
      /\ After.c0 = a.c /\ After.c1 = b.c
  BY <1>2, <1>3, <1>5, AfterIs
<1>10. scan' = [c0 |-> a.c, c1 |-> b.c, eof0 |-> a.eof, eof1 |-> b.eof,
                row |-> r, col |-> k + 1, read0 |-> a.n, read1 |-> b.n]
  BY <1>1, <1>9
<1>11. IsFiniteSet(P) /\ Cardinality(P) \in Nat
  BY <1>4, <1>6, PlacesFinite DEF Placed
<1>12. <<r, k>> \notin P
  BY <1>4, <1>6, PlacedNext
<1>13. Held(Blinks', f0, f1, Placed(f0, f1, r, k + 1))
  <2>1. CASE {a.c, b.c} \subseteq {Blank, NL}
    <3>1. UNCHANGED blinkVars
      BY <2>1, <1>9 DEF Column
    <3>2. Blinks' = Blinks
      BY <3>1, <1>1, StutterStep DEF blinkVars
    <3>3. CharAt(f0, r, k) = Blank /\ CharAt(f1, r, k) = Blank
      BY <2>1, <1>8 DEF Shown
    <3>4. <<r, k>> \notin Places(f0, f1)
      BY <3>3, <1>4, InPlaces
    <3>5. Placed(f0, f1, r, k + 1) = P
      BY <3>4, <1>4, <1>6, PlacedNext
    <3> QED BY <3>2, <3>5, <1>7
  <2>2. CASE ~({a.c, b.c} \subseteq {Blank, NL})
    <3>1. PICK x : x = FrameBlink(After)
      OBVIOUS
    <3>2. mp1_ioctl_add(x) /\ Asks(x)
      BY <2>2, <3>1, <1>1, <1>9, FrameBlinkFacts DEF Column
    <3>3. /\ x.location = r * Columns + k + Offset
          /\ x.on_char = CharAt(f0, r, k) /\ x.off_char = CharAt(f1, r, k)
      <4>1. x = [location |-> r * Columns + k + Offset, on_char |-> Shown(a.c),
                 off_char |-> Shown(b.c), on_length |-> FrameLength, off_length |-> FrameLength]
        BY <3>1, <1>9 DEF FrameBlink
      <4> QED BY <4>1, <1>8
    <3>4. {CharAt(f0, r, k), CharAt(f1, r, k)} # {Blank}
      BY <2>2, <1>8 DEF Shown
    <3>5. CASE x.location < Cells
      <4>1. <<r, k>> \in Places(f0, f1)
        BY <3>3, <3>4, <3>5, <1>4, InPlaces
      <4>2. Placed(f0, f1, r, k + 1) = P \cup {<<r, k>>}
        BY <4>1, <1>4, <1>6, PlacedNext
      <4>3. PICK n \in Nat : n = Cardinality(P)
        BY <1>11
      <4>4. n < Slots
        <5>1. PICK Q : Q = P \cup {<<r, k>>}
          OBVIOUS
        <5>2. Q \subseteq Places(f0, f1)
          BY <4>1, <5>1, <1>6 DEF Placed
        <5>3. Cardinality(Q) = n + 1
          BY <4>3, <5>1, <1>11, <1>12, FS_AddElement
        <5>4. Cardinality(Q) <= Cardinality(Places(f0, f1)) /\ Cardinality(Places(f0, f1)) \in Nat
          BY <5>2, <1>4, PlacesFinite
        <5> QED BY <5>3, <5>4, <1>4, SlotsAssumption
      <4>5. Blinks = [i \in 1 .. n |-> Blinks[i]]
        BY <4>3, <1>7 DEF Held
      <4>6. PICK y : y = Promised!Lit(x)
        OBVIOUS
      <4>7. Blinks' = [i \in 1 .. n + 1 |-> IF i = 1 THEN y ELSE Blinks[i - 1]]
        <5>1. /\ BlinkInv /\ mp1_ioctl_add(x) /\ Asks(x) /\ x.location < Cells
              /\ n \in Nat /\ n < Slots /\ Blinks = [i \in 1 .. n |-> Blinks[i]]
          BY <4>4, <4>5, <3>2, <3>5, <1>1
        <5>2. Blinks' = [i \in 1 .. n + 1 |-> IF i = 1 THEN Promised!Lit(x) ELSE Blinks[i - 1]]
          BY ONLY <5>1, AddFits
        <5> QED BY <5>2, <4>6
      <4>8. Drawn(y) = DrawnAt(f0, f1, <<r, k>>)
        BY <4>6, <3>3 DEF Drawn, DrawnAt, Promised!Lit
      <4>9. PICK new, old : new = Blinks' /\ old = Blinks
        OBVIOUS
      <4>10. Held(new, f0, f1, P \cup {<<r, k>>})
        BY <4>3, <4>7, <4>8, <4>9, <1>7, <1>11, <1>12, HeldNext
      <4> QED BY <4>2, <4>9, <4>10
    <3>6. CASE ~(x.location < Cells)
      <4>1. <<r, k>> \notin Places(f0, f1)
        BY <3>3, <3>6, <1>4, InPlaces
      <4>2. Placed(f0, f1, r, k + 1) = P
        BY <4>1, <1>4, <1>6, PlacedNext
      <4>3. Blinks' = Blinks
        BY <3>2, <3>6, <1>1, AddRefused
      <4> QED BY <4>2, <4>3, <1>7
    <3> QED BY <3>5, <3>6
  <2> QED BY <2>1, <2>2
<1> QED BY <1>1, <1>2, <1>8, <1>10, <1>13 DEF PictureInv

(* The end of a row, and the end of both files.                            *)
LEMMA EndOfRowPictures ==
    ASSUME IInv, PictureInv, EndOfRow
    PROVE  PictureInv'
<1>1. /\ ScanInv /\ BlinkInv /\ pc = "frames" /\ After.c0 = NL /\ After.c1 = NL
      /\ file0' = file0 /\ file1' = file1 /\ UNCHANGED blinkVars
      /\ IF After.eof0 /\ After.eof1 THEN pc' = "shown" ELSE pc' = pc
  BY DEF IInv, EndOfRow
<1>2. PICK f0, f1 : f0 = file0 /\ f1 = file1
  OBVIOUS
<1>3. PICK r \in Nat, k \in Nat : r = scan.row /\ k = scan.col
  BY <1>1 DEF ScanInv
<1>4. IsFile(f0) /\ IsFile(f1)
  BY <1>1, <1>2, PicturesAssumption DEF ScanInv, IsFile
<1>5. PICK a, b : /\ a = ReadByte(f0, scan.c0, scan.read0, scan.eof0)
                  /\ b = ReadByte(f1, scan.c1, scan.read1, scan.eof1)
  OBVIOUS
<1>6. /\ InStep(f0, scan.c0, scan.read0, scan.eof0, r, k)
      /\ InStep(f1, scan.c1, scan.read1, scan.eof1, r, k)
      /\ Held(Blinks, f0, f1, Placed(f0, f1, r, k))
  BY <1>1, <1>2, <1>3 DEF PictureInv
<1>7. After.c0 = a.c /\ After.c1 = b.c /\ After.eof0 = a.eof /\ After.eof1 = b.eof
      /\ After.read0 = a.n /\ After.read1 = b.n
  <2>1. After = [c0 |-> a.c, c1 |-> b.c, eof0 |-> a.eof, eof1 |-> b.eof,
                 row |-> scan.row, col |-> scan.col, read0 |-> a.n, read1 |-> b.n]
    BY <1>2, <1>5, AfterIs
  <2> QED BY <2>1
<1>8. a.c = NL /\ b.c = NL
  BY <1>1, <1>7
<1>9. PICK c, d : c = (IF a.eof THEN NL ELSE Blank) /\ d = (IF b.eof THEN NL ELSE Blank)
  OBVIOUS
<1>10. /\ \A j \in Nat : j >= k => CharAt(f0, r, j) = Blank
       /\ InStep(f0, c, a.n, a.eof, r + 1, 0)
  BY <1>4, <1>5, <1>6, <1>8, <1>9, ReadInStep
<1>11. /\ \A j \in Nat : j >= k => CharAt(f1, r, j) = Blank
       /\ InStep(f1, d, b.n, b.eof, r + 1, 0)
  BY <1>4, <1>5, <1>6, <1>8, <1>9, ReadInStep
<1>12. Placed(f0, f1, r + 1, 0) = Placed(f0, f1, r, k)
  BY <1>4, <1>10, <1>11, PlacedRow
<1>13. Held(Blinks', f0, f1, Placed(f0, f1, r + 1, 0))
  <2>1. Blinks' = Blinks
    BY <1>1, StutterStep DEF blinkVars
  <2> QED BY <2>1, <1>6, <1>12
<1>14. /\ scan'.row = r + 1 /\ scan'.col = 0 /\ scan'.c0 = c /\ scan'.c1 = d
       /\ scan'.eof0 = a.eof /\ scan'.eof1 = b.eof /\ scan'.read0 = a.n /\ scan'.read1 = b.n
  BY <1>1, <1>3, <1>7, <1>9, RowScan
<1>15. CASE pc' = "frames"
  BY <1>1, <1>2, <1>10, <1>11, <1>13, <1>14, <1>15 DEF PictureInv
<1>16. CASE pc' = "shown"
  <2>1. a.eof /\ b.eof
    BY <1>1, <1>7, <1>16
  <2>2. a.eof = TRUE /\ b.eof = TRUE /\ c = NL /\ d = NL
    BY <2>1, <1>9, <1>10, <1>11 DEF InStep
  <2>3. Placed(f0, f1, r + 1, 0) = Places(f0, f1)
    <3>0. PICK q \in Nat, z \in Nat : q = r + 1 /\ z = 0
      OBVIOUS
    <3>1. PICK n, m : n = a.n /\ m = b.n
      OBVIOUS
    <3>2. InStep(f0, NL, n, TRUE, q, z)
      BY <2>2, <3>0, <3>1, <1>10
    <3>3. InStep(f1, NL, m, TRUE, q, z)
      BY <2>2, <3>0, <3>1, <1>11
    <3>4. Placed(f0, f1, q, z) = Places(f0, f1)
      BY <3>2, <3>3, <1>4, PlacedAll
    <3> QED BY <3>0, <3>4
  <2> QED BY <2>3, <1>1, <1>2, <1>13, <1>16 DEF PictureInv
<1> QED BY <1>1, <1>15, <1>16

(* A tick changes the phase of what is held, and nothing that is drawn.    *)
LEMMA TickHolds ==
    ASSUME BlinkInv, mp1_rtc_tasklet, NEW f0, NEW f1, NEW P, Held(Blinks, f0, f1, P)
    PROVE  Held(Blinks', f0, f1, P)
<1>1. Blinks' = [k \in DOMAIN Blinks |-> Promised!Aged(Blinks[k])]
  BY TickStep DEF Promised!Tick
<1>2. PICK n \in Nat : n = Cardinality(P)
  BY FS_CardinalityType DEF Held
<1>3. Blinks = [i \in 1 .. n |-> Blinks[i]]
  BY <1>2 DEF Held
<1>4. DOMAIN Blinks = 1 .. n
  BY <1>3
<1>5. PICK m \in Nat : m = Len(Listed) /\ DOMAIN Blinks = 1 .. m
                       /\ \A i \in 1 .. m : Blinks[i] = View(blink_array[Listed[i]])
  BY BlinkFacts
<1>6. ASSUME NEW i \in 1 .. n PROVE Drawn(Promised!Aged(Blinks[i])) = Drawn(Blinks[i])
  <2>1. PICK e : Blinks[i] = View(e)
    BY <1>4, <1>5, <1>6
  <2>2. PICK x, c, s, t :
            /\ x = View(e) /\ Promised!Aged(x) = IF t THEN [x EXCEPT !.countdown = c]
                                                 ELSE [x EXCEPT !.countdown = c, !.status = s]
    <3>1. PICK c, t : c = (View(e).countdown - 1) % Word /\ t = Promised!Positive(c)
      OBVIOUS
    <3>2. CASE t
      BY <3>1, <3>2 DEF Promised!Aged
    <3>3. CASE ~t
      BY <3>1, <3>3 DEF Promised!Aged
    <3> QED BY <3>2, <3>3
  <2>3. Drawn(Promised!Aged(x)) = Drawn(x)
    BY <2>2 DEF Drawn, View
  <2> QED BY <2>1, <2>2, <2>3
<1>7. PICK old, new : old = Blinks /\ new = Blinks'
  OBVIOUS
<1>8. new = [i \in 1 .. n |-> Promised!Aged(old[i])]
  BY <1>1, <1>4, <1>7
<1>9. new = [i \in 1 .. n |-> new[i]] /\ \A i \in 1 .. n : new[i] = Promised!Aged(old[i])
  BY <1>8
<1>10. \A i \in 1 .. n : Drawn(new[i]) = Drawn(old[i])
  BY <1>6, <1>7, <1>9
<1>11. Held(new, f0, f1, P)
  BY <1>2, <1>7, <1>9, <1>10, HeldSame
<1> QED BY <1>7, <1>11

(* Before a byte is read nothing is shown.                                 *)
LEMMA InitPictures == Init => PictureInv
<1> SUFFICES ASSUME Init PROVE PictureInv
  OBVIOUS
<1>1. /\ scan = Start /\ pc # "shown"
      /\ pc = "frames" => file0 \in Pictures0 /\ file1 \in Pictures1
  BY DEF Init
<1>2. scan.c0 = Blank /\ scan.c1 = Blank /\ scan.eof0 = FALSE /\ scan.eof1 = FALSE
      /\ scan.row = 0 /\ scan.col = 0 /\ scan.read0 = 0 /\ scan.read1 = 0
  BY <1>1 DEF Start
<1>3. Blinks = <<>>
  BY InitStep DEF Promised!Init
<1>4. ASSUME NEW f, IsFile(f) PROVE InStep(f, Blank, 0, FALSE, 0, 0)
  <2>1. LineOf(f, 1) \in 0 .. 1 - 1 /\ PlaceOf(f, 1) \in 0 .. 1 - 1
    BY PlaceFacts
  <2>2. Pos(f, 0 + 1) = <<0, 0>>
    BY <2>1 DEF Pos
  <2>3. 0 \in 0 .. Len(f) /\ Blank # NL
    BY <1>4, FishAssumption DEF IsFile
  <2> QED BY <2>2, <2>3 DEF InStep
<1>5. CASE pc = "frames"
  <2>1. PICK f0, f1 : f0 = file0 /\ f1 = file1
    OBVIOUS
  <2>2. IsFile(f0) /\ IsFile(f1)
    BY <1>1, <1>5, <2>1, PicturesAssumption DEF IsFile
  <2>3. Placed(f0, f1, 0, 0) = {}
    <3>1. ASSUME NEW p \in Places(f0, f1) PROVE ~Before(p, <<0, 0>>)
      BY <2>2, ArePairs DEF Before
    <3> QED BY <3>1 DEF Placed
  <2>4. Held(Blinks, f0, f1, {})
    <3>1. Cardinality({}) = 0 /\ 1 .. 0 = {} /\ IsFiniteSet({})
      BY FS_EmptySet
    <3>2. <<>> = [i \in 1 .. 0 |-> Blinks[i]]
      OBVIOUS
    <3> QED BY <3>1, <3>2, <1>3 DEF Held
  <2> QED BY <1>2, <1>4, <1>5, <2>1, <2>2, <2>3, <2>4 DEF PictureInv
<1>6. CASE pc # "frames"
  BY <1>1, <1>6 DEF PictureInv
<1> QED BY <1>5, <1>6

(* No step, of the program or a caller, breaks the invariant of the        *)
(* pictures.                                                               *)
LEMMA PictureStep ==
    ASSUME PicturesFit, IInv, PictureInv, [Next]_vars
    PROVE  PictureInv'
<1>1. BlinkInv /\ ScanInv
  BY DEF IInv
<1>2. CASE Column
  BY <1>2, ColumnPictures
<1>3. CASE EndOfRow
  BY <1>3, EndOfRowPictures
<1>4. CASE Tick
  <2>1. pc' = pc /\ file0' = file0 /\ file1' = file1 /\ mp1_rtc_tasklet /\ pc # "frames"
    BY <1>4 DEF Tick
  <2>2. ASSUME pc = "shown" PROVE Held(Blinks', file0, file1, Places(file0, file1))
    <3>1. PICK f0, f1 : f0 = file0 /\ f1 = file1
      OBVIOUS
    <3>2. Held(Blinks, f0, f1, Places(f0, f1))
      BY <2>2, <3>1 DEF PictureInv
    <3> QED BY <2>1, <3>1, <3>2, <1>1, TickHolds
  <2> QED BY <2>1, <2>2 DEF PictureInv
<1>5. CASE AddExtra
  BY <1>5 DEF AddExtra, PictureInv
<1>6. CASE SyncExtra
  BY <1>6 DEF SyncExtra, PictureInv
<1>7. CASE RemoveAnother
  BY <1>7 DEF RemoveAnother, PictureInv
<1>8. CASE CallerCalls
  BY <1>8 DEF CallerCalls, PictureInv
<1>9. CASE UNCHANGED vars
  <2>1. /\ pc' = pc /\ file0' = file0 /\ file1' = file1 /\ scan' = scan
        /\ UNCHANGED <<blink_array, mp1_list_head, vmem, smudged>>
    BY <1>9 DEF vars, blinkVars
  <2>2. Blinks' = Blinks
    BY <2>1, <1>1, StutterStep
  <2> QED BY <2>1, <2>2 DEF PictureInv
<1> QED BY <1>2, <1>3, <1>4, <1>5, <1>6, <1>7, <1>8, <1>9 DEF Next, Finished

(* Blinks that are held are the pictures.                                  *)
LEMMA HeldIsShown ==
    ASSUME BlinkInv, NEW P, P = Places(file0, file1), Held(Blinks, file0, file1, P)
    PROVE  {<<b.location, b.on_char, b.off_char>> : b \in {blink_array[e] : e \in Range(Listed)}}
               = PictureBlinks
<1>1. PICK n \in Nat : n = Cardinality(P)
  BY FS_CardinalityType DEF Held
<1>2. Blinks = [i \in 1 .. n |-> Blinks[i]]
      /\ {Drawn(Blinks[i]) : i \in 1 .. n} = {DrawnAt(file0, file1, p) : p \in P}
  BY <1>1 DEF Held
<1>3. PICK m \in Nat : /\ DOMAIN Blinks = 1 .. m /\ DOMAIN Listed = 1 .. m
                       /\ \A i \in 1 .. m : Blinks[i] = View(blink_array[Listed[i]])
  BY BlinkFacts
<1>4. 1 .. n = 1 .. m
  BY <1>2, <1>3
<1>5. PICK s, arr : s = Listed /\ arr = blink_array
  OBVIOUS
<1>6. \A i \in 1 .. n : Drawn(Blinks[i]) = <<arr[s[i]].location, arr[s[i]].on_char, arr[s[i]].off_char>>
  BY <1>3, <1>4, <1>5 DEF Drawn, View
<1>7. Range(s) = {s[i] : i \in 1 .. n}
  BY <1>3, <1>4, <1>5 DEF Range
<1>8. {<<b.location, b.on_char, b.off_char>> : b \in {arr[e] : e \in Range(s)}}
        = {Drawn(Blinks[i]) : i \in 1 .. n}
  BY <1>6, <1>7
<1>9. {DrawnAt(file0, file1, p) : p \in P} = PictureBlinks
  BY DEF DrawnAt, PictureBlinks
<1> QED BY <1>2, <1>5, <1>8, <1>9

-----------------------------------------------------------------------------
(* The theorems *)

(* The invariant holds in every state that is reached: the pointers of the *)
(* array make a list of the elements in use (blink.S, fish.c:137-178).     *)
THEOREM Invariance ==
    ASSUME NobodyAsksForZero
    PROVE  Spec => []IInv
<1>1. Init => IInv
  BY InitStep
<1>2. IInv /\ [Next]_vars => IInv'
  BY NextStep
<1> QED BY <1>1, <1>2, PTL DEF Spec

(* Every variable has its type: countdowns stay 16 bits wide, locations on *)
(* the screen and pointers in the array.                                   *)
THEOREM TypeCorrect ==
    ASSUME NobodyAsksForZero
    PROVE  Spec => []TypeOK
<1>1. IInv => TypeOK
  <2> SUFFICES ASSUME IInv PROVE TypeOK
    OBVIOUS
  <2>1. mp1_list_head \in 0 .. Slots
    BY BlinkFacts, SlotsAssumption DEF IInv, BlinkInv, Linked, NULL
  <2>2. \A e \in 1 .. Slots : IsElement(blink_array[e])
    BY DEF IInv, BlinkInv, IsArray
  <2>3. BlinkTypeOK
    BY <2>1, <2>2 DEF BlinkTypeOK, IsElement, IInv, RestOK
  <2> QED BY <2>3 DEF TypeOK, IInv, ScanInv, RestOK
<1> QED BY <1>1, Invariance, PTL

(* The list ends, and meets each element in use once and no free one.      *)
THEOREM ListIsWhatIsInUseSafe ==
    ASSUME NobodyAsksForZero
    PROVE  Spec => []ListIsWhatIsInUse
<1>1. IInv => ListIsWhatIsInUse
  <2> SUFFICES ASSUME BlinkInv PROVE ListIsWhatIsInUse
    BY DEF IInv
  <2>1. Ends
    BY DEF BlinkInv
  <2> QED BY <2>1, ListIsUsed DEF ListIsWhatIsInUse, Used
<1> QED BY <1>1, Invariance, PTL

(* The screen shows the phase of each blink that is alone at its place and *)
(* was not synced while lit.                                               *)
THEOREM ShowsPhaseSafe ==
    ASSUME NobodyAsksForZero
    PROVE  Spec => []ShowsPhase
<1>1. IInv => ShowsPhase
  <2> SUFFICES ASSUME BlinkInv PROVE ShowsPhase
    BY DEF IInv
  <2>1. Range(Listed) = Used(blink_array)
    BY ListIsUsed
  <2>2. Shows(blink_array, vmem, smudged)
    BY DEF BlinkInv
  <2> QED BY <2>1, <2>2 DEF ShowsPhase, Shows
<1> QED BY <1>1, Invariance, PTL

(* Array, pointers and screen do what the abstract service promises: every *)
(* call and every tick is one of Blinkers, or leaves its list alone.       *)
THEOREM ImplementsBlinkersSafe ==
    ASSUME NobodyAsksForZero
    PROVE  Spec => ImplementsBlinkers
<1>1. Init => Promised!Init
  BY InitStep
<1>2. IInv /\ [Next]_vars => [Promised!Next]_<<Blinks, asked, result>>
  BY NextStep DEF AbstractStep
<1> QED BY <1>1, <1>2, Invariance, PTL DEF Spec, ImplementsBlinkers, Promised!Spec

(* add_frames() reads the two files in step, a line of each at a time, and *)
(* what it adds is the two pictures (fish.c:80-149), when the array has an *)
(* element for each of their places.                                       *)
THEOREM FramesShownSafe ==
    ASSUME NobodyAsksForZero, PicturesFit
    PROVE  Spec => []FramesShown
<1>1. Init => IInv /\ PictureInv
  BY InitStep, InitPictures
<1>2. IInv /\ PictureInv /\ [Next]_vars => IInv' /\ PictureInv'
  BY NextStep, PictureStep
<1>3. IInv /\ PictureInv => FramesShown
  BY HeldIsShown DEF IInv, PictureInv, FramesShown
<1> QED BY <1>1, <1>2, <1>3, PTL DEF Spec
=============================================================================
