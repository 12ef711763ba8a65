------------------------------ MODULE Blinkers ------------------------------
(***************************************************************************)
(* What the blinking-character service of src/fish/blink.S promises its    *)
(* callers, without array, pointers or screen: a list of blinks, the       *)
(* newest first, of which no more than Slots fit.  A call that names a     *)
(* location means the newest blink there.                                  *)
(***************************************************************************)
EXTENDS Integers, Sequences, SequencesExt

CONSTANTS
    Slots,     \* blinks that fit (80*25 in the code)
    Cells,     \* locations on the screen (80*25)
    Word,      \* values of a 16-bit field (2^16)
    Requests,  \* what callers ask to add
    Locations  \* what callers name

VARIABLES
    blinks,  \* the blinks, newest first
    asked,   \* the call just made: its name and its arguments
    result   \* what the call just made answered: eax, and the blink it copied out

Copied(b) == [eax |-> 0, blink |-> <<b>>]
Done == [eax |-> 0, blink |-> <<>>]
Failed == [eax |-> -1, blink |-> <<>>]

\* A 16-bit number as `jg' sees it.
Positive(n) == n \in 1 .. Word \div 2 - 1

\* A new blink is lit, with its whole first phase before it.
Lit(b) == [location |-> b.location, on_char |-> b.on_char, off_char |-> b.off_char,
           on_length |-> b.on_length, off_length |-> b.off_length,
           countdown |-> b.on_length, status |-> 1]

\* One tick of the clock for one blink: its phase goes on, or the other begins.
Aged(b) ==
    LET left == (b.countdown - 1) % Word
    IN  IF Positive(left)
        THEN [b EXCEPT !.countdown = left]
        ELSE [b EXCEPT !.countdown = IF b.status = 1 THEN b.off_length ELSE b.on_length,
                       !.status = 1 - b.status]

\* One blink takes the lengths and the phase of another.
InStepWith(b, other) ==
    [b EXCEPT !.on_length = other.on_length, !.off_length = other.off_length,
              !.countdown = other.countdown, !.status = other.status]

\* The place of the newest blink at a location, 0 when there is none.
Newest(l) ==
    LET list == blinks
        here == {k \in DOMAIN list : list[k].location = l}
    IN  IF here = {} THEN 0 ELSE Min(here)

\* What is added is in front of what was there before; it is refused only when
\* the list is full or its location is not on the screen.
Add(b) ==
    /\ asked' = <<"add", b>>
    /\ IF Len(blinks) < Slots /\ b.location < Cells
       THEN blinks' = <<Lit(b)>> \o blinks /\ result' = Done
       ELSE UNCHANGED blinks /\ result' = Failed

RemoveBlink(l) ==
    LET k == Newest(l)
    IN  /\ asked' = <<"remove", l>>
        /\ IF k # 0
           THEN blinks' = RemoveAt(blinks, k) /\ result' = Done
           ELSE UNCHANGED blinks /\ result' = Failed

Sync(from, to) ==
    LET a == Newest(from)
        b == Newest(to)
    IN  /\ asked' = <<"sync", from, to>>
        /\ IF a # 0 /\ b # 0
           THEN /\ blinks' = [blinks EXCEPT ![b] = InStepWith(@, blinks[a])]
                /\ result' = Done
           ELSE UNCHANGED blinks /\ result' = Failed

Find(l) ==
    LET k == Newest(l)
    IN  /\ asked' = <<"find", l>>
        /\ UNCHANGED blinks
        /\ result' = IF k # 0 THEN Copied(blinks[k]) ELSE Failed

Tick ==
    /\ asked' = <<>>
    /\ result' = Done
    /\ blinks' = [k \in DOMAIN blinks |-> Aged(blinks[k])]

Init == blinks = <<>> /\ asked = <<>> /\ result = Done

Next ==
    \/ Tick
    \/ \E b \in Requests : Add(b)
    \/ \E l \in Locations : RemoveBlink(l) \/ Find(l)
    \/ \E from, to \in Locations : Sync(from, to)

Spec == Init /\ [][Next]_<<blinks, asked, result>>
=============================================================================
