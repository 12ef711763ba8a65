-------------------------------- MODULE Blink --------------------------------
(***************************************************************************)
(* src/fish/blink.S with the allocator of src/fish/fish.c: blinking        *)
(* characters kept as a singly linked list of elements taken from a fixed  *)
(* array, in which a location of 0 marks a free element.  Every call and   *)
(* every tick is one action: the program is the only user of the list.     *)
(***************************************************************************)
EXTENDS Integers, Sequences, FiniteSets, SequencesExt

CONSTANTS
    Slots,      \* elements of blink_array (80*25)
    Cells,      \* locations on the screen (80*25)
    Word,       \* values of a 16-bit field (2^16)
    Requests,   \* structures callers pass to add
    Locations,  \* locations callers name
    Blank       \* what the screen shows before anything is written

ASSUME SlotsAssumption == Slots \in Nat \ {0}
ASSUME CellsAssumption == Cells \in Nat \ {0} /\ Cells <= Word
ASSUME WordAssumption == Word \in Nat \ {0} /\ Word % 2 = 0

\* What a caller passes to add, its numbers 16 bits wide.
IsRequest(b) ==
    /\ b = [location |-> b.location, on_char |-> b.on_char, off_char |-> b.off_char,
            on_length |-> b.on_length, off_length |-> b.off_length]
    /\ {b.location, b.on_length, b.off_length} \subseteq 0 .. Word - 1

ASSUME RequestsAssumption == \A b \in Requests : IsRequest(b)

VARIABLES
    blink_array,    \* the elements, 1 .. Slots
    mp1_list_head,  \* the first of the list; 0 stands for NULL
    vmem,           \* what the screen shows at each location
    result,         \* eax of the call just made, and the structure it copied out;
                    \* forgotten by the next tick
    asked,          \* history: that call and its arguments
    smudged         \* history: locations written or left by a call that does
                    \* not care which phase the blink there is in

blinkVars == <<blink_array, mp1_list_head, vmem, result, asked, smudged>>

NULL == 0
Free == [location |-> 0, on_char |-> Blank, off_char |-> Blank, on_length |-> 0,
         off_length |-> 0, countdown |-> 0, status |-> 0, next |-> NULL]

Copied(b) == [eax |-> 0, blink |-> <<b>>]
Done == [eax |-> 0, blink |-> <<>>]
Failed == [eax |-> -1, blink |-> <<>>]

BlinkInit ==
    /\ blink_array = [e \in 1 .. Slots |-> Free]
    /\ mp1_list_head = NULL
    /\ vmem = [l \in 0 .. Cells - 1 |-> Blank]
    /\ result = Done
    /\ asked = <<>>
    /\ smudged = {}

-----------------------------------------------------------------------------
(* The list *)

\* Where a walk from the head is after k steps: at NULL after as many as there
\* are elements, unless the list runs in a circle.
Follow == [p \in 0 .. Slots |-> IF p = NULL THEN NULL ELSE blink_array[p].next]
At[k \in 0 .. Slots] == IF k = 0 THEN mp1_list_head ELSE Follow[At[k - 1]]
Ends == At[Slots] = NULL
Listed ==
    LET walk == [k \in 1 .. Slots |-> At[k - 1]]
    IN  SubSeq(walk, 1, Cardinality({k \in 1 .. Slots : walk[k] # NULL}))

\* Where on a list of elements the blinks of a location are.
PlacesAt(l, list) == {k \in DOMAIN list : blink_array[list[k]].location = l}

mp1_find_helper(l) ==
    LET list == Listed
    IN  IF PlacesAt(l, list) = {} THEN NULL ELSE list[Min(PlacesAt(l, list))]

\* The helper comes back: a walk that finds nothing reaches the end.
Returns(l) == Ends \/ mp1_find_helper(l) # NULL

\* Defect: the last element of the array is not looked at.
mp1_malloc_LastLeft ==
    LET free == {e \in 1 .. Slots - 1 : blink_array[e].location = 0}
    IN  IF free = {} THEN NULL ELSE CHOOSE e \in free : \A f \in free : e <= f

mp1_malloc ==
    LET free == {e \in 1 .. Slots : blink_array[e].location = 0}
    IN  IF free = {} THEN NULL ELSE CHOOSE e \in free : \A f \in free : e <= f

mp1_poke(l, c) == vmem' = [vmem EXCEPT ![l] = c]

-----------------------------------------------------------------------------
(* The calls *)

mp1_ioctl_add(b) ==
    LET e == mp1_malloc
        lit == [location |-> b.location, on_char |-> b.on_char, off_char |-> b.off_char,
                on_length |-> b.on_length, off_length |-> b.off_length,
                countdown |-> b.on_length, status |-> 1, next |-> mp1_list_head]
    IN  /\ asked' = <<"add", b>>
        /\ IF b.location < Cells /\ e # NULL
           THEN /\ blink_array' = [blink_array EXCEPT ![e] = lit]
                /\ mp1_list_head' = e
                /\ mp1_poke(b.location, b.on_char)
                /\ smudged' = smudged \ {b.location}
                /\ result' = Done
           ELSE /\ result' = Failed
                /\ UNCHANGED <<blink_array, mp1_list_head, vmem, smudged>>

\* remove_find_prev goes through the places that hold a pointer: the head, then
\* the NEXT fields.
mp1_ioctl_remove(l) ==
    LET e == mp1_find_helper(l)
        before == {f \in Range(Listed) : blink_array[f].next = e}
    IN  /\ Returns(l)
        /\ asked' = <<"remove", l>>
        /\ IF e # NULL
           THEN /\ mp1_list_head' = IF mp1_list_head = e THEN blink_array[e].next ELSE mp1_list_head
                /\ blink_array' = [f \in 1 .. Slots |->
                       IF f = e THEN Free
                       ELSE IF f \in before /\ mp1_list_head # e
                       THEN [blink_array[f] EXCEPT !.next = blink_array[e].next]
                       ELSE blink_array[f]]
                /\ smudged' = smudged \cup {l}
                /\ result' = Done
           ELSE /\ result' = Failed
                /\ UNCHANGED <<blink_array, mp1_list_head, smudged>>
        /\ UNCHANGED vmem

\* The flags are those of `testb $1', which never say "less", so that `cmovl'
\* leaves the other character alone: a blink shows its OFF_CHAR when it is
\* synced, lit or not.
SyncChar(b) == b.off_char

mp1_ioctl_sync(from, to) ==
    LET a == mp1_find_helper(from)
        b == mp1_find_helper(to)
        synced == [blink_array[b] EXCEPT !.on_length = blink_array[a].on_length,
                       !.off_length = blink_array[a].off_length,
                       !.countdown = blink_array[a].countdown,
                       !.status = blink_array[a].status]
    IN  /\ Returns(from) /\ Returns(to)
        /\ asked' = <<"sync", from, to>>
        /\ IF a # NULL /\ b # NULL
           THEN /\ blink_array' = [blink_array EXCEPT ![b] = synced]
                /\ mp1_poke(to, SyncChar(synced))
                /\ smudged' = IF synced.status = 1 THEN smudged \cup {to} ELSE smudged \ {to}
                /\ result' = Done
           ELSE /\ result' = Failed
                /\ UNCHANGED <<blink_array, vmem, smudged>>
        /\ UNCHANGED mp1_list_head

\* What a caller sees of an element.
View(b) == [location |-> b.location, on_char |-> b.on_char, off_char |-> b.off_char,
            on_length |-> b.on_length, off_length |-> b.off_length,
            countdown |-> b.countdown, status |-> b.status]

mp1_ioctl_find(l) ==
    LET e == mp1_find_helper(l)
    IN  /\ Returns(l)
        /\ asked' = <<"find", l>>
        /\ result' = IF e # NULL THEN Copied(View(blink_array[e])) ELSE Failed
        /\ UNCHANGED <<blink_array, mp1_list_head, vmem, smudged>>

-----------------------------------------------------------------------------
(* The tick *)

\* decw, and `jg' on what is left of it.
CountedDown(b) == (b.countdown - 1) % Word
GoesOn(n) == n \in 1 .. Word \div 2 - 1

\* Defect: the status is not turned over.
Aged_PhaseKept(b) ==
    IF GoesOn(CountedDown(b)) THEN [b EXCEPT !.countdown = CountedDown(b)]
    ELSE [b EXCEPT !.countdown = IF b.status = 1 THEN b.off_length ELSE b.on_length]

Aged(b) ==
    IF GoesOn(CountedDown(b)) THEN [b EXCEPT !.countdown = CountedDown(b)]
    ELSE IF b.status = 1
    THEN [b EXCEPT !.countdown = b.off_length, !.status = 0]
    ELSE [b EXCEPT !.countdown = b.on_length, !.status = 1]

\* Defect: the status is looked at after it has been turned over.
Poked_Late(b) == IF b.status = 1 THEN b.on_char ELSE b.off_char

\* What a blink writes when its phase changes.
Poked(b) == IF b.status = 1 THEN b.off_char ELSE b.on_char

\* The loop comes to its end only if the list does.
mp1_rtc_tasklet ==
    LET list == Listed
        writers(l) == {k \in PlacesAt(l, list) : ~GoesOn(CountedDown(blink_array[list[k]]))}
    IN  /\ Ends
        /\ asked' = <<>>
        /\ blink_array' = [e \in 1 .. Slots |->
               IF e \in Range(list) THEN Aged(blink_array[e]) ELSE blink_array[e]]
        /\ vmem' = [l \in DOMAIN vmem |->
               \* of several blinks at one place the last of the list writes last
               IF writers(l) = {} THEN vmem[l] ELSE Poked(blink_array[list[Max(writers(l))]])]
        /\ smudged' = {l \in smudged : writers(l) = {}}
        /\ result' = Done
        /\ UNCHANGED mp1_list_head

-----------------------------------------------------------------------------
(* Any caller of mp1_ioctl() *)

Calls ==
    \/ \E b \in Requests : mp1_ioctl_add(b)
    \/ \E l \in Locations : mp1_ioctl_remove(l) \/ mp1_ioctl_find(l)
    \/ \E from, to \in Locations : mp1_ioctl_sync(from, to)

-----------------------------------------------------------------------------
(* What has to hold *)

BlinkTypeOK ==
    /\ \A e \in 1 .. Slots : /\ blink_array[e].location \in 0 .. Cells - 1
                            /\ blink_array[e].countdown \in 0 .. Word - 1
                            /\ blink_array[e].status \in {0, 1}
                            /\ blink_array[e].next \in 0 .. Slots
    /\ mp1_list_head \in 0 .. Slots
    /\ smudged \subseteq 0 .. Cells - 1

\* The list ends, and meets each element in use once and no free one: removing
\* and reusing elements of the array (mp1_malloc, mp1_free) neither loses an
\* element nor leaves a pointer into a free one, on which the loop of the
\* tasklet would go on for ever.
ListIsWhatIsInUse ==
    /\ Ends
    /\ IsInjective(Listed)
    /\ Range(Listed) = {e \in 1 .. Slots : blink_array[e].location # 0}

\* A location with one blink shows the character of the blink's phase, unless
\* the blink was synced while lit, or another was taken away there, since its
\* phase changed last: the screen is written by four routines and never read.
ShowsPhase ==
    LET listed == Range(Listed) IN \A e \in listed :
        LET b == blink_array[e]
        IN  (/\ \A f \in listed \ {e} : blink_array[f].location # b.location
             /\ b.location \notin smudged)
            => vmem[b.location] = IF b.status = 1 THEN b.on_char ELSE b.off_char

\* The list of blinks that the array holds.
Blinks == LET listed == Listed IN [k \in DOMAIN listed |-> View(blink_array[listed[k]])]
=============================================================================
