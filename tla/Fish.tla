-------------------------------- MODULE Fish --------------------------------
(***************************************************************************)
(* The program src/fish/fish.c on the blink service: add_frames() turns    *)
(* two pictures, read a byte at a time, into blinks, then main() lets them *)
(* blink, adds one more, syncs it and removes one.  So that the service is *)
(* checked for every caller and not for this one alone, a behaviour is     *)
(* either the program or a caller of mp1_ioctl() that does as it likes.    *)
(***************************************************************************)
EXTENDS Blink

CONSTANTS
    Columns,        \* of the screen (80)
    Offset,         \* column of the pictures' left edge (40)
    Pictures0, Pictures1,  \* what the two files may hold
    NL,             \* the end of a line in them
    FrameLength,    \* ticks of each phase of the pictures (15)
    Extra,          \* the structure main() adds
    Wait,           \* ticks between the steps of main() (200)
    LastWait,       \* ticks before its end (80*25)
    MaxCalls        \* bound: calls of the caller that does as it likes

ASSUME FishAssumption ==
    /\ Columns \in Nat \ {0} /\ Offset \in 1 .. Columns
    /\ FrameLength \in 1 .. Word - 1 /\ {Wait, LastWait, MaxCalls} \subseteq Nat
    /\ IsRequest(Extra) /\ NL # Blank

\* The pictures are short enough for 16 bits to hold any location in them: those
\* of the repository have less than 200 bytes.
ASSUME PicturesAssumption ==
    \A f \in Pictures0 \cup Pictures1 :
        DOMAIN f = 1 .. Len(f) /\ Len(f) \in Nat /\ Len(f) * Columns + Offset <= Word

VARIABLES
    pc,            \* what main() did last, or "caller"
    file0, file1,  \* the open files
    scan,          \* the variables of add_frames(), and how far each file is read
    left           \* ticks until the next step of main(), or calls left

vars == <<blinkVars, pc, file0, file1, scan, left>>

\* Before anything is read c0 and c1 are some character, not the end of a line.
Start == [c0 |-> Blank, c1 |-> Blank, eof0 |-> FALSE, eof1 |-> FALSE,
          row |-> 0, col |-> 0, read0 |-> 0, read1 |-> 0]

Init ==
    /\ BlinkInit
    /\ scan = Start
    /\ \/ pc = "frames" /\ file0 \in Pictures0 /\ file1 \in Pictures1 /\ left = 0
       \/ pc = "caller" /\ file0 = <<>> /\ file1 = <<>> /\ left = MaxCalls

-----------------------------------------------------------------------------
(* add_frames() *)

\* Defect: a file whose line has ended is not held back.
ReadByte_ReadsOn(file, c, n, eof) ==
    IF eof THEN [c |-> NL, n |-> n, eof |-> eof]
    ELSE IF n < Len(file) THEN [c |-> file[n + 1], n |-> n + 1, eof |-> eof]
    ELSE [c |-> NL, n |-> n, eof |-> TRUE]

\* One read() of one byte, unless the line has ended: the end of the file
\* counts as the end of a line.
ReadByte(file, c, n, eof) ==
    IF c = NL THEN [c |-> NL, n |-> n, eof |-> eof]
    ELSE IF n < Len(file) THEN [c |-> file[n + 1], n |-> n + 1, eof |-> eof]
    ELSE [c |-> NL, n |-> n, eof |-> TRUE]

After ==
    LET a == ReadByte(file0, scan.c0, scan.read0, scan.eof0)
        b == ReadByte(file1, scan.c1, scan.read1, scan.eof1)
    IN  [c0 |-> a.c, c1 |-> b.c, eof0 |-> a.eof, eof1 |-> b.eof,
         row |-> scan.row, col |-> scan.col, read0 |-> a.n, read1 |-> b.n]

Shown(c) == IF c = NL THEN Blank ELSE c

\* The blink of one place of the two pictures.
FrameBlink(s) ==
    [location |-> s.row * Columns + s.col + Offset, on_char |-> Shown(s.c0),
     off_char |-> Shown(s.c1), on_length |-> FrameLength, off_length |-> FrameLength]

Column ==
    /\ pc = "frames"
    /\ ~(After.c0 = NL /\ After.c1 = NL)
    /\ IF {After.c0, After.c1} \subseteq {Blank, NL} THEN UNCHANGED blinkVars
       ELSE mp1_ioctl_add(FrameBlink(After))
    /\ scan' = [After EXCEPT !.col = @ + 1]
    /\ UNCHANGED <<pc, file0, file1, left>>

\* Both lines have ended: a file that is at its end stays at the end of a line.
EndOfRow ==
    /\ pc = "frames"
    /\ After.c0 = NL /\ After.c1 = NL
    /\ scan' = [After EXCEPT !.row = @ + 1, !.col = 0,
                             !.c0 = IF After.eof0 THEN NL ELSE Blank,
                             !.c1 = IF After.eof1 THEN NL ELSE Blank]
    /\ IF After.eof0 /\ After.eof1
       THEN pc' = "shown" /\ left' = Wait
       ELSE UNCHANGED <<pc, left>>
    /\ UNCHANGED <<blinkVars, file0, file1>>

-----------------------------------------------------------------------------
(* main() *)

\* read() of the clock returns, and the tasklet runs.
Tick ==
    /\ \/ pc \in {"shown", "added", "synced", "removed"} /\ left > 0 /\ left' = left - 1
       \/ pc = "caller" /\ UNCHANGED left
    /\ mp1_rtc_tasklet
    /\ UNCHANGED <<pc, file0, file1, scan>>

AddExtra ==
    /\ pc = "shown" /\ left = 0
    /\ mp1_ioctl_add(Extra)
    /\ pc' = "added" /\ left' = Wait
    /\ UNCHANGED <<file0, file1, scan>>

SyncExtra ==
    /\ pc = "added" /\ left = 0
    /\ mp1_ioctl_sync(Offset, Extra.location)
    /\ pc' = "synced" /\ left' = Wait
    /\ UNCHANGED <<file0, file1, scan>>

\* The location passed is the counter of the loop before, which is at WAIT.
RemoveAnother ==
    /\ pc = "synced" /\ left = 0
    /\ mp1_ioctl_remove(Wait)
    /\ pc' = "removed" /\ left' = LastWait
    /\ UNCHANGED <<file0, file1, scan>>

CallerCalls ==
    /\ pc = "caller" /\ left > 0
    /\ Calls
    /\ left' = left - 1
    /\ UNCHANGED <<pc, file0, file1, scan>>

Finished == pc = "removed" /\ left = 0 /\ UNCHANGED vars

Next ==
    \/ Column
    \/ EndOfRow
    \/ Tick
    \/ AddExtra
    \/ SyncExtra
    \/ RemoveAnother
    \/ CallerCalls
    \/ Finished

\* The clock interrupts for ever, and its reader runs on; the caller owes nothing.
Fairness ==
    /\ WF_vars(Tick)
    /\ WF_vars(Column \/ EndOfRow \/ AddExtra \/ SyncExtra \/ RemoveAnother)

Spec == Init /\ [][Next]_vars /\ Fairness

-----------------------------------------------------------------------------
(* What has to hold *)

TypeOK ==
    /\ BlinkTypeOK
    /\ pc \in {"frames", "shown", "added", "synced", "removed", "caller"}
    /\ scan.read0 \in 0 .. Len(file0) /\ scan.read1 \in 0 .. Len(file1)
    /\ left \in Nat

\* What stands at a row and column of a text file.
LineOf(f, i) == Cardinality({j \in 1 .. i - 1 : f[j] = NL})
PlaceOf(f, i) == i - 1 - Max({0} \cup {j \in 1 .. i - 1 : f[j] = NL})
CharAt(f, r, c) ==
    LET here == {i \in DOMAIN f : f[i] # NL /\ LineOf(f, i) = r /\ PlaceOf(f, i) = c}
    IN  IF here = {} THEN Blank ELSE f[CHOOSE i \in here : TRUE]

\* The places of two pictures that are not blank in both and are on the screen.
Places(f0, f1) ==
    LET size == 0 .. Len(f0) + Len(f1)
    IN  {p \in size \X size : /\ {CharAt(f0, p[1], p[2]), CharAt(f1, p[1], p[2])} # {Blank}
                             /\ p[1] * Columns + p[2] + Offset < Cells}

\* The pictures, as blinks.
PictureBlinks ==
    {<<p[1] * Columns + p[2] + Offset, CharAt(file0, p[1], p[2]), CharAt(file1, p[1], p[2])>> :
        p \in Places(file0, file1)}

\* add_frames() reads the files in step, a line of each at a time, holding back
\* the one whose line or file has ended: what it adds is the two pictures.
FramesShown ==
    pc = "shown" =>
        {<<b.location, b.on_char, b.off_char>> : b \in {blink_array[e] : e \in Range(Listed)}}
            = PictureBlinks

\* A blink that stays on the list is lit and dark again and again, whatever its
\* lengths, 0 and those with the sign bit included, and whatever calls came
\* before, as long as the clock goes on.
LitAt(l) == LET e == mp1_find_helper(l) IN e # NULL /\ blink_array[e].status = 1
Present(l) == pc = "caller" /\ mp1_find_helper(l) # NULL
KeepsBlinking ==
    \A l \in Locations : <>[]Present(l) => []<>LitAt(l) /\ []<>~LitAt(l)

\* The service does what it promises, to the program and to any caller.
Bytes(Pictures) == {NL} \cup UNION {Range(f) : f \in Pictures}
\* (row and column lie within the two files, so PicturesAssumption bounds them)
FrameBlinks ==
    {FrameBlink([row |-> 0, col |-> l, c0 |-> a, c1 |-> b]) :
        l \in 0 .. 2 * Word, a \in Bytes(Pictures0), b \in Bytes(Pictures1)}
AllRequests == Requests \cup FrameBlinks \cup {Extra}
AllLocations == Locations \cup {Offset, Extra.location, Wait}
Promised == INSTANCE Blinkers WITH
    blinks <- Blinks, Requests <- AllRequests, Locations <- AllLocations
ImplementsBlinkers == Promised!Spec
=============================================================================
