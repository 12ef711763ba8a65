------------------------------ MODULE LibCalls ------------------------------
(***************************************************************************)
(* The memory and string functions of lib.c, the numbers printf() prints,  *)
(* and read_dentry_by_name(), which looks files up with them.  A behaviour *)
(* is one call and its answer.  Memory is a function of addresses; a       *)
(* string is an array of symbols, NUL where it ends.                       *)
(***************************************************************************)
EXTENDS Integers, Sequences, SequencesExt

CONSTANTS
    Size,       \* bytes of the memory in view, from a word boundary on
    Word,       \* bytes stored at a time by "rep stosl" and "rep movsl"
    Bits,       \* of an integer; the digits of %#x are a quarter of it
    Alphabet,   \* characters of names
    NameLen     \* MAX_FILENAME_LEN

ASSUME LibAssumption ==
    /\ Size \in Nat /\ Word \in Nat \ {0} /\ Bits \in Nat
    /\ Bits % 4 = 0 /\ NameLen \in Nat \ {0}

NUL == "NUL"
FILL == -1                              \* the byte memset() is called with
Addresses == 0 .. Size - 1
Memory == [i \in Addresses |-> i]       \* a different byte everywhere
Names == [0 .. NameLen - 1 -> Alphabet \cup {NUL}]
Unsigned == 0 .. 2 ^ Bits - 1

VARIABLES
    call,   \* the function called and its arguments
    answer  \* what it returned or left behind

vars == <<call, answer>>

Pending == [kind |-> "pending"]

-----------------------------------------------------------------------------
(* A definition whose name ends in _ and a defect is not used by the       *)
(* specification: it is what the next definition would be with that defect *)
(* in the code.                                                            *)

(* Copying n units of len bytes, one after the other in the given order. *)
CopyUnits(m, dest, src, len, order) ==
    FoldLeft(LAMBDA mem, u :
                [i \in Addresses |-> IF i \in dest + u * len .. dest + (u + 1) * len - 1
                                     THEN mem[src + i - dest] ELSE mem[i]],
             m, order)

First(n) == [k \in 1 .. n |-> k - 1]

(* Bytes up to the first word of dest, words, and bytes again. *)
Unaligned(dest, n) ==
    LET toWord == (Word - (dest % Word)) % Word IN IF n < toWord THEN n ELSE toWord
Words(dest, n) == (n - Unaligned(dest, n)) \div Word
Rest(dest, n) == (n - Unaligned(dest, n)) % Word

Memcpy(m, dest, src, n) ==
    LET head == Unaligned(dest, n)
        body == head + Words(dest, n) * Word
        one == CopyUnits(m, dest, src, 1, First(head))
        two == CopyUnits(one, dest + head, src + head, Word, First(Words(dest, n)))
    IN  CopyUnits(two, dest + body, src + body, 1, First(Rest(dest, n)))

(* Setting n units of len bytes from dest on, and memset() by the same     *)
(* three loops.                                                            *)
SetUnits(m, dest, c, len, n) ==
    FoldLeft(LAMBDA mem, u :
                [i \in Addresses |-> IF i \in dest + u * len .. dest + (u + 1) * len - 1
                                     THEN c ELSE mem[i]],
             m, First(n))

Memset(m, dest, c, n) ==
    LET head == Unaligned(dest, n)
        body == head + Words(dest, n) * Word
        one == SetUnits(m, dest, c, 1, head)
        two == SetUnits(one, dest + head, c, Word, Words(dest, n))
    IN  SetUnits(two, dest + body, c, 1, Rest(dest, n))

(* From the front when the source is not before the destination. *)
Memmove_Forward(m, dest, src, n) == CopyUnits(m, dest, src, 1, First(n))

Memmove(m, dest, src, n) ==
    CopyUnits(m, dest, src, 1, IF src >= dest THEN First(n) ELSE Reverse(First(n)))

-----------------------------------------------------------------------------
(* The places before the first NUL, at most n. *)
Before(s, n) == {i \in 0 .. n - 1 : \A j \in 0 .. i : s[j] # NUL}

Strncpy(dest, src, n) ==
    [i \in DOMAIN dest |-> IF i >= n THEN dest[i]
                           ELSE IF i \in Before(src, n) THEN src[i] ELSE NUL]

(* Zero or not: the first difference among n symbols, unless both strings  *)
(* have ended before.                                                      *)
Strncmp(s, t, n) == \A i \in 0 .. n - 1 : s[i] = t[i] \/ \E j \in 0 .. i - 1 : s[j] = NUL /\ t[j] = NUL

(* read_dentry_by_name(): the first entry that agrees on all symbols but   *)
(* the last one a name may have, or -1.                                    *)
Lookup(entries, name) ==
    LET match == {i \in 1 .. Len(entries) : Strncmp(name, entries[i], NameLen - 1)}
    IN  IF match = {} THEN -1 ELSE CHOOSE i \in match : \A j \in match : i <= j

(* itoa(): digits from the lowest place on, then strrev(). *)
Places(value, radix) ==
    LET quotient[k \in 0 .. Bits] == IF k = 0 THEN value ELSE quotient[k - 1] \div radix
        n == CHOOSE k \in 1 .. Bits : quotient[k] = 0 /\ \A j \in 1 .. k - 1 : quotient[j] > 0
    IN  [k \in 1 .. n |-> quotient[k - 1] % radix]

(* strrev(): both ends change places until they meet. *)
Strrev(s) ==
    LET Swapped(r, beg) == [i \in DOMAIN r |-> IF i \in {beg, Len(s) + 1 - beg}
                                             THEN r[Len(s) + 1 - i] ELSE r[i]]
    IN  FoldLeft(Swapped, s, [beg \in 1 .. Len(s) \div 2 |-> beg])

Itoa(value, radix) == IF value = 0 THEN <<0>> ELSE Strrev(Places(value, radix))

(* The conversions of printf(); a %d takes the same bits as signed, and    *)
(* %#x puts zeros in front.                                                *)
Zeros(n) == [k \in 1 .. n |-> 0]

Printed(spec, value) ==
    LET minus == spec = "d" /\ value >= 2 ^ (Bits - 1)
        shown == IF minus THEN 2 ^ Bits - value ELSE value
        plain == Itoa(shown, IF spec \in {"x", "#x"} THEN 16 ELSE 10)
    IN  [minus |-> minus,
         digits |-> IF spec = "#x" THEN Zeros(Bits \div 4 - Len(plain)) \o plain ELSE plain]

-----------------------------------------------------------------------------
(* Calls with arguments inside the memory in view; memcpy() only when no   *)
(* byte is read after it has been written.                                 *)
Inside == {a \in [dest : Addresses, src : Addresses, n : 0 .. Size] :
              a.dest + a.n <= Size /\ a.src + a.n <= Size}

Init ==
    /\ answer = Pending
    /\ \/ \E a \in Inside : call \in {[f |-> "memset", a |-> a], [f |-> "memmove", a |-> a]}
       \/ \E a \in Inside :
            /\ a.dest <= a.src \/ a.src + a.n <= a.dest
            /\ call = [f |-> "memcpy", a |-> a]
       \/ \E s, t \in Names, n \in 0 .. NameLen : call = [f |-> "strncpy", s |-> s, t |-> t, n |-> n]
       \/ \E s, t, name \in Names : call = [f |-> "lookup", entries |-> <<s, t>>, name |-> name]
       \/ \E spec \in {"d", "u", "x", "#x"}, v \in Unsigned : call = [f |-> "printf", spec |-> spec, v |-> v]

Answered(f, value) ==
    /\ answer = Pending
    /\ call.f = f
    /\ answer' = [kind |-> "answer", value |-> value]
    /\ UNCHANGED call

CallMemset == Answered("memset", Memset(Memory, call.a.dest, FILL, call.a.n))
CallMemcpy == Answered("memcpy", Memcpy(Memory, call.a.dest, call.a.src, call.a.n))
CallMemmove == Answered("memmove", Memmove(Memory, call.a.dest, call.a.src, call.a.n))
CallStrncpy == Answered("strncpy", Strncpy(call.s, call.t, call.n))
CallLookup == Answered("lookup", Lookup(call.entries, call.name))
CallPrintf == Answered("printf", Printed(call.spec, call.v))

Next == CallMemset \/ CallMemcpy \/ CallMemmove \/ CallStrncpy \/ CallLookup \/ CallPrintf

Spec == Init /\ [][Next]_vars

-----------------------------------------------------------------------------
Gives(f, value) == call.f = f /\ answer # Pending => answer.value = value

(* What was asked for and nothing else: whatever the alignment and length, *)
(* memset() and memcpy() reach every byte of the destination once and no   *)
(* other, and memmove() reads no byte it has written, however the two      *)
(* areas overlap.                                                          *)
BytesAsPromised ==
    LET Copied == [i \in Addresses |->
            IF i - call.a.dest \in 0 .. call.a.n - 1
            THEN Memory[call.a.src + i - call.a.dest] ELSE Memory[i]]
        Filled == [i \in Addresses |->
            IF i - call.a.dest \in 0 .. call.a.n - 1 THEN FILL ELSE Memory[i]]
    IN  Gives("memset", Filled) /\ Gives("memcpy", Copied) /\ Gives("memmove", Copied)

Text(name, n) == [i \in Before(name, n) |-> name[i]]

(* A file is found by its name, whatever lies behind the NUL, and only by  *)
(* its name: another entry can answer only to names too long for the       *)
(* comparison of read_dentry_by_name().  A copy by strncpy() reads as the  *)
(* original up to n, and leaves what lies behind n.                        *)
NamesAsPromised ==
    /\ call.f = "lookup" /\ answer # Pending =>
         LET found == answer.value
             Named(i) == Text(call.entries[i], NameLen) = Text(call.name, NameLen)
         IN  /\ found = -1 => \A i \in DOMAIN call.entries : ~Named(i)
             /\ found # -1 => \/ Named(found) /\ \A i \in 1 .. found - 1 : ~Named(i)
                              \/ NameLen - 2 \in Before(call.name, NameLen - 1)
    /\ call.f = "strncpy" /\ answer # Pending =>
         /\ Text(answer.value, call.n) = Text(call.t, call.n)
         /\ \A i \in call.n .. NameLen - 1 : answer.value[i] = call.s[i]

(* A printed number reads back as the number, for every value of its bits: *)
(* a negative one with its sign, the least included, and %#x in all digits.*)
NumbersAsPromised ==
    call.f = "printf" /\ answer # Pending =>
        LET radix == IF call.spec \in {"x", "#x"} THEN 16 ELSE 10
            read == FoldLeft(LAMBDA r, digit : r * radix + digit, 0, answer.value.digits)
        IN  /\ \A k \in DOMAIN answer.value.digits : answer.value.digits[k] \in 0 .. radix - 1
            /\ (IF answer.value.minus THEN -read ELSE read) =
                 IF call.spec = "d" /\ call.v >= 2 ^ (Bits - 1) THEN call.v - 2 ^ Bits ELSE call.v
            /\ call.spec = "#x" => Len(answer.value.digits) = Bits \div 4
            /\ call.spec # "#x" => answer.value.digits[1] # 0 \/ Len(answer.value.digits) = 1

(* The functions of lib.c and the lookup of names keep their promises:     *)
(* every byte once, every name its file, every number readable.            *)
LibraryAsPromised == BytesAsPromised /\ NamesAsPromised /\ NumbersAsPromised
=============================================================================
