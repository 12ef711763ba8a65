---------------------------- MODULE UserPrograms ----------------------------
(***************************************************************************)
(* The programs of src/syscalls that exercise the calls of SystemCalls:    *)
(* the tests of ece391syserr, ls, cat and grep, and the shell as far as it *)
(* passes a line on.  A behaviour is a program that does as it likes, then *)
(* one of these in the same slot.  (The other behaviours are those of      *)
(* LibCalls: one call of a function and its answer.)                       *)
(***************************************************************************)
EXTENDS SystemCalls

CONSTANTS
    Disks,       \* what the files may hold
    AnyDisk,     \* one of them
    Arguments,   \* what may be typed behind the name of a program
    BUFSIZE,     \* bytes a program reads at a time (1024)
    Requests,    \* calls of the program that does as it likes
    MaxCalls,    \* bound: how many it makes
    Lines,       \* lines typed at the shell
    OldBuffers,  \* what the shell's buffer may hold before
    Dot, HelloO, Shel, Empty  \* names: of the directory, and of no file

VARIABLES
    program,  \* the program that runs, or "library" in the behaviours of LibCalls
    args,     \* its argument
    at,       \* where it is
    local,    \* its variables
    out       \* what it has written to the terminal

programVars == <<program, args, at, local, out>>
allVars == <<vars, callVars, programVars>>

-----------------------------------------------------------------------------
(* ece391syserr *)

NEG_FD == -1073741823
BIG_FD == 1073741823
BIG_NUM == 1073741823
NEG_NUM == -1073741823

OpenOf(name) == [f |-> "open", name |-> name]
CloseOf(fd) == [f |-> "close", fd |-> fd]
ReadOf(fd) == [f |-> "read", fd |-> fd, nbytes |-> 31]
WriteOf(fd) == [f |-> "write", fd |-> fd, bytes |-> <<JUNK>>]
Each(Of(_), from, to) == [k \in 1 .. to - from + 1 |-> Of(from + k - 1)]

\* The tests, as the calls they make.
err_neg_fd == <<ReadOf(NEG_FD), WriteOf(NEG_FD), CloseOf(NEG_FD)>>
err_big_fd == <<ReadOf(BIG_FD), WriteOf(BIG_FD), CloseOf(BIG_FD)>>
err_open_lots == [k \in 1 .. MAX_FD_NUM |-> OpenOf(Dot)] \o Each(CloseOf, 2, MAX_FD_NUM)
err_open == <<OpenOf(HelloO), OpenOf(Shel), OpenOf(Empty)>>
err_unopened ==
    Each(CloseOf, 0, MAX_FD_NUM) \o Each(ReadOf, 2, MAX_FD_NUM) \o Each(WriteOf, 2, MAX_FD_NUM)
err_vidmap == <<[f |-> "vidmap", place |-> "null"], [f |-> "vidmap", place |-> "kernel"]>>
err_stdin_out == <<WriteOf(0), ReadOf(1)>>
err_syscall_num == <<[f |-> "number", n |-> BIG_NUM], [f |-> "number", n |-> NEG_NUM],
                     [f |-> "number", n |-> 0]>>

Tests == <<err_neg_fd, err_big_fd, err_open_lots, err_open, err_unopened, err_vidmap,
           err_stdin_out, err_syscall_num>>

\* A test fails when a call does not answer -1; err_open_lots() counts instead
\* the opens that do, and wants one.
Fails(test, answers) ==
    IF Tests[test] = err_open_lots
    THEN Cardinality({k \in 1 .. MAX_FD_NUM : answers[k] = -1}) # 1
    ELSE \E k \in DOMAIN answers : answers[k] # -1

\* main(): one test, or all in their order.
Selected(n) == IF n = 0 THEN [k \in DOMAIN Tests |-> k] ELSE <<n>>

SyserrCall ==
    /\ program = "syserr" /\ at = "test"
    /\ Len(local.answers) < Len(Tests[local.tests[1]])
    /\ Request(Tests[local.tests[1]][Len(local.answers) + 1])
    /\ local' = [local EXCEPT !.answers = Append(@, eax')]
    /\ UNCHANGED <<program, args, at, out>>

SyserrVerdict ==
    /\ program = "syserr" /\ at = "test"
    /\ Len(local.answers) = Len(Tests[local.tests[1]])
    /\ out' = Append(out, <<local.tests[1], IF Fails(local.tests[1], local.answers) THEN "FAIL" ELSE "PASS">>)
    /\ local' = [tests |-> Tail(local.tests), answers |-> <<>>]
    /\ at' = IF Len(local.tests) = 1 THEN "done" ELSE "test"
    /\ UNCHANGED <<callVars, program, args>>

-----------------------------------------------------------------------------
(* ls and cat *)

LsOpen ==
    /\ program = "ls" /\ at = "open"
    /\ Open(Dot)
    /\ local' = [fd |-> eax']
    /\ at' = IF eax' = -1 THEN "failed" ELSE "read"
    /\ UNCHANGED <<program, args, out>>

\* A line feed goes behind the name, and all of it to the terminal.  (Behind a
\* name that fills its field it is written past the buffer of NameLen + 1 bytes,
\* like the NUL of grep; what is there is not modelled.)
LsRead ==
    /\ program = "ls" /\ at = "read"
    /\ Read(local.fd, NameLen)
    /\ at' = CASE eax' = 0 -> "done" [] eax' = -1 -> "failed" [] OTHER -> "read"
    /\ out' = IF eax' > 0 THEN Append(out, Append(data', "\n")) ELSE out
    /\ UNCHANGED <<program, args, local>>

CatOpen ==
    /\ program = "cat" /\ at = "open"
    /\ Open(Getargs(args))
    /\ local' = [fd |-> eax']
    /\ at' = IF eax' = -1 THEN "failed" ELSE "read"
    /\ UNCHANGED <<program, args, out>>

CatRead ==
    /\ program = "cat" /\ at = "read"
    /\ Read(local.fd, BUFSIZE)
    /\ at' = CASE eax' = 0 -> "done" [] eax' = -1 -> "failed" [] OTHER -> "read"
    /\ out' = out \o data'
    /\ UNCHANGED <<program, args, local>>

-----------------------------------------------------------------------------
(* grep *)

\* The first place from `start' on that ends a line: a line feed or `last'.
LineEnd(buf, start, last) == Min({i \in start .. last : i = last \/ buf[i] = "\n"})

\* The text at a place, up to its NUL.
TextAt(buf, i) == UpTo(buf, i, {NUL})

\* strcpy() to the front of the buffer from a place in it.
MovedDown(buf, from) ==
    LET text == Append(TextAt(buf, from), NUL)
    IN  [i \in DOMAIN buf |-> IF i < Len(text) THEN text[i + 1] ELSE buf[i]]

\* Defect: what the data end with is taken for a line.
KeepsRest_Never(buf, start, end, cnt) == FALSE

\* The rest of the data is no whole line, and more may come.
KeepsRest(buf, start, end, cnt) == buf[end] # "\n" /\ cnt # 0 /\ start # 0

RECURSIVE Scanned(_, _, _, _, _, _)
\* The loop of do_one_file() over the lines of the buffer.
Scanned(s, buf, start, last, cnt, found) ==
    LET end == LineEnd(buf, start, last)
        cut == [buf EXCEPT ![end] = NUL]
        match == s # <<>> /\ \E i \in start .. end - 1 : IsPrefix(s, TextAt(cut, i))
        next == IF match THEN Append(found, TextAt(cut, start)) ELSE found
    IN  IF KeepsRest(buf, start, end, cnt)
        THEN [buf |-> MovedDown(cut, start), last |-> last - start, found |-> found]
        ELSE IF end + 1 >= last THEN [buf |-> cut, last |-> 0, found |-> next]
        ELSE Scanned(s, cut, end + 1, last, cnt, next)

GrepOpen ==
    /\ program = "grep" /\ at = "open"
    /\ Open(Dot)
    /\ local' = [local EXCEPT !.fd = eax']
    /\ at' = IF eax' = -1 THEN "failed" ELSE "next"
    /\ UNCHANGED <<program, args, out>>

\* Names that begin with a dot are passed over.
GrepNext ==
    /\ program = "grep" /\ at = "next"
    /\ Read(local.fd, NameLen)
    /\ at' = CASE eax' = 0 -> "done" [] eax' = -1 -> "failed"
              [] OTHER -> IF data'[1] = Dot[0] THEN "next" ELSE "file"
    /\ local' = [local EXCEPT !.fname = data']
    /\ UNCHANGED <<program, args, out>>

GrepFileOpen ==
    /\ program = "grep" /\ at = "file"
    /\ Open(Getargs(local.fname))
    /\ local' = [local EXCEPT !.file = eax', !.last = 0]
    /\ at' = IF eax' = -1 THEN "failed" ELSE "read"
    /\ UNCHANGED <<program, args, out>>

GrepRead ==
    /\ program = "grep" /\ at = "read"
    /\ Read(local.file, BUFSIZE - local.last)
    /\ IF eax' = -1 THEN at' = "failed" /\ UNCHANGED <<local, out>>
       ELSE LET buf == [i \in 0 .. BUFSIZE |->
                    IF i - local.last \in 0 .. Len(data') - 1
                    THEN data'[i - local.last + 1] ELSE local.buf[i]]
                r == Scanned(args, buf, 0, local.last + eax', eax', <<>>)
            IN  /\ local' = [local EXCEPT !.buf = r.buf, !.last = r.last]
                /\ out' = out \o [k \in DOMAIN r.found |-> <<local.fname, r.found[k]>>]
                /\ at' = IF eax' = 0 THEN "close" ELSE "read"
    /\ UNCHANGED <<program, args>>

GrepClose ==
    /\ program = "grep" /\ at = "close"
    /\ Close(local.file)
    /\ at' = IF eax' = -1 THEN "failed" ELSE "next"
    /\ UNCHANGED <<program, args, local, out>>

-----------------------------------------------------------------------------
(* The shell, the program before, and the whole *)

ShellExecutes ==
    /\ program = "shell" /\ at = "line"
    /\ out' = <<Parsed(ShellCommand(local.buf, local.line))>>
    /\ at' = "done"
    /\ UNCHANGED <<callVars, program, args, local>>

OtherCalls ==
    /\ program = "other" /\ local.left > 0
    /\ \E r \in Requests : Request(r)
    /\ local' = [local EXCEPT !.left = @ - 1]
    /\ UNCHANGED <<program, args, at, out>>

Locals(p) ==
    CASE p = "syserr" -> {[tests |-> Selected(n), answers |-> <<>>] : n \in 0 .. Len(Tests)}
      [] p \in {"ls", "cat"} -> {[fd |-> -1]}
      [] p = "grep" -> {[fd |-> -1, file |-> -1, fname |-> <<>>, last |-> 0, old |-> c,
                         buf |-> [i \in 0 .. BUFSIZE |-> c]] : c \in {JUNK, "\n"}}

\* halt(), and execute() of the next program in the same slot.
OtherHalts ==
    /\ program = "other"
    /\ file_array' = Constructed(Cleared)
    /\ program' = local.next
    /\ local' \in Locals(local.next)
    /\ at' = IF local.next = "syserr" THEN "test" ELSE "open"
    /\ eax' = 0 /\ data' = <<>>
    /\ UNCHANGED <<disk, args, out>>

Programs == {"syserr", "ls", "cat", "grep"}

ProgramInit ==
    /\ file_array = Constructed([fd \in Descriptors |-> Unused])
    /\ eax = 0 /\ data = <<>> /\ out = <<>>
    /\ disk \in Disks
    /\ \/ /\ program = "library" /\ Init
          /\ disk = AnyDisk /\ args = <<>> /\ at = "done" /\ local = <<>>
       \/ /\ program = "shell" /\ at = "line"
          /\ disk = AnyDisk /\ args = <<>>
          /\ \E b \in OldBuffers, l \in Lines : local = [buf |-> b, line |-> l]
          /\ call = [f |-> "none"] /\ answer = Pending
       \/ /\ program = "other" /\ at = "calls"
          /\ args \in Arguments
          /\ \E p \in Programs, n \in {0, MaxCalls} :
                /\ n # 0 => disk = AnyDisk /\ args = <<>>
                /\ local = [left |-> n, next |-> p]
          /\ call = [f |-> "none"] /\ answer = Pending

ProgramNext ==
    \/ Next /\ UNCHANGED <<callVars, programVars>>
    \/ /\ UNCHANGED vars
       /\ \/ SyserrCall
          \/ SyserrVerdict
          \/ LsOpen
          \/ LsRead
          \/ CatOpen
          \/ CatRead
          \/ GrepOpen
          \/ GrepNext
          \/ GrepFileOpen
          \/ GrepRead
          \/ GrepClose
          \/ ShellExecutes
          \/ OtherCalls
          \/ OtherHalts

ProgramSpec == ProgramInit /\ [][ProgramNext]_allVars

-----------------------------------------------------------------------------
(* What has to hold *)

\* Every test of ece391syserr passes, whichever are selected and whatever the
\* program before did in the same slot and left open: each refusal the tests
\* want is an early return of its own in a call, and err_open_lots() and
\* err_unopened() count on a table that nobody initialises.
SyserrPasses == program = "syserr" => \A k \in DOMAIN out : out[k][2] = "PASS"

\* A name as ls and grep print it: its characters, and behind a name that fills
\* its field one byte that nobody has written, as strlen() in dir_read() counts
\* the type behind the name and the copy does not (the clock's type is 0).
Filling(e) == (\A i \in 0 .. NameLen - 1 : e.name[i] # NUL) /\ e.type # "rtc"
Shown(e) ==
    [i \in 1 .. Cardinality(Before(e.name, NameLen)) |-> e.name[i - 1]]
        \o IF Filling(e) THEN <<JUNK>> ELSE <<>>

\* ls writes the names of the directory in order, one a line, with a byte more
\* behind a name that fills its field and behind no other, and comes to its end;
\* the entry that dir_read() never gets to is the last.
LsListsDirectory ==
    program = "ls" =>
        /\ at # "failed"
        /\ out = [k \in DOMAIN out |-> Append(Shown(Directory[k]), "\n")]
        /\ at = "done" => Len(out) = Len(Directory) - 1

\* cat writes its file, all of it and nothing else, whatever the sizes of its
\* buffer and the file, and says so when there is none of that name.
CatWritesFile ==
    program = "cat" =>
        LET e == Directory[Found(Getargs(args))]
        IN  /\ at = "failed" <=> at # "open" /\ Found(Getargs(args)) = -1
            /\ at = "done" /\ e.type = "file" => out = disk[e.inode]

LinesOf(text) ==
    LET ends == {i \in DOMAIN text : text[i] = "\n"}
        Line(end) == LET start == Max({0} \cup {i \in ends : i < end}) IN SubSeq(text, start + 1, end - 1)
    IN  [k \in 1 .. Cardinality(ends) + 1 |->
            Line(CHOOSE i \in ends \cup {Len(text) + 1} : Cardinality({j \in ends : j < i}) = k - 1)]

\* grep writes each line that has the pattern in it, once, whole and under the
\* name of its file (with the byte more behind a name that fills its field; the
\* file is found all the same), though files are read in pieces that end anywhere: lines
\* have to fit the buffer, and, when a file does not, the byte behind the buffer
\* must not happen to be a line feed, as do_one_file() looks at it.
Fits(text) ==
    /\ \A k \in DOMAIN LinesOf(text) : Len(LinesOf(text)[k]) <= BUFSIZE
    /\ local.old = "\n" => Len(text) <= BUFSIZE
GrepFindsLines ==
    program = "grep" /\ at = "done" /\ (\A i \in DOMAIN disk : Fits(disk[i])) =>
        LET Matches(e) == IF e.type # "file" \/ args = <<>> THEN <<>>
                ELSE SelectSeq(LinesOf(disk[e.inode]), LAMBDA l :
                         \E i \in 1 .. Len(l) : IsPrefix(args, SubSeq(l, i, Len(l))))
            from == SelectSeq(SubSeq(Directory, 1, Len(Directory) - 1),
                              LAMBDA e : e.name[0] # Dot[0])
        IN  out = FoldLeft(LAMBDA o, e : o \o [k \in DOMAIN Matches(e) |-> <<Shown(e), Matches(e)[k]>>],
                           <<>>, from)

OutputAsPromised == LsListsDirectory /\ CatWritesFile /\ GrepFindsLines

\* A program gets as its argument what was typed behind its name and a space,
\* and nothing when nothing was: execute() looks for it one byte behind the
\* name, which without an argument is behind the NUL that the shell has put in
\* place of the line feed, and finds there the NUL of terminal_read().
ArgumentsAsTyped ==
    program = "shell" /\ at = "done" =>
        LET typed == SubSeq(local.line, 1, Len(local.line) - 1)
            spaces == {i \in DOMAIN typed : typed[i] = " "}
            name == SubSeq(typed, 1, Min(spaces \cup {Len(typed) + 1}) - 1)
            rest == SubSeq(typed, Len(name) + 2, Len(typed))
        IN  out = <<IF name = <<>> \/ Len(name) > BUF_LEN \/ Len(rest) > BUF_LEN THEN [ok |-> FALSE]
                    ELSE [ok |-> TRUE, name |-> name, args |-> rest]>>
=============================================================================
