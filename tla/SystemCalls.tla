---------------------------- MODULE SystemCalls ----------------------------
(***************************************************************************)
(* What the system calls of systemcall.c answer one program: the checks of *)
(* every argument, the descriptor table of its PCB, the bytes and names a  *)
(* read returns, and the argument execute() keeps of its command line.     *)
(* The calls of one process are taken one after the other; what other      *)
(* processes may do in between is the subject of FileDescriptors.          *)
(***************************************************************************)
EXTENDS LibCalls

CONSTANTS
    MAX_FILE_NUM,  \* descriptors of a process
    Directory,     \* the entries of the boot block: [name, type, inode]
    BUF_LEN        \* characters that execute() takes of a name, and of an argument

ASSUME CallsAssumption ==
    /\ MAX_FILE_NUM \in Nat /\ MAX_FILE_NUM > 2
    /\ BUF_LEN \in Nat

VARIABLES
    disk,        \* inode -> the bytes of its file
    file_array,  \* descriptor -> its entry in the PCB
    eax,         \* what the last call returned
    data         \* the bytes it stored in the caller's buffer

callVars == <<disk, file_array, eax, data>>

MIN_FD_NUM == 2
MAX_FD_NUM == MAX_FILE_NUM - 1
Descriptors == 0 .. MAX_FD_NUM
JUNK == "?"            \* a byte nobody has written

\* construct_pcb_entries(): 0 and 1 are the terminal.  The other entries are
\* found as the last process of the slot left them.
Terminal == [op |-> "terminal", inode |-> 0, file_position |-> 0, flags |-> 1]
Unused == [op |-> "none", inode |-> 0, file_position |-> 0, flags |-> 0]
Constructed(table) == [fd \in Descriptors |-> IF fd < MIN_FD_NUM THEN Terminal ELSE table[fd]]

Returns(value) == eax' = value /\ data' = <<>>
Refused == Returns(-1) /\ UNCHANGED <<disk, file_array>>

\* The test for a descriptor in use that read, write and close end with.
InUse(fd) == fd \in Descriptors /\ file_array[fd].flags # 0

-----------------------------------------------------------------------------
(* open and close *)

\* The first descriptor not in use, MAX_FILE_NUM when there is none.
FreeDescriptor ==
    LET free == {fd \in MIN_FD_NUM .. MAX_FD_NUM : file_array[fd].flags = 0}
    IN  Min(free \cup {MAX_FILE_NUM})

Found(name) == Lookup([i \in DOMAIN Directory |-> Directory[i].name], name)

Open(name) ==
    LET fd == FreeDescriptor
        e == Directory[Found(name)]
    IN  IF fd = MAX_FILE_NUM \/ Found(name) = -1 THEN Refused
        ELSE /\ file_array' = [file_array EXCEPT ![fd] =
                   [op |-> e.type, inode |-> IF e.type = "file" THEN e.inode ELSE 0,
                    file_position |-> 0, flags |-> 1]]
             /\ Returns(fd)
             /\ UNCHANGED disk

\* Defect: the entry stays in use.
Close_FlagsKept(fd) ==
    IF fd < MIN_FD_NUM \/ ~InUse(fd) THEN Refused
    ELSE /\ file_array' = [file_array EXCEPT ![fd].file_position = 0]
         /\ Returns(0)
         /\ UNCHANGED disk

Close(fd) ==
    IF fd < MIN_FD_NUM \/ ~InUse(fd) THEN Refused
    ELSE /\ file_array' = [file_array EXCEPT ![fd] = [Unused EXCEPT !.inode = file_array[fd].inode]]
         /\ Returns(0)
         /\ UNCHANGED disk

\* halt(): clear_file_descriptors() touches the flags only.
Cleared ==
    [fd \in Descriptors |-> IF fd < MIN_FD_NUM THEN file_array[fd] ELSE [file_array[fd] EXCEPT !.flags = 0]]

-----------------------------------------------------------------------------
(* read and write *)

\* What read_data() copies: up to nbytes of what the file has behind the
\* position.  (FileDescriptors has its blocks.)
ReadData(inode, from, nbytes) ==
    SubSeq(disk[inode], from + 1, Min({from + nbytes, Len(disk[inode])}))

FileRead(fd, nbytes) ==
    LET bytes == ReadData(file_array[fd].inode, file_array[fd].file_position, nbytes)
    IN  /\ file_array' = [file_array EXCEPT ![fd].file_position = @ + Len(bytes)]
        /\ eax' = Len(bytes)
        /\ data' = bytes
        /\ UNCHANGED disk

\* strlen() of a name: one that fills its field runs on into the type behind
\* it, whose first byte is not 0 unless the file is the clock.
NameLength(e) ==
    LET before == Before(e.name, NameLen)
    IN  IF before # 0 .. NameLen - 1 THEN Cardinality(before)
        ELSE IF e.type = "rtc" THEN NameLen ELSE NameLen + 1

\* The position moves on before the test for the end, which comes one early.
DirRead(fd, nbytes) ==
    LET offset == file_array[fd].file_position
        e == Directory[offset + 1]
    IN  /\ file_array' = [file_array EXCEPT ![fd].file_position = @ + 1]
        /\ IF 1 + offset >= Len(Directory) THEN Returns(0)
           ELSE /\ eax' = NameLength(e)
                /\ data' = [k \in 1 .. NameLength(e) |->
                       IF k - 1 \in Before(e.name, Min({nbytes, NameLen})) THEN e.name[k - 1] ELSE JUNK]
        /\ UNCHANGED disk

\* The clock's read waits for a tick and stores nothing (module Rtc); lines of
\* the terminal are the subject of TerminalInput.
Read(fd, nbytes) ==
    IF fd = 1 \/ ~InUse(fd) THEN Refused
    ELSE CASE file_array[fd].op = "file" -> FileRead(fd, nbytes)
           [] file_array[fd].op = "dir" -> DirRead(fd, nbytes)
           [] file_array[fd].op = "rtc" -> Returns(0) /\ UNCHANGED <<disk, file_array>>

\* Files and directories are not written; the terminal takes all.  (The rate
\* a program writes to the clock is left out.)
Write(fd, bytes) ==
    IF fd = 0 \/ ~InUse(fd) THEN Refused
    ELSE IF file_array[fd].op # "terminal" THEN Refused
    ELSE Returns(Len(bytes)) /\ UNCHANGED <<disk, file_array>>

-----------------------------------------------------------------------------
(* The others *)

\* Where vidmap() may store the address: on the program's page.
Vidmap(place) ==
    IF place # "program" THEN Refused ELSE Returns(0) /\ UNCHANGED <<disk, file_array>>

\* The wrapper's test of the number, before its table is used.
InvalidNumber(n) == n < 1 \/ n > 12
CallNumber(n) == InvalidNumber(n) /\ Refused

\* open(), read() and write() refuse a NULL pointer, whatever the descriptor
\* and the name, with nothing done.
NullPointer == Refused

Request(r) ==
    \/ r.f = "open" /\ Open(r.name)
    \/ r.f = "close" /\ Close(r.fd)
    \/ r.f = "read" /\ Read(r.fd, r.nbytes)
    \/ r.f = "write" /\ Write(r.fd, r.bytes)
    \/ r.f = "vidmap" /\ Vidmap(r.place)
    \/ r.f = "number" /\ CallNumber(r.n)
    \/ r.f = "null" /\ NullPointer

-----------------------------------------------------------------------------
(* From a line at the shell to the argument of a program *)

\* Defect: no NUL behind the line.
BufferAfterRead_NoNul(buf, line) ==
    [i \in DOMAIN buf |-> IF i < Len(line) THEN line[i + 1] ELSE buf[i]]

\* terminal_read() puts a NUL behind the bytes it copies, and leaves the rest
\* of the buffer, in which the last line may still stand, alone.
BufferAfterRead(buf, line) ==
    [i \in DOMAIN buf |-> IF i < Len(line) THEN line[i + 1]
                          ELSE IF i = Len(line) THEN NUL ELSE buf[i]]

\* The shell puts a NUL in the place of the line feed.
ShellCommand(buf, line) ==
    LET cnt == Len(line)
        read == BufferAfterRead(buf, line)
    IN  IF cnt > 0 /\ read[cnt - 1] = "\n" THEN [read EXCEPT ![cnt - 1] = NUL] ELSE read

\* The bytes from a place on up to one of the given set.
UpTo(buf, from, ends) ==
    LET last == Min({i \in DOMAIN buf : i >= from /\ buf[i] \in ends} \cup {Cardinality(DOMAIN buf)})
    IN  [k \in 1 .. last - from |-> buf[from + k - 1]]

\* execute(): the name ends at a space, a line feed or a NUL; the argument
\* starts behind that byte, whatever it is.
Parsed(command) ==
    LET name == UpTo(command, 0, {NUL, " ", "\n"})
        args == UpTo(command, Len(name) + 1, {NUL, "\n"})
    IN  IF command[0] \in {NUL, " "} \/ Len(name) > BUF_LEN \/ Len(args) > BUF_LEN THEN [ok |-> FALSE]
        ELSE [ok |-> TRUE, name |-> name, args |-> args]

\* What getargs() gives a program whose buffer is long enough: the argument,
\* and a NUL, as the buffer is cleared before.
Getargs(args) ==
    [i \in 0 .. NameLen - 1 |-> IF i < Len(args) THEN args[i + 1] ELSE NUL]
=============================================================================
