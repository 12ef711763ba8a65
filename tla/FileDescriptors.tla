-------------------------- MODULE FileDescriptors --------------------------
(***************************************************************************)
(* The open, read and close system calls on files and directories          *)
(* (systemcall.c, filesystem.c), by processes that come and go on several  *)
(* terminals as TerminalStacks says.  read() turns interrupts on, so a     *)
(* tick may come between any two of its steps; the other calls run with    *)
(* interrupts off.  Descriptors 0 and 1 never change and are left out.     *)
(***************************************************************************)
EXTENDS TerminalStacks

CONSTANTS
    NFiles,        \* MAX_FILE_NUM
    BlockSize,     \* BLOCK_SIZE
    NBlocks,       \* data_block_num of the boot block
    Inodes,        \* inode -> [data_length, data_index]
    Directory,     \* the directory entries, from 0: [file_type, inode_num]
    Sizes,         \* the values of nbytes
    MaxPosition,   \* bound: file_read() goes on at no position behind this one
    MaxEntries     \* bound: dir_read() goes on at no position from this one on

FDs == 2 .. NFiles - 1
FileTypes == {"rtc", "dir", "file"}
Closed == [type |-> "none", inode |-> 0, file_position |-> 0, flags |-> 0]

ASSUME FilesAssumption ==
    /\ NTerminals \in Nat \ {0}
    /\ NFiles \in Nat /\ BlockSize \in Nat \ {0} /\ NBlocks \in Nat
    /\ Sizes \subseteq Nat /\ MaxPosition \in Nat /\ MaxEntries \in Nat

(* A file is as long as its inode says, and its blocks are on the disk; so *)
(* is the index behind those of a file that ends with a block.  The image  *)
(* in the repository is such a disk.                                       *)
ASSUME DiskAssumption ==
    \A d \in DOMAIN Directory : Directory[d].file_type = "file" =>
        LET node == Inodes[Directory[d].inode_num] IN
        /\ node.data_length \in Nat
        /\ \A i \in 0 .. node.data_length \div BlockSize :
             node.data_index[i] \in 0 .. NBlocks - 1

VARIABLES
    pid,          \* the global pid: the process launched or returned to last
    file_array,   \* process -> descriptor -> its entry in the PCB
    call,         \* process -> where it is in read()
    taken,        \* history: process -> descriptor -> what its reads have returned
                  \* since open, kept until a read strays
    strayed       \* history: some read has used the PCB of another process

fdvars == <<pid, file_array, call, taken, strayed>>
allvars == <<vars, fdvars>>

Nothing == [p \in Processes |-> [fd \in FDs |-> 0]]
Idle == [at |-> "user", fd |-> 0, nbytes |-> 0, curr |-> Nobody, offset |-> 0, data |-> <<>>]

TypeOKFiles ==
    /\ pid \in Processes \cup {Nobody}
    /\ DOMAIN file_array = Processes
    /\ \A p \in Processes, fd \in FDs : LET f == file_array[p][fd] IN
         /\ f.type \in FileTypes \cup {"none"}
         /\ f.inode \in DOMAIN Inodes
         /\ f.file_position \in Nat
         /\ f.flags \in {0, 1}
         /\ f.flags = 1 => f.type # "none"
    /\ \A p \in Processes : call[p].curr \in Processes \cup {Nobody}
    /\ strayed \in BOOLEAN

InitFiles ==
    /\ Init
    /\ pid = Nobody
    /\ file_array = [p \in Processes |-> [fd \in FDs |-> Closed]]
    /\ call = [p \in Processes |-> Idle]
    /\ taken = Nothing
    /\ strayed = FALSE

-----------------------------------------------------------------------------
(* A definition whose name ends in _ and a defect is not used by the       *)
(* specification: it is what the next definition would be with that defect *)
(* in the code.                                                            *)

(* get_pcb_addr(): the process of the terminal that runs. *)
PcbAddr_Pid == pid

PcbAddr == Last(stack[running])

(* The bytes of a file are named by where they are: block and place in it. *)
Contents(inode) ==
    [k \in 1 .. Inodes[inode].data_length |->
        <<Inodes[inode].data_index[(k - 1) \div BlockSize], (k - 1) % BlockSize>>]

(* One turn of the loop of read_data(): it fails on an index that is not   *)
(* one of a block.                                                         *)
Turn(r, block) ==
    LET at == r.offset % BlockSize
        n == IF at + r.length < BlockSize THEN r.length ELSE BlockSize - at
    IN  IF r.failed \/ block >= NBlocks THEN [r EXCEPT !.failed = TRUE]
        ELSE [offset |-> r.offset + n, length |-> r.length - n, failed |-> FALSE,
              data |-> r.data \o [k \in 1 .. n |-> <<block, at + k - 1>>]]

(* The loop, over the indices from the first on: what its turns leave.     *)
Turns(index, first, start, turns) ==
    LET After[i \in 0 .. turns] ==
            IF i = 0 THEN start ELSE Turn(After[i - 1], index[first + i - 1])
    IN  After[turns]

(* read_data(): the bytes copied, a block at a time; none when it fails,   *)
(* which it returns as -1.  The last turn copies nothing when the data     *)
(* ends with a block, but looks at the index.                              *)
ReadData_WholeBlocks(inode, from, nbytes) ==
    LET all == Contents(inode) IN
    IF from >= Len(all) THEN <<>>
    ELSE SubSeq(all, from + 1, from + BlockSize - (from % BlockSize))

ReadData(inode, from, nbytes) ==
    LET node == Inodes[inode]
        length == IF from + nbytes >= node.data_length THEN node.data_length - from ELSE nbytes
        first == from \div BlockSize
        end == Turns(node.data_index, first,
                     [offset |-> from, length |-> length, failed |-> FALSE, data |-> <<>>],
                     (from + length) \div BlockSize - first + 1)
    IN  IF from >= node.data_length \/ end.failed THEN <<>> ELSE end.data

(* What clear_file_descriptors() makes of the entries of process p. *)
Cleared_OfPid(p) == [file_array EXCEPT ![pid] = [fd \in FDs |-> [@[fd] EXCEPT !.flags = 0]]]

Cleared(p) == [file_array EXCEPT ![p] = [fd \in FDs |-> [@[fd] EXCEPT !.flags = 0]]]

-----------------------------------------------------------------------------
InUser == running # Nobody /\ call[PcbAddr].at = "user"

(* Processes come and go: execute() and halt() set pid, a tick does not.   *)
(* A new process finds the entries its slot was left with.                 *)
ShellStarts ==
    /\ StartShell
    /\ pid' = Last(stack'[running'])
    /\ UNCHANGED <<file_array, call, taken, strayed>>

Tick == Switch /\ UNCHANGED fdvars

(* Programs are launched when every terminal has its shell, as in the     *)
(* orderly runs of Scheduler.                                              *)
Execute ==
    /\ InUser
    /\ \A t \in Terminals : stack[t] # <<>>
    /\ Launch
    /\ pid' = Last(stack'[running])
    /\ UNCHANGED <<file_array, call, taken, strayed>>

Halt ==
    /\ InUser
    /\ Exit \/ Respawn
    /\ file_array' = Cleared(PcbAddr)
    /\ pid' = Last(stack'[running])
    /\ UNCHANGED <<call, taken, strayed>>

(* open() past its checks: the lowest closed descriptor. *)
Entry(dentry) ==
    [type |-> dentry.file_type,
     inode |-> IF dentry.file_type = "file" THEN dentry.inode_num ELSE 0,
     file_position |-> 0, flags |-> 1]

Open ==
    /\ InUser
    /\ \E d \in DOMAIN Directory, fd \in FDs :
         /\ file_array[PcbAddr][fd].flags = 0
         /\ \A lower \in 2 .. fd - 1 : file_array[PcbAddr][lower].flags = 1
         /\ file_array' = [file_array EXCEPT ![PcbAddr][fd] = Entry(Directory[d])]
         /\ taken' = [taken EXCEPT ![PcbAddr][fd] = 0]
    /\ UNCHANGED <<vars, pid, call, strayed>>

(* close(): the entry is reset, but for its inode. *)
Reset(f) == [f EXCEPT !.type = "none", !.file_position = 0, !.flags = 0]

Close ==
    /\ InUser
    /\ \E fd \in FDs :
         /\ file_array[PcbAddr][fd].flags = 1
         /\ file_array' = [file_array EXCEPT ![PcbAddr][fd] = Reset(@)]
    /\ UNCHANGED <<vars, pid, call, taken, strayed>>

-----------------------------------------------------------------------------
Took(p, fd, n) == IF strayed THEN Nothing ELSE [taken EXCEPT ![p][fd] = @ + n]

At(p, place) == running # Nobody /\ p = PcbAddr /\ call[p].at = place

(* read() of a directory or a file: the checks, and the jump through f_op. *)
Read ==
    /\ InUser
    /\ \E fd \in FDs, n \in Sizes :
         LET f == file_array[PcbAddr][fd] IN
         /\ f.flags = 1
         /\ f.type \in {"dir", "file"}
         /\ call' = [call EXCEPT ![PcbAddr] = [Idle EXCEPT !.at = f.type, !.fd = fd, !.nbytes = n]]
    /\ UNCHANGED <<vars, pid, file_array, taken, strayed>>

(* Both file_read() and dir_read() take the PCB of pid. *)
LoadPid(p) ==
    /\ \E type \in {"dir", "file"} :
         /\ At(p, type)
         /\ call' = [call EXCEPT ![p].at = IF type = "dir" THEN "offset" ELSE "data",
                                 ![p].curr = pid]
    /\ strayed' = (strayed \/ pid # p)
    /\ taken' = IF strayed' THEN Nothing ELSE taken
    /\ UNCHANGED <<vars, pid, file_array>>

(* file_read(): read_data() on the inode and position of that PCB... *)
LoadData(p) ==
    LET f == file_array[call[p].curr][call[p].fd] IN
    /\ At(p, "data")
    /\ f.file_position <= MaxPosition
    /\ call' = [call EXCEPT ![p].at = "advance",
                            ![p].data = ReadData(f.inode, f.file_position, call[p].nbytes)]
    /\ UNCHANGED <<vars, pid, file_array, taken, strayed>>

(* ... and its position moved on. *)
Advance(p) ==
    LET c == call[p] IN
    /\ At(p, "advance")
    /\ file_array' = [file_array EXCEPT ![c.curr][c.fd].file_position = @ + Len(c.data)]
    /\ taken' = Took(p, c.fd, Len(c.data))
    /\ call' = [call EXCEPT ![p] = Idle]
    /\ UNCHANGED <<vars, pid, strayed>>

(* dir_read(): the position... *)
LoadOffset(p) ==
    LET f == file_array[call[p].curr][call[p].fd] IN
    /\ At(p, "offset")
    /\ f.file_position < MaxEntries
    /\ call' = [call EXCEPT ![p].at = "store", ![p].offset = f.file_position]
    /\ UNCHANGED <<vars, pid, file_array, taken, strayed>>

NextOffset(offset) == offset + 1

(* The entry read is the one at the offset; from the last one on, 0 is     *)
(* returned instead of its name.                                           *)
StoreOffset(p) ==
    LET c == call[p] IN
    /\ At(p, "store")
    /\ file_array' = [file_array EXCEPT ![c.curr][c.fd].file_position = NextOffset(c.offset)]
    /\ taken' = Took(p, c.fd, 1)
    /\ call' = [call EXCEPT ![p] = Idle]
    /\ UNCHANGED <<vars, pid, strayed>>

ReadStep(p) ==
    LoadPid(p) \/ LoadData(p) \/ Advance(p) \/ LoadOffset(p) \/ StoreOffset(p)

NextFiles ==
    \/ ShellStarts \/ Tick \/ Execute \/ Halt \/ Open \/ Close \/ Read
    \/ \E p \in Processes : ReadStep(p)

SpecFiles == InitFiles /\ [][NextFiles]_allvars

-----------------------------------------------------------------------------
(* A process starts with no descriptor open but 0 and 1: halt() closes     *)
(* what its slot had open, construct_pcb_entries() does not.               *)
ClosedWhenFree ==
    \A p \in Processes \ Used, fd \in FDs : file_array[p][fd].flags = 0

(* What a process has open changes by its own calls only, though reads of  *)
(* others may be using its PCB: no step of another process opens, closes   *)
(* or renames a descriptor.                                                *)
OwnCallsOnly ==
    [][\A p \in Used, fd \in FDs :
         LET Held(f) == <<f.type, f.inode, f.flags>> IN
         Held(file_array'[p][fd]) # Held(file_array[p][fd]) => p = Last(stack[running])]_allvars

Slice(s, from, n) == SubSeq(s, from + 1, IF from + n < Len(s) THEN from + n ELSE Len(s))

(* Each read goes on where the last one of the descriptor ended, with the  *)
(* bytes of the file opened, block boundaries or not, and each directory   *)
(* entry comes once, as long as no read has used the PCB of another        *)
(* process: a tick between the steps of a read does no harm by itself.     *)
Continues(p) ==
    LET c == call[p]
        from == taken[p][c.fd]
    IN
    /\ At(p, "advance") =>
         c.data = Slice(Contents(file_array[p][c.fd].inode), from, c.nbytes)
    /\ At(p, "store") => c.offset = from

InOrderUnlessStrayed == ~strayed => \A p \in Processes : Continues(p)

(* A program is what a shell has launched; shells open no files. *)
Program(p) == \E t \in Terminals : \E i \in 2 .. Len(stack[t]) : stack[t][i] = p

(* A read that moves the position of a file some program has open returns  *)
(* bytes of the file its own program opened: file_read() is to "get        *)
(* current pcb" (filesystem.c).                                            *)
OwnBytes ==
    [][\A p \in Processes :
         LET c == call[p]
             moved == file_array[c.curr][c.fd]
         IN  Advance(p) /\ Program(p) /\ Program(c.curr) /\ moved.flags = 1 /\ moved.type = "file" =>
                 ToSet(c.data) \subseteq ToSet(Contents(file_array[p][c.fd].inode))]_allvars
=============================================================================
