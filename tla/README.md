# Verification of the Redstone operating system

TLA+ models, model-checking runs and machine-checked proofs for the kernel in
`student-distrib/`: an i386 teaching kernel with three text terminals, up to
seven processes in fixed slots, a timer-driven round-robin scheduler, a
read-only file system, a small `malloc`, and a game of 2048; and for programs
that run on it: those of `syscalls/` that exercise its calls, and `fish/`.

## 1. The system

One processor, one address space switch (`switch_pd`), no threads in the
kernel. What makes it concurrent is that **every gate of the IDT is an
interrupt gate**, so a system call or a handler runs with interrupts off, *except*
that `read()` executes `sti()` first (`systemcall.c:365`), and that user
programs run with interrupts on. Four interrupts arrive from outside: the timer
(`schedule_handler`, which leaves for another process's kernel stack), the
keyboard, the clock and the mouse. The parts share a handful of globals.

| part | state | operations | talks to |
|---|---|---|---|
| processes and scheduler (`systemcall.c`, `schedule.c`, `interrupt_wrapper.S`) | `pid`, `process_state[7]`, `terminal_process_info[3]`, `current_terminal_id`, `next_sche_terminal`, `sche_ready`, PCBs below 8 MB, `tss.esp0`, the user page, what is parked on each kernel stack | `execute`, `halt`, the tick, the boot loop | everything runs under it; reads `terminal_id` of the keyboard |
| terminal input (`keyboard_handler.c`, `terminal.c`) | `key_buf`, `key_buff_size`, `out_buf`, `read_ready`, `terminal_id` | keys, Alt-F*n*, `terminal_read` | the scheduler preempts readers; keys interrupt them |
| screen (`lib.c`, `terminal.c`) | three pages of video memory, `screen_x`, `screen_y` | `putc`, `backspace`, `clear`, scrolling, `terminal_write`, echo | written by the running program and by the keys |
| file descriptors, file system (`systemcall.c`, `filesystem.c`) | `file_array` in each PCB, the boot block, inodes | `open`, `read`, `close`, directory reads | finds the PCB by terminal or by `pid`; `halt` closes |
| real time clock (`rtc.c`) | `busy_rtc`, the rate | `open`, `read`, `write`, `close`, interrupt | masks of the interrupt controllers |
| interrupt controllers (`i8259.c`) | `master_mask`, `slave_mask` | `enable_irq`, `disable_irq`, `send_eoi` | all drivers |
| `malloc` and `free` (`malloc.c`) | `dynamic_memory_table` | both calls | user programs |
| 2048 (`game.c`, `ece3912048.c`) | board, score, `index_random` | a turn | `malloc`, `read` |
| memory and string functions (`lib.c`), name lookup (`filesystem.c`) | none | `memset`, `memcpy`, `memmove`, `strncmp`, `strncpy`, `itoa`, `printf` of numbers, `read_dentry_by_name` | `read_data`, `execute`, `open` |
| call and interrupt linkage (`systemcall_wrapper.S`, `interrupt_wrapper.S`, `exception_wrappers.S`, `exception.c`) | the interrupt flag, `save_eax`, what is in service | wrappers of calls, interrupts and exceptions | between a program, the scheduler and every handler |
| mouse (`mousedriver.c`) | the port it shares with the keyboard | `mouse_handler`, `read_mouse` | the keyboard controller |
| user programs (`syscalls/`) | a descriptor table, buffers | `ece391syserr`, `ls`, `cat`, `grep`, the shell | system calls |
| fish (`fish/fish.c`, `fish/blink.S`) | `blink_array`, `mp1_list_head`, the screen | `mp1_ioctl` (add, remove, sync, find), `mp1_rtc_tasklet`, `add_frames`, `main` | the clock, files, `vidmap` |
| paging, timer chip, boot | tables, ports | | see section 8 |

Hard behaviours, and what has to hold:

* **Context switches by hand.** A tick, `execute` and `halt` save and restore
  stack pointers in PCBs chosen by `pid`, the current terminal and the next one,
  in a different way each. Correct when the processor always runs the current
  terminal's process in its own address space with its own kernel stack
  (`RunningContext`), when what a tick restores is what a tick parked
  (`ParkedContexts`), when what `halt` jumps to is the frame its parent left
  (`ReturnPaths`), and when no slot is shared or leaked (`NoSharing`, `NoLeak`).
* **Start-up.** The boot loop calls `execute` with interrupts on, so a tick may
  come first, while `current_terminal_id` is -1 and indexes the words before
  arrays. The shells of the terminals are started by the first ticks.
* **One flag for three readers** (`read_ready`), tested and claimed in separate
  loads and stores with interrupts on.
* **Two notions of "current process"**: `terminal_process_info[current_terminal_id]`
  and `pid`, which a tick does not change.
* **Ways in and out of the kernel**: the result of a call goes through one word;
  a tick ends its interrupt in one process and returns in another, or never, when
  it starts a shell; a handler waits for bytes of the mouse with interrupts off.
* **A linked list in a fixed array** (`blink.S`): elements are unlinked by a walk
  along pointers to pointers, freed, and reused by the next addition, while four
  routines write to a screen that none of them reads.
* **Data read in pieces** that end anywhere: two pictures in step, one byte each;
  lines across the ends of a buffer; arguments behind a line's end.
* **Bounds**: 126 characters of a line, the last row of a page, the end of the
  `malloc` table, byte-sized counters, the pid at which launches are refused;
  alignment and overlap in the copies of `lib.c`, names without a NUL, the least
  number.

`PROJECT.json` lists each hazard at its line with the properties aimed at it.

## 2. The modules

| module | models | kind |
|---|---|---|
| `TerminalStacks` | what execute, halt and the scheduler promise | abstract |
| `Scheduler` | processes, slots, PCBs, kernel stacks, ticks | detailed |
| `SchedulerRefinement` | the mapping from `Scheduler` to `TerminalStacks` | refinement |
| `TypedLaunches` | `Scheduler` with the lines typed that make a shell launch or exit, for the run `scheduler_parent` | environment |
| `SchedulerProofs` | theorems of `Scheduler`; it goes through the steps of `TerminalStacks` | proofs |
| `TerminalInput`, `TerminalInputProofs` | line buffers and `terminal_read` | detailed, proofs |
| `FileDescriptors`, `MCFileDescriptors`, `FileDescriptorsProofs` | descriptors and reads; composed with `TerminalStacks` by EXTENDS | detailed, instance, proofs |
| `TerminalText` | what a screen promises: the last lines of its text | abstract |
| `Screen`, `ScreenProofs` | `putc`, scrolling, backspace, echo; implements `TerminalText` | detailed, proofs |
| `I8259` | the two masks, what is in service | operators and state |
| `Rtc` | the clock as a file, on the masks of `I8259` | detailed |
| `Interrupts`, `InterruptsProofs` | wrappers, end of interrupts, interrupt flag, mouse; composed with `Rtc` by EXTENDS, and an implementation of it | detailed, proofs of both |
| `Malloc`, `MallocProofs` | `malloc` and `free` | detailed, proofs |
| `Game2048`, `MCGame2048`, `Game2048Proofs` | the game | algorithm, instance, proofs |
| `LibCalls` | memory and string functions, numbers, name lookup | algorithms |
| `SystemCalls` | what every call answers one program; the command line | detailed, on `LibCalls` |
| `UserPrograms`, `MCUserPrograms` | `ece391syserr`, `ls`, `cat`, `grep`, the shell's line | programs composed with `SystemCalls` by EXTENDS, instance |
| `Blinkers` | what the blink service promises: a list of blinks | abstract |
| `Blink` | `blink.S` and the allocator of `fish.c` | detailed |
| `Fish`, `MCFish`, `FishProofs` | the program `fish.c`, or any caller, on `Blink`; implements `Blinkers` | detailed, instance, proofs |

A definition whose name ends in `_` and a defect (`FirstFree_OffByOne`) is not
used by a specification. It says what the definition after it would be with that
defect in the code, and there is one for every property that is checked: with it
in place the property fails.

Names are the source's: variables are the C globals, actions are handlers or
calls. `PROJECT.json` gives the lines of every definition.

**Scheduler.** A kernel stack pointer is the slot whose 8 KB it points into;
`frame` says what is parked there (`execute` or `schedule_handler`); `esp`,
`esp0`, `sche_esp` and `parent` are PCB fields; `pd` is the slot mapped at 128
MB. Slot -1 is a real address in the code, one PCB above slot 0, and in the model. Index
-1 of `terminal_process_info` is a word of its own. `cpu` is where the processor
runs; `LOST` is a jump to something no one parked. `Execute`, `HaltChild`,
`HaltRoot`, `Tick` (with its branches `TickSwitch`, `TickNewShell`,
`TickNoShell`) and `SwitchTerminal` are whole handlers. `BootExecute` is the boot
loop, which may or may not run before the first tick. `Disorder` names what the
environment may do beyond orderly use: launch from a terminal not on the display
(`"background"`), with no free slot (`"crowded"`), before all shells are up
(`"early"`). Left out: loading and checking the program, arguments. `TypedLaunches`
adds the lines without which a shell waits in `terminal_read`: it launches or exits only
after one was typed at its terminal, so a launch from a hidden terminal comes after
a switch away from it.

**TerminalInput.** A key is one action. Each shared load or store of
`terminal_read` is an action: `LoadReady`, `LoadDisplay`, `Claim`, `Test`,
`Copy`, `Finish`, with ticks and keys between any two; a read that asks for nothing
takes the signal, too (`Claim`). The user presses any key at any time, at most
`MaxHaste` times without waiting for the readers (`Settled`). Four history variables
carry the properties: the line `entered` at a terminal, whether it is still `due` to
be read, whether a reader has been `alone` past its loop since it left it, and the
user's `haste`, which is forgotten when all is quiet again.

**FileDescriptors.** EXTENDS the abstract stacks, which `Scheduler` implements,
so processes come and go as proved there; adds `pid`, the PCBs' `file_array` and
the steps of `read` after its `sti`: `Read`, `LoadPid`, `LoadData`, `Advance`,
and for directories `LoadOffset`, `StoreOffset`. Bytes are named by block and
place, so that a byte of a wrong file or block is seen. The loop of `read_data` is
a function of its turns: `Turn` is one block, `Turns` all that some of them copy.
`DiskAssumption` says that lengths and block numbers are those of a file system,
with a number also behind the blocks of a file that fills them, which the loop
reads but does not use; the image in the repository is such a disk. Two history variables
say what reads have returned so far, and whether some read used another
process's PCB.

**Screen.** Both copies of each branch in `lib.c` (for the running terminal and
for the one on the display) become one operator on a screen. `terminal_write` is
taken a byte at a time, which allows more interleavings than the code has.
`TidyClear` says that Ctrl-L is pressed with no line begun.

**Rtc, I8259.** `rtc.c` passes the vector 0x28 where `i8259.c` expects a line;
the bit is shifted by 32, which the processor takes as 0, and the model does what
it does. A program may hold several descriptors of the clock (`opened` counts
them; `MaxOpen` is 6 in the code, 2 in the configurations), and closing any one of
them, by whichever program, masks the line under all others (`rtc.c:63`):
`OpenIsHeard` therefore speaks of what was opened since the last `close`, and
`StarvedByOthersOnly` excepts a reader whose clock was closed and stays closed; such
a reader waits for ever. The wait of `rtc_read` may be interleaved with everything.

**Malloc.** One turn of the search loop per action: `Jump` over a block, `Take`,
`Stuck` (free cells, but not enough: the index does not move), `Full`.
`SpaceChecks` reads past the table as the code does, with any outcome there.

**Game2048.** The board is what `get_cell` finds at a row and a column. A line is the
sequence of its cells from the wall they slide to. A move is a run of `Swapped` and
`Doubled`, the bodies of its loops, in the order of the loops (`Pass`, `Pack`, `Merge`), on the
line, the gain and the flag `moved`. The second packing, which the code leaves out
when nothing has moved, has nothing to do then. `rand_new_tile` is one try per step.

**LibCalls.** A behaviour is one call with any arguments and its answer. The
assembler loops are split at word boundaries as in the code; a copy goes unit by
unit, so that an overlap in the wrong direction would show. Left out: the
direction flag, which `memmove` leaves set (section 8).

**Interrupts.** `gate` is the interrupt being handled and how far its handler is;
`at[p]` where a program stands in a call. Everything a handler does with
interrupts off is one action (`Tick`, `Clock`, `Key`, `Mouse`), but for
`read_mouse`, which waits. `Tick` either ends its interrupt in `schedule_handler`
or in `run_a_new_shell`, whose `execute` never returns to it. The three uses of
`save_eax` are `Call` (the store, interrupts off), `ReadReturns` (the store,
interrupts on) and `Load`. The port of the keyboard controller is one byte, which
both devices fill; `Disorder` says what they may do beyond orderly use: a key
between the bytes of a packet, or a packet with the overflow bit, whose head
`mouse_handler` passes over, taking the bytes behind it for heads. An exception
stops the machine; `exception.c` (80, 92) has the names of breakpoint and overflow
the wrong way round, which the model leaves out.

**SystemCalls, UserPrograms.** One process makes calls one after the other (what
others do in between is in `FileDescriptors`). Each early return of a call is a
disjunct that answers -1 and changes nothing. A program is its sequence of
calls; a test of `ece391syserr` is the list of calls it makes and a verdict on
the answers. The directory has a name that fills its field, as the repository's
`fsdir/verylargetxtwithverylongname.txt` does: `dir_read` answers one byte more than
it copies, and the property says that `ls` and `grep` print this byte of their buffers,
which nobody wrote, behind such a name and behind no other (`Shown`). What they write
behind their buffers then is left out. Before it, another program has run in the same slot, made any calls
and left its descriptors to `clear_file_descriptors`. In `grep`, the buffer keeps
what earlier reads left in it and a byte behind it that nobody wrote. The shell is
its line, its buffer with an older line in it, and what `execute` makes of them;
its answer for a program ended by an exception (256) never comes, as no exception
returns.

**Blink, Fish.** The array, its `next` fields and the head are as in the code, with
0 for NULL; a walk along the list is the function `At`, and a routine that walks
comes back only if the list `Ends`, or the walk finds what it looks for: on a circle the action
is not enabled and `KeepsBlinking` fails. `asked` is a history variable, here and in
`Blinkers`: the call just made with its arguments, so that an answer is held against what
was asked, and a refusal is promised only for a full list or a location off the screen. `PicturesAssumption` says that 16 bits hold
every location in the pictures. A 16-bit countdown wraps at `Word` and is
compared as signed. `smudged` is a history variable: places where a call wrote or
left a character without regard to the blink's phase. A behaviour is either the
program `fish` on any two pictures, or a caller that makes any `MaxCalls` calls
between ticks.

## 3. The runs

| run | instance | what it shows |
|---|---|---|
| `scheduler` | 3 terminals, 6 slots, limit 4, orderly; 113 000 states | all contexts, return paths and slots are right under every interleaving; `TerminalStacks` is implemented; each terminal runs again and again |
| `scheduler_early` | 3 terminals, 4 slots, limit 3, programs launched during start-up; 38 000 | the round is kept even when `execute` refuses a shell to a tick |
| `scheduler_parent` *(violated)* | 3 terminals, 7 slots, background launches, each after a typed line | a program launched from a terminal that was switched away from after its line was typed gets the displayed terminal's process as parent |
| `terminal_input` | 2 terminals, lines of 2, requests of 0, 1 and 3 at one of them and of 3 at the other, a user who once does not wait; 391 000 | undisturbed reads return whole lines of their own terminal; as long as the user waits, none returns without a line, and each line is read or dropped by a read of nothing |
| `malloc` | 8 cells, 3 sizes | blocks do not overlap, the search is never inside one, NULL means the table is covered, the search ends or is at a gap too short |
| `game_2048` | boards 2x2, 2x3, 1x4, 4x1; 103 000 | moves, score, new tile and end agree with the rules |
| `files` | 2 terminals, 3 processes, 1 descriptor each, file of two blocks; 3.1 million | descriptors stay with their process, slots are reused clean, reads go on in order unless a read strayed |
| `files_stale` *(violated)* | the same with 4 processes and two files | a read of a program returns bytes of the file another program has open, and moves that position |
| `interrupts` | 2 programs on 2 terminals, up to two descriptors of the clock each, devices in order; 63 000 | the clock's reads wait for an interrupt and starve only by other reads or a closed clock; an open clock is heard until somebody closes it; no other line is masked, none left in service on any path, results do not mix; ticks, keys, packets go on for ever |
| `calls` | `LibCalls`: 13 bytes in words of 4, numbers of 8 bits, names of 3, directories of 2; programs: 8 descriptors, a directory of 6 with a name that fills its field, files of up to 5 bytes read 3 at a time, lines of up to 5 characters; 553 000 | copies, fills, lookups and printed numbers are what was asked for; `ece391syserr` passes; `ls`, `cat` and `grep` print what they should, but for the byte behind a full name; arguments are those typed |
| `fish` | pictures of up to 3 and 2 bytes on 3 rows of 2, 4 elements, countdowns of 3 bits, any 4 calls; 22 000 | the list in the array implements `Blinkers`, each call answers what was asked and is refused only when it must be; the screen shows the phases; the pictures are shown whole; blinks go on blinking |
| `screen` | 2 terminals, pages of 3 rows of 2, lines of 3; 93 000 | pages show their terminal's text; nothing is written outside |

**Bounds and why they are enough.** Three terminals are the kernel's number;
six slots, one fewer than the kernel's seven, still leave programs three deep on
one terminal, all slots full, slots reused by other terminals, and the limit
reached. In `TerminalInput` two terminals suffice for stealing and crossing, two
characters for a full line, one that fits and an empty one; requests of 0, 1 and 3 ask for
nothing, end before and after a line. One moment of haste (`MaxHaste`) already lets a
switch or an Enter fall anywhere into the reads; the proofs hold for any number. Eight `malloc` cells hold every order of blocks of one, two and
three cells with gaps too short. Three words and a byte give each copy every
alignment, with and without words between the bytes at either end; eight bits
have a least number and two hexadecimal digits. A block of two bytes, a file of two blocks and
requests of three give reads inside, across and at the end of blocks;
`MaxPosition` and `MaxEntries` stop reads behind the end. Three rows of two
columns wrap and scroll within one typed line. Two programs on the clock are
enough for one to take the other's tick; `Rtc.cfg` (by hand) has three. Files of five
bytes read three at a time give `grep` lines that end before, at and behind the
end of a buffer, twice. Four elements let four calls fill, empty and refill the
array with two blinks at one place; three bits have a lit phase of no tick and one of
the least signed number. The two-by-three board has lines
of two and three, four-cell lines have two merges.

**Symmetry** is used in `files` and `files_stale`, over processes, which nothing orders
there; the properties of these runs are invariants and action properties.

**Deadlock** is checked except where the system stops: the game ends, a
behaviour of `UserPrograms` is one call or two programs, `Interrupts` stops at an exception,
`scheduler_early` may lose the processor, and the violation runs.

## 4. Fairness

* `Scheduler`: `WF(Tick)`. The timer interrupts for ever, and every way back to a
  program restores the interrupt flag.
* `TerminalInput`: `WF(Tick)`, and strong fairness of each reader's next step: it
  has the processor again and again, for far longer than a step takes. Nothing is
  assumed of the user.
* `Malloc`: weak fairness of the loop, which runs with interrupts off.
* `Game2048`: weak fairness of everything but keys.
* `Rtc`: the clock interrupts again and again *if its line is open again and
  again* (strong: the controller latches a request that comes while the line is
  masked), and a program that waits gets to look at the flag. This is weak: a flag
  that is set again before a reader looks may be missed for ever, hence
  `StarvedByOthersOnly` promises no more than that others then return.
* `Interrupts`: weak fairness of the handlers, which the processor runs once it
  has entered them, and of the mouse's packet; strong fairness of taking each
  line's interrupt, and of a program's next step: the timer and the clock interrupt
  far more slowly than a handler runs (at most 1024 times a second), so they keep
  out neither the lines below them nor a program that is scheduled again and
  again. Nothing is assumed of programs' calls, of keys, or of when the mouse moves.
* `Fish`: weak fairness of the tick, which is the return of `read` of the clock,
  and of `main`'s own steps. The caller that does as it likes owes nothing.

## 5. What is proved

With TLAPS, for every value of the constants:

* `SchedulerProofs`, for orderly launches (`Disorder = {}`), any number of
  terminals, any larger number of slots, any limit: the eight theorems
  `TypeCorrect`, `RunningContextSafe`, `ParkedContextsSafe`, `ReturnPathsSafe`,
  `SlotsNotShared`, `SlotsNotLeaked`, `RoundRobinSafe`, `OthersUndisturbedSafe`.
  None of the invariants is inductive alone: a return path is right because the
  parent's slot is not shared, slots are not shared because `execute` sees all
  live ones, a parked context stays because its stack is not another's. `IInv` is
  their conjunction with two facts about start-up: until every terminal has its
  shell slots are handed out in order, one ahead of the terminals when the boot
  loop came first (`Starting`), and the indices go together (`Progress`). The proof has one lemma per action,
  and `TickNoShellImpossible` says that an orderly start never sees a refusal.
* `SchedulerProofs` again: `ImplementsStacksSafely`, for orderly launches: every
  behaviour of `Scheduler` is one of `TerminalStacks`, but for its fairness. A
  terminal's stack is what the chain of `parent` fields from
  `terminal_process_info` spells, by a recursive function, and what that yields is
  known only where the chain ends. `StackInv` says that the chains are stacks, that
  no slot is in two of them or twice in one, and that every owned slot is in some; a
  chain is then no longer than there are slots. A launch is a push, `halt` a pop.
* `TerminalInputProofs`: `BuffersTerminatedSafe`, for any line length and user:
  behind the line being typed, and somewhere in each line handed over, there is a
  NUL. `WholeLinesSafe`, for any user, number of terminals and line length: a read
  returns its line whole, unless a switch falls into it or an Enter into its copying
  loop, or another reader was still past its loop when it left its own. `LineInv` says that one
  who reads alone is the reader of the terminal on the display, and how much of the
  line it has copied. `ReadsWaitForALineSafe` is about a user who waits
  (`haste = 0`): the signal, and a reader past its loop, then mean a line due at the
  terminal on the display. A user who does not wait gives the signal to another
  reader (section 6); when all is quiet again, the promise holds anew.
* `MallocProofs`: `NoOverlapSafe` and `IndexOutsideBlocksSafe`, for any table and
  any sizes below the wrap of `KB_size`, from an invariant that the cells between
  a block's first and last are 0. `NullMeansFullSafe` needs no such bound: every
  cell behind the search is covered by some length in the table.
* `InterruptsProofs`, of `Rtc` alone: `TypeCorrect`, `OthersHeardSafe`,
  `OpenIsHeardSafe`, `ReadsWaitForTickSafe`, for any set of programs and any number
  of descriptors, whoever closes. The key conjunct: while the flag
  is cleared, every waiting program has been interrupted since its call.
* `InterruptsProofs`, of the linkage, for any number of programs and whatever the devices do:
  `ResultsDeliveredSafe` and `NothingLeftInServiceSafe`, from the inductive `GInv`,
  which relates the stage of the handler to what is in service (nothing more than
  the interrupt being handled) and says that a result in `save_eax` belongs to the
  program that has the processor, unless a read was preempted. `ImplementsRtc`
  shows that every step here is a step of `Rtc` or leaves it alone, so that what is
  proved of `Rtc` holds under the wrappers and the scheduler
  (`ClockUnderWrappers`).

* `ScreenProofs`: `PositionOnPageSafe`, for any number of terminals and any page
  that holds a line below its first row, when Ctrl-L is pressed between lines. The
  invariant is about the place *and* the length of the line: `backspace` stays on
  the page because what may be taken back has been put there, and a scroll never
  takes away the rows of the line being typed.
  `ImplementsTextSafe`: under the same assumption a screen goes through the steps of
  `TerminalText`. `TextInv` adds that a page is blank behind its position; then the
  rows up to there *are* the last lines of the text, and each branch of `putc` and
  `backspace` extends, breaks, drops or wipes them.
* `FileDescriptorsProofs`: `ClosedWhenFreeSafe` and `OwnCallsOnlySafe`, for any
  number of terminals, processes and descriptors, wherever ticks fall into reads.
  A read that has taken the PCB of another process, or of a slot nobody has any
  more, moves a position there (finding `files_stale`), but leaves the type, inode
  and flag; and the one process that leaves the stacks in a step is the caller of
  `halt`, which has just closed its own descriptors. `ReadDataSlices` is about
  `read_data` alone: for any block size, position and request, its loop returns the
  bytes from the position to the end of the request or of the file. With `OrderInv`
  (until some read strays, every descriptor is where its reads ended, and every read
  under way holds the data or offset that belongs there) `InOrderSafe` follows.

* `FishProofs`, for any screen, array, pictures and calls, and any lengths of the
  phases: `TypeCorrect`, `ListIsWhatIsInUseSafe`, `ShowsPhaseSafe` and
  `ImplementsBlinkersSafe`: every call, with its arguments and its answer, and every tick is
  a step of `Blinkers`; an addition is refused just when the list is full or the location
  off the screen (`FullWhenRefused`: an allocator that finds nothing means a full list). All of it under
  `NobodyAsksForZero`: a blink at location 0 is accepted, but its element counts as
  free (`FishZero.cfg`, section 6). The inductive invariant `BlinkInv` says that
  there is a sequence of elements, none twice, that the head and the `next` fields spell (`Linked`),
  that it holds exactly the elements in use (`InUse`), and that the screen is as it
  should be (`Shows`). `PushLinked` and `DropLinked` are what an addition and a removal
  do to the sequence; `LinkedIsListed` that the walk of the code yields it.
  `FramesShownSafe`: what `add_frames` has added when it returns is the two pictures,
  for any two files, whatever their lines and ends. `PictureInv` says that each file is
  `InStep` with the scan: its characters read so far are at places before the row and
  column of the scan, and the next one stands there or, when the file is held back, at
  the start of the next row. A place is passed with its character (`ReadInStep`), and
  the list grows by a blink for each place that is not blank in both (`ColumnPictures`). Its
  hypothesis, `PicturesFit`, is that the array has an element for each of these
  places: the two of the repository have less than 200 bytes each, the array has 2000 elements.
* `Game2048Proofs`, for any boards: `MovesByTheRulesSafe` (each key leaves on every
  line, from its wall on, what the rules make of it, and a tile comes exactly when the board changed), `MovedMeansChanged` (what a move returns says
  whether it changed the board), `LegalMoveAgrees` (`legal_move_check` finds a
  legal move exactly when one of the four moves changes the board) and, for boards other than those of
  one cell, `OverMeansStuckSafe`. Every swap and every merge makes its line greater
  at the first place where it changes it (`Above`), so that none is undone
  later; the first of them that is possible is one between neighbours of the line as it
  was (`SlidFacts`). A board with a tile and a gap has one with a tile next to it in some row
  or column (`LegalMoveFound`). For the rules: a swap, and so a whole packing, leaves the sequence of
  the tiles alone (`PackPacked`); each pass from the wall closes the first gap or brings the tiles
  one place nearer, and each pass towards it brings one more tile to the wall, so that as many passes
  as a line has steps pack any line (`PackCloses`); and the pass of merges, which
  runs over a packed line, has at each place done what the rules do to the tiles
  before it and left the others as they were (`Midway`, `MergePacked`).

The assumptions are the named ASSUMEs of the modules and those in the theorems'
statements.

Where the code loops over data (the blocks of `read_data`, the chain of parents, the
list of blinks, the passes over a line), the model is a recursive function, and the proof is by induction for a *set* of
numbers, from the least one outside it (`Least`): the library's induction theorems are
about predicates, which the provers here cannot instantiate.

**Only model-checked**: liveness (`TerminalsRun`, `LinesGetRead`, `TileComes`,
`ReadersStarvedByOthersOnly`, `LinesHeard`, `KeepsBlinking`, `SearchEnds`) and the
fairness in `ImplementsStacks`, as ENABLED is beyond the prover; `ScoreIsBuiltFromTwos`, which
sums powers of two over the board (a fold of the community modules, which takes the operator
it folds as a parameter); the
properties of `UserPrograms`, whose definitions use RECURSIVE
operators; `LibraryAsPromised`, whose operators fold over bytes.

## 6. Disagreements with the code's own words

Two are checked as runs that must fail: `scheduler_parent` and `files_stale`
(`PROJECT.json`, "findings"). Further configurations show others, to be run by hand
(`tlc -config X.cfg M`):

| configuration | module | property that fails | the code |
|---|---|---|---|
| `SchedulerMaximum.cfg` | `Scheduler` | `AtMostMaximum` | the limit is tested on the last pid (`systemcall.c:224`): a seventh process is admitted |
| `SchedulerRefused.cfg` | `Scheduler` | `RefusedOnlyWhenFull` | ... and launches are refused while slots are free |
| `SchedulerPid.cfg` | `Scheduler` | `PidIsCurrent` | "indicate the current pid" (`systemcall.c:38`) fails after one tick |
| `TerminalInputLost.cfg` | `TerminalInput` | `LinesAlwaysRead` | "send read signal" (`keyboard_handler.c:253`): a line is never read, another terminal's reader took the one signal |
| `TerminalInputStolen.cfg` | `TerminalInput` | `ReadsAlwaysWait` | after a switch, the reader of another terminal takes the signal (`terminal.c:21`) |
| `TerminalInputOverrun.cfg` | `TerminalInput` | `BufferFits` | `nbytes + 1` bytes are stored (`terminal.c:30`) |
| `MallocStuck.cfg` | `Malloc` | `MallocReturns` | "looking for next available spot" never passes a gap that is too short (`malloc.c:45`): `malloc` loops with interrupts off |
| `MallocArena.cfg` | `Malloc` | `InArena` | the space check reads past the table (`malloc.c:42`) |
| `MallocWraps.cfg` | `Malloc` | `NoOverlap` | 255 KB reserve nothing (`malloc.c:31`) |
| `InterruptsOvertaken.cfg` | `Interrupts` | `ReadsReturnTheirOwn` | a read preempted between `systemcall_wrapper.S:23` and the `popfl` returns what another call left in `save_eax`, against "return each function" (`systemcall.c:359`) |
| `InterruptsKey.cfg` | `Interrupts` | `LinesHeard` | a key between the bytes of a packet is taken for its head (`mousedriver.c:52`): the handler waits for ever, interrupts off |
| `InterruptsOverflow.cfg` | `Interrupts` | `LinesHeard` | the bytes behind the head of an overflow packet are taken for heads (`mousedriver.c:63`), with the same end |
| `FishZero.cfg` | `MCFish` | `ListIsWhatIsInUse` | location 0 is accepted (`blink.S:132`) but marks an element as free (`fish.c:165`) |
| `Game2048Stuck.cfg` | `MCGame2048` | `TileAlwaysComes` | ten fixed numbers do not name every cell of a board of five or more (`game.c:351`) |

With `TidyClear = FALSE`, `PositionOnPage` of `Screen` fails: a line begun before
Ctrl-L is taken back from the row above the page (`lib.c:84`). On a board of one cell, which `2048.c` allows, the game waits
for a key although none moves anything, as the first tile is put without a check.

## 7. Reading order

`TerminalStacks`, `Scheduler`, `SchedulerRefinement`, then any component; `I8259`
and `Rtc` before `Interrupts`; `Blinkers` before `Blink` and `Fish`; `LibCalls` and
`SystemCalls` before `UserPrograms`. `Rtc.cfg` checks `Rtc` alone, with three
programs.

## 8. Not modelled, and the plan

Not modelled: page tables (constant after boot, but for the switch, which is in
`Scheduler`) and the mapping `vidmap` makes, the rate of the clock, the hardware
cursor and attributes, the mouse's position and `init_mouse`, the loader's checks,
the direction flag (set by `memmove`, handed to a new program by `execute`), sound,
the user programs that only print (`hello`, `counter`, `pingpong`, `testprint`,
`emulate`) or use signals, which the kernel refuses (`sigtest`), and the drafts
`signal.c` and `soundblaster.c` outside the kernel. The user program
`ece3912048.c` is the game of `game.c` again; the model is mapped to the latter.

Order of the plan, the most important first:

1. `Scheduler` with its abstract stacks, checked and proved; `TerminalInput`;
   `Malloc`; `Rtc`; `FileDescriptors`; `Screen`; the game; `LibCalls`. *Done.*
2. The linkage of calls, interrupts and exceptions with the mouse, checked and
   proved (`Interrupts`); the calls of one program and the programs that exercise
   them (`SystemCalls`, `UserPrograms`); fish (`Blinkers`, `Blink`, `Fish`). *Done.*
3. `FileDescriptorsProofs`: `ClosedWhenFree`, `OwnCallsOnly`, any number of
   processes and descriptors; `ScreenProofs`: `PositionOnPage` for any page. *Done.*
4. The step simulations behind `ImplementsStacks` and `ImplementsText`; whole lines of
   `TerminalInput`; reads in order of `FileDescriptors`; `NullMeansFull`. *Done.*
5. The list of `Blink` and its refinement; the moves of the game and the test for
   its end. *Done.*
6. `rtc_write` against other programs; the shift, caps, control and alt keys; the
   mapping of `vidmap` against the switch of terminals.
