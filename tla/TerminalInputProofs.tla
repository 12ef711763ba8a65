------------------------- MODULE TerminalInputProofs ------------------------
(***************************************************************************)
(* The line buffers stay terminated whatever the user and the readers do;  *)
(* a read that nothing disturbs returns the line entered at its terminal,  *)
(* and it waits for one as long as the user waits.                         *)
(***************************************************************************)
EXTENDS TerminalInput, SequenceTheorems, TLAPS

(* What is typed, and BuffersTerminated. *)
BufferInv ==
    /\ key_buf \in [Terminals -> [Columns -> Symbols]]
    /\ key_buff_size \in [Terminals -> 0 .. SizeLimit]
    /\ out_buf \in [Terminals -> [Columns -> Symbols]]
    /\ terminal_id \in Terminals
    /\ BuffersTerminated

(* Enter puts a NUL behind the line it moves and leaves key_buf clear. *)
LEMMA EnterBufferInv ==
    ASSUME BufferInv, Enter
    PROVE  BufferInv'
<1> DEFINE n == key_buff_size[d]
           size == IF n < SizeLimit THEN n + 1 ELSE n
           line == IF n < SizeLimit
                   THEN [key_buf[d] EXCEPT ![n] = NL, ![n + 1] = NUL]
                   ELSE [key_buf[d] EXCEPT ![n] = NUL]
<1>1. /\ d \in Terminals /\ n \in 0 .. SizeLimit /\ SizeLimit \in Nat
      /\ key_buf[d] \in [Columns -> Symbols] /\ out_buf[d] \in [Columns -> Symbols]
  BY InputAssumption DEF BufferInv, d
<1>2. /\ line \in [Columns -> Symbols] /\ size \in Columns /\ line[size] = NUL
      /\ \A c \in Columns : c > size => line[c] = NUL
  <2>1. \A c \in n .. SizeLimit : key_buf[d][c] = NUL
    BY <1>1 DEF BufferInv, BuffersTerminated
  <2>2. CASE n < SizeLimit
    <3>1. line = [[key_buf[d] EXCEPT ![n] = NL] EXCEPT ![n + 1] = NUL] /\ size = n + 1
      BY <2>2
    <3>2. NL \in Symbols /\ NUL \in Symbols /\ n \in Columns /\ n + 1 \in Columns
      BY <1>1, <2>2 DEF Columns, Symbols
    <3>3. line \in [Columns -> Symbols] /\ line[n + 1] = NUL
      BY <1>1, <3>1, <3>2
    <3>4. ASSUME NEW c \in Columns, c > n + 1
          PROVE  line[c] = NUL
      BY <1>1, <2>1, <3>1, <3>2, <3>4 DEF Columns
    <3> QED BY <3>1, <3>2, <3>3, <3>4
  <2>3. CASE ~(n < SizeLimit)
    BY <1>1, <2>1, <2>3 DEF Columns, Symbols
  <2> QED BY <2>2, <2>3
<1> DEFINE moved == [c \in Columns |-> IF c <= size THEN line[c] ELSE out_buf[d][c]]
           cleared == [c \in Columns |-> IF c <= size THEN NUL ELSE line[c]]
<1>3. /\ out_buf' = [out_buf EXCEPT ![d] = moved]
      /\ key_buf' = [key_buf EXCEPT ![d] = cleared]
      /\ key_buff_size' = [key_buff_size EXCEPT ![d] = 0]
      /\ terminal_id' = terminal_id
  BY DEF Enter, LastMoved, BufferInv
<1> HIDE DEF line, size, n
<1>4. moved \in [Columns -> Symbols] /\ moved[size] = NUL
  BY <1>1, <1>2 DEF Columns
<1>5. cleared \in [Columns -> Symbols] /\ \A c \in Columns : cleared[c] = NUL
  BY <1>1, <1>2 DEF Columns, Symbols
<1> HIDE DEF moved, cleared
<1>6. \A t \in Terminals : \E c \in Columns : out_buf'[t][c] = NUL
  BY <1>1, <1>2, <1>3, <1>4 DEF BufferInv, BuffersTerminated
<1>7. \A t \in Terminals : \A c \in key_buff_size'[t] .. SizeLimit : key_buf'[t][c] = NUL
  BY <1>1, <1>3, <1>5 DEF BufferInv, BuffersTerminated, Columns
<1> QED
  BY <1>1, <1>3, <1>4, <1>5, <1>6, <1>7 DEF BufferInv, BuffersTerminated

(* Typing and erasing keep NULs behind what is typed. *)
LEMMA TypingBufferInv ==
    ASSUME BufferInv, (\E c \in Chars : TypeChar(c)) \/ Backspace
    PROVE  BufferInv'
<1> DEFINE n == key_buff_size[d]
<1>1. /\ d \in Terminals /\ n \in 0 .. SizeLimit /\ SizeLimit \in Nat
      /\ key_buf[d] \in [Columns -> Symbols]
  BY InputAssumption DEF BufferInv, d
<1>2. ASSUME NEW c \in Chars, TypeChar(c)
      PROVE  BufferInv'
  BY <1>1, <1>2 DEF TypeChar, BufferInv, BuffersTerminated, Columns, Symbols
<1>3. CASE Backspace
  BY <1>1, <1>3 DEF Backspace, BufferInv, BuffersTerminated, Columns, Symbols
<1> QED BY <1>2, <1>3

(* BuffersTerminated and the types it needs, for every step.               *)
LEMMA NextBufferInv ==
    ASSUME BufferInv, [Next]_vars
    PROVE  BufferInv'
<1>1. CASE Enter
  BY <1>1, EnterBufferInv
<1>2. CASE (\E c \in Chars : TypeChar(c)) \/ Backspace
  BY <1>2, TypingBufferInv
<1>3. CASE SwitchTerminal
  BY <1>3 DEF SwitchTerminal, BufferInv, BuffersTerminated, buffers
<1>4. ASSUME NEW t \in Terminals, Finish(t)
      PROVE  BufferInv'
  BY <1>4, InputAssumption DEF Finish, BufferInv, BuffersTerminated, d, Columns, Symbols
<1>5. CASE \/ Tick \/ UNCHANGED vars
           \/ \E t \in Terminals : \/ Call(t) \/ LoadReady(t) \/ LoadDisplay(t)
                                   \/ Claim(t) \/ Test(t) \/ Copy(t)
  BY <1>5 DEF Tick, Call, LoadReady, LoadDisplay, Claim, Test, Copy, vars, buffers,
    BufferInv, BuffersTerminated
<1> QED BY <1>1, <1>2, <1>3, <1>4, <1>5 DEF Next, Key, Reader

(* BufferInv is inductive, for any user.                                   *)
THEOREM BufferInvariance == Spec => []BufferInv
<1>1. Init => BufferInv
  <2> SUFFICES ASSUME Init PROVE BufferInv
    OBVIOUS
  <2>1. SizeLimit \in Nat /\ 0 \in Terminals /\ 0 \in Columns /\ NUL \in Symbols
    BY InputAssumption DEF Terminals, Columns, Symbols
  <2>2. \A t \in Terminals : key_buff_size[t] = 0 /\ \A c \in Columns : key_buf[t][c] = NUL /\ out_buf[t][c] = NUL
    BY DEF Init
  <2>3. BuffersTerminated
    BY <2>1, <2>2 DEF BuffersTerminated, Columns
  <2> QED BY <2>1, <2>3 DEF Init, BufferInv
<1>2. BufferInv /\ [Next]_vars => BufferInv'
  BY NextBufferInv
<1> QED BY <1>1, <1>2, PTL DEF Spec

(* Whatever the interleaving, terminal_read() finds a NUL before the end   *)
(* of out_buf, and a line is built in key_buf over NULs only.              *)
THEOREM BuffersTerminatedSafe == Spec => []BuffersTerminated
<1>1. BufferInv => BuffersTerminated
  BY DEF BufferInv
<1> QED BY <1>1, BufferInvariance, PTL

-----------------------------------------------------------------------------
(* Lines *)

(* A buffer holds a line up to its first NUL.                              *)
HoldsLine(b, line) ==
    /\ Len(line) <= SizeLimit
    /\ b[Len(line)] = NUL
    /\ \A k \in 1 .. Len(line) : b[k - 1] = line[k] /\ line[k] # NUL

(* What is typed so far, and what was entered.                             *)
LinesKept ==
    /\ \A t \in Terminals : \A c \in 0 .. key_buff_size[t] - 1 : key_buf[t][c] \in Chars
    /\ \A t \in Terminals : HoldsLine(out_buf[t], entered[t])
    /\ \A t \in Terminals : due[t] => entered[t] # NoLine

(* Who reads alone is the reader of the terminal on the display.           *)
AloneMeansAlone ==
    \A t \in Terminals :
        alone[t] /\ Reading(t) => t = terminal_id /\ \A u \in Terminals : Reading(u) => u = t

(* The signal, and a reader past its waiting loop, mean a line at the      *)
(* terminal on the display...                                              *)
OwnSignal ==
    /\ read_ready = 0 => due[terminal_id]
    /\ \A t \in Terminals : Reading(t) => t = terminal_id /\ alone[t]
    /\ pc[terminal_id] = "display" \/ Reading(terminal_id) => due[terminal_id]
    /\ \A t \in Terminals : Copying(t) => read_ready = 1

(* ... as long as the user waits.                                          *)
SignalMeansLine == haste = 0 => OwnSignal

(* How much of the line a reader has copied, and when it stops.            *)
CopiedSoFar ==
    \A t \in Terminals :
        /\ ~Copying(t) => i[t] = 0 /\ buf[t] = <<>>
        /\ Copying(t) => nbytes[t] > 0
        /\ pc[t] = "copy" => i[t] < SizeLimit
        /\ alone[t] /\ Copying(t) =>
             /\ i[t] <= nbytes[t] /\ i[t] <= Len(entered[t]) /\ Len(buf[t]) = i[t]
             /\ \A k \in 1 .. i[t] : buf[t][k] = entered[t][k]
        /\ alone[t] /\ pc[t] = "copy" => i[t] < nbytes[t] /\ i[t] < Len(entered[t])
        /\ alone[t] /\ pc[t] = "finish" => i[t] = nbytes[t] \/ i[t] = Len(entered[t])

LineInv ==
    TypeOK /\ BuffersTerminated /\ LinesKept /\ AloneMeansAlone /\ SignalMeansLine /\ CopiedSoFar

(* Text stops at the first NUL.                                            *)
LEMMA TextOf ==
    ASSUME NEW b \in [Columns -> Symbols], NEW k \in Columns, b[k] = NUL,
           \A c \in Columns : c < k => b[c] # NUL
    PROVE  /\ Text(b) \in Seq(Symbols) /\ Len(Text(b)) = k
           /\ \A j \in 1 .. k : Text(b)[j] = b[j - 1]
<1> DEFINE ends == {j \in Columns : b[j] = NUL}
           end == IF ends = {} THEN SizeLimit + 1 ELSE CHOOSE j \in ends : \A l \in ends : j <= l
<1>1. SizeLimit \in Nat /\ k \in Nat
  BY InputAssumption DEF Columns
<1>2. k \in ends /\ \A l \in ends : k <= l
  BY <1>1 DEF Columns
<1>3. \A j \in ends : (\A l \in ends : j <= l) => j = k
  BY <1>1, <1>2 DEF Columns
<1> HIDE DEF ends
<1>4. end = k
  BY <1>2, <1>3
<1>5. Text(b) = [j \in 1 .. end |-> b[j - 1]]
  BY DEF Text, ends
<1> HIDE DEF end
<1>6. \A j \in 1 .. k : b[j - 1] \in Symbols
  BY <1>1 DEF Columns
<1> QED BY <1>1, <1>4, <1>5, <1>6

(* Enter hands over a line of at least one character.                      *)
LEMMA EnterLine ==
    ASSUME LineInv, Enter
    PROVE  \E line \in Seq(Symbols) :
             /\ entered' = [entered EXCEPT ![d] = line]
             /\ line # NoLine
             /\ HoldsLine(out_buf'[d], line)
<1> DEFINE n == key_buff_size[d]
           size == IF n < SizeLimit THEN n + 1 ELSE n
           b == IF n < SizeLimit
                THEN [key_buf[d] EXCEPT ![n] = NL, ![n + 1] = NUL]
                ELSE [key_buf[d] EXCEPT ![n] = NUL]
           moved == [c \in Columns |-> IF c <= size THEN b[c] ELSE out_buf[d][c]]
<1>1. /\ d \in Terminals /\ n \in 0 .. SizeLimit /\ SizeLimit \in Nat \ {0}
      /\ key_buf[d] \in [Columns -> Symbols]
      /\ \A c \in 0 .. n - 1 : key_buf[d][c] \in Chars
  BY InputAssumption DEF LineInv, TypeOK, LinesKept, d
<1>2. NL \in Symbols /\ NUL \in Symbols /\ NUL \notin Chars /\ NL # NUL
  BY InputAssumption DEF Symbols, NL, NUL
<1>3. /\ size \in Columns /\ size > 0
      /\ b \in [Columns -> Symbols] /\ b[size] = NUL
      /\ \A c \in Columns : c < size => b[c] # NUL
  <2>1. CASE n < SizeLimit
    <3>1. b = [[key_buf[d] EXCEPT ![n] = NL] EXCEPT ![n + 1] = NUL] /\ size = n + 1
      BY <2>1
    <3>2. n \in Columns /\ n + 1 \in Columns
      BY <1>1, <2>1 DEF Columns
    <3>3. b \in [Columns -> Symbols] /\ b[n + 1] = NUL
      BY <1>1, <1>2, <3>1, <3>2
    <3>4. ASSUME NEW c \in Columns, c < n + 1
          PROVE  b[c] # NUL
      BY <1>1, <1>2, <3>1, <3>2, <3>4 DEF Columns
    <3> QED BY <1>1, <3>1, <3>2, <3>3, <3>4
  <2>2. CASE ~(n < SizeLimit)
    <3>1. b = [key_buf[d] EXCEPT ![n] = NUL] /\ size = n /\ n = SizeLimit
      BY <1>1, <2>2
    <3>2. n \in Columns
      BY <1>1 DEF Columns
    <3> QED BY <1>1, <1>2, <3>1, <3>2 DEF Columns
  <2> QED BY <2>1, <2>2
<1>4. /\ out_buf' = [out_buf EXCEPT ![d] = moved]
      /\ entered' = [entered EXCEPT ![d] = Text(b)]
  BY DEF Enter, LastMoved, LineInv, TypeOK
<1>5. out_buf'[d] = moved
  BY <1>1, <1>4 DEF LineInv, TypeOK
<1> HIDE DEF n, size, b
<1>6. /\ Text(b) \in Seq(Symbols) /\ Len(Text(b)) = size
      /\ \A j \in 1 .. size : Text(b)[j] = b[j - 1]
  BY <1>3, TextOf
<1>7. HoldsLine(moved, Text(b))
  BY <1>1, <1>3, <1>6 DEF HoldsLine, Columns
<1>8. Text(b) # NoLine
  BY <1>3, <1>6 DEF NoLine
<1> QED BY <1>4, <1>5, <1>6, <1>7, <1>8

(* The guards on haste keep it in bounds.                                  *)
LEMMA HasteBounded ==
    ASSUME haste \in 0 .. MaxHaste, MovesOn \/ GoesOn \/ haste' = haste
    PROVE  haste' \in 0 .. MaxHaste
<1>1. MaxHaste \in Nat
  BY InputAssumption
<1>2. CASE MovesOn
  BY <1>1, <1>2 DEF MovesOn
<1> QED BY <1>1, <1>2 DEF GoesOn

(* When everything is settled, no signal and no reader is under way.       *)
LEMMA SettledSignal ==
    ASSUME Settled, terminal_id \in Terminals
    PROVE  OwnSignal
BY DEF Settled, OwnSignal, Reading, Copying

(* A step after which the user has still waited began so, or settles.      *)
LEMMA StillWaiting ==
    ASSUME LineInv, GoesOn \/ haste' = haste, haste' = 0
    PROVE  Settled' \/ OwnSignal
BY DEF GoesOn, LineInv, SignalMeansLine

(* Enter: the line is there before the signal.                             *)
LEMMA EnterLineInv ==
    ASSUME LineInv, Enter, BufferInv'
    PROVE  LineInv'
<1>1. PICK line \in Seq(Symbols) :
             /\ entered' = [entered EXCEPT ![d] = line]
             /\ line # NoLine
             /\ HoldsLine(out_buf'[d], line)
  BY EnterLine
<1>2. /\ key_buff_size' = [key_buff_size EXCEPT ![d] = 0]
      /\ \A t \in Terminals : t # d => out_buf'[t] = out_buf[t] /\ key_buf'[t] = key_buf[t]
      /\ read_ready' = 0
      /\ due' = [due EXCEPT ![d] = TRUE]
      /\ alone' = [t \in Terminals |-> alone[t] /\ ~Copying(t)]
      /\ MovesOn
      /\ UNCHANGED <<terminal_id, current_terminal_id, readers>>
  BY DEF Enter, Signal, LineInv, TypeOK
<1>3. d \in Terminals /\ d = terminal_id
  BY DEF LineInv, TypeOK, d
<1>4. TypeOK'
  <2>1. haste' \in 0 .. MaxHaste
    BY <1>2, HasteBounded DEF LineInv, TypeOK
  <2>2. alone' \in [Terminals -> BOOLEAN]
    BY <1>2 DEF LineInv, TypeOK, Copying
  <2> QED BY <1>1, <1>2, <1>3, <2>1, <2>2 DEF LineInv, TypeOK, BufferInv, readers
<1>5. BuffersTerminated'
  BY DEF BufferInv
<1>6. LinesKept'
  <2>1. ASSUME NEW t \in Terminals, NEW c \in 0 .. key_buff_size'[t] - 1
        PROVE  key_buf'[t][c] \in Chars
    <3>1. t # d
      BY <1>2, <1>3, <2>1 DEF LineInv, TypeOK
    <3> QED BY <1>2, <2>1, <3>1 DEF LineInv, TypeOK, LinesKept
  <2>2. ASSUME NEW t \in Terminals
        PROVE  HoldsLine(out_buf'[t], entered'[t]) /\ (due'[t] => entered'[t] # NoLine)
    <3>1. CASE t = d
      BY <1>1, <3>1 DEF LineInv, TypeOK
    <3>2. CASE t # d
      <4>1. entered'[t] = entered[t] /\ out_buf'[t] = out_buf[t] /\ due'[t] = due[t]
        BY <1>1, <1>2, <3>2 DEF LineInv, TypeOK
      <4> QED BY <4>1 DEF LineInv, LinesKept
    <3> QED BY <3>1, <3>2
  <2> QED BY <2>1, <2>2 DEF LinesKept
<1>7. AloneMeansAlone'
  <2>1. \A t \in Terminals : alone'[t] => alone[t]
    BY <1>2
  <2> QED BY <1>2, <2>1 DEF LineInv, AloneMeansAlone, Reading, readers
<1>8. SignalMeansLine'
  <2> SUFFICES ASSUME haste' = 0 PROVE OwnSignal'
    BY DEF SignalMeansLine
  <2>1. due'[d]
    BY <1>2, <1>3 DEF LineInv, TypeOK
  <2>2. ~Settled'
    BY <1>2 DEF Settled
  <2>3. Settled
    BY <1>2, <2>2 DEF MovesOn, LineInv, TypeOK
  <2>4. \A t \in Terminals : pc'[t] \in {"user", "ready"}
    BY <1>2, <2>3 DEF Settled, readers
  <2> QED BY <1>2, <1>3, <2>1, <2>4 DEF OwnSignal, Reading, Copying
<1>9. CopiedSoFar'
  <2>1. ASSUME NEW t \in Terminals, alone'[t]
        PROVE  ~Copying(t)
    BY <1>2, <2>1
  <2>2. UNCHANGED <<pc, nbytes, i, buf>>
    BY <1>2 DEF readers
  <2> QED BY <2>1, <2>2 DEF LineInv, CopiedSoFar, Copying
<1> QED BY <1>4, <1>5, <1>6, <1>7, <1>8, <1>9 DEF LineInv

(* Typing disturbs only what is typed so far.                              *)
LEMMA TypingLineInv ==
    ASSUME LineInv, (\E c \in Chars : TypeChar(c)) \/ Backspace, BufferInv'
    PROVE  LineInv'
<1> DEFINE n == key_buff_size[d]
<1>1. /\ d \in Terminals /\ n \in 0 .. SizeLimit /\ SizeLimit \in Nat
      /\ key_buf[d] \in [Columns -> Symbols]
      /\ \A c \in 0 .. n - 1 : key_buf[d][c] \in Chars
  BY InputAssumption DEF LineInv, TypeOK, LinesKept, d
<1>2. UNCHANGED <<out_buf, read_ready, terminal_id, current_terminal_id, readers, history>>
  BY DEF TypeChar, Backspace
<1>3. TypeOK' /\ BuffersTerminated'
  BY <1>2 DEF LineInv, TypeOK, BufferInv, readers, history
<1>4. \A t \in Terminals : \A c \in 0 .. key_buff_size'[t] - 1 : key_buf'[t][c] \in Chars
  <2>1. ASSUME NEW ch \in Chars, TypeChar(ch)
        PROVE  \A t \in Terminals :
                 \A c \in 0 .. key_buff_size'[t] - 1 : key_buf'[t][c] \in Chars
    <3> DEFINE row == [key_buf[d] EXCEPT ![n] = ch]
    <3>1. n \in Columns /\ n + 1 \in 0 .. SizeLimit
      BY <1>1, <2>1 DEF TypeChar, Columns
    <3>2. key_buf' = [key_buf EXCEPT ![d] = row] /\ \A c \in 0 .. n : row[c] \in Chars
      BY <1>1, <2>1, <3>1 DEF TypeChar, Columns
    <3>3. key_buff_size' = [key_buff_size EXCEPT ![d] = n + 1]
      BY <2>1 DEF TypeChar
    <3>4. key_buf'[d] = row /\ \A t \in Terminals : t # d => key_buf'[t] = key_buf[t]
      BY <1>1, <3>2 DEF LineInv, TypeOK
    <3>5. /\ key_buff_size'[d] = n + 1
          /\ \A t \in Terminals : t # d => key_buff_size'[t] = key_buff_size[t]
      BY <1>1, <3>3 DEF LineInv, TypeOK
    <3> HIDE DEF row, n
    <3>6. \A c \in 0 .. (n + 1) - 1 : row[c] \in Chars
      BY <1>1, <3>2
    <3>7. ASSUME NEW t \in Terminals
          PROVE  \A c \in 0 .. key_buff_size'[t] - 1 : key_buf'[t][c] \in Chars
      BY <3>4, <3>5, <3>6 DEF LineInv, LinesKept
    <3> QED BY <3>7
  <2>2. CASE Backspace
    <3> DEFINE row == [key_buf[d] EXCEPT ![n - 1] = NUL]
    <3>1. n - 1 \in Columns /\ n - 1 \in 0 .. SizeLimit
      BY <1>1, <2>2 DEF Backspace, Columns
    <3>2. /\ key_buf' = [key_buf EXCEPT ![d] = row]
          /\ \A c \in 0 .. (n - 1) - 1 : row[c] \in Chars
      BY <1>1, <2>2, <3>1 DEF Backspace, Columns
    <3>3. key_buff_size' = [key_buff_size EXCEPT ![d] = n - 1]
      BY <2>2 DEF Backspace
    <3>4. key_buf'[d] = row /\ \A t \in Terminals : t # d => key_buf'[t] = key_buf[t]
      BY <1>1, <3>2 DEF LineInv, TypeOK
    <3>5. /\ key_buff_size'[d] = n - 1
          /\ \A t \in Terminals : t # d => key_buff_size'[t] = key_buff_size[t]
      BY <1>1, <3>3 DEF LineInv, TypeOK
    <3> HIDE DEF row, n
    <3>6. ASSUME NEW t \in Terminals
          PROVE  \A c \in 0 .. key_buff_size'[t] - 1 : key_buf'[t][c] \in Chars
      BY <3>2, <3>4, <3>5 DEF LineInv, LinesKept
    <3> QED BY <3>6
  <2> QED BY <2>1, <2>2
<1>5. LinesKept'
  BY <1>2, <1>4 DEF LineInv, LinesKept, HoldsLine, history
<1>6. AloneMeansAlone' /\ CopiedSoFar'
  BY <1>2 DEF LineInv, AloneMeansAlone, CopiedSoFar, Reading, Copying, readers, history
<1>7. SignalMeansLine'
  BY <1>2 DEF LineInv, SignalMeansLine, OwnSignal, Reading, Copying, readers, history
<1> QED BY <1>3, <1>5, <1>6, <1>7 DEF LineInv

(* After a switch nobody reads alone; a user who waits switches when       *)
(* nobody reads.                                                           *)
LEMMA SwitchLineInv ==
    ASSUME LineInv, SwitchTerminal
    PROVE  LineInv'
<1>1. /\ terminal_id' \in Terminals
      /\ alone' = [t \in Terminals |-> FALSE]
      /\ MovesOn
      /\ UNCHANGED <<buffers, read_ready, current_terminal_id, readers, entered, due>>
  BY DEF SwitchTerminal
<1>2. TypeOK' /\ BuffersTerminated'
  <2>1. haste' \in 0 .. MaxHaste
    BY <1>1, HasteBounded DEF LineInv, TypeOK
  <2> QED BY <1>1, <2>1 DEF LineInv, TypeOK, BuffersTerminated, buffers, readers
<1>3. LinesKept'
  BY <1>1 DEF LineInv, LinesKept, HoldsLine, buffers
<1>4. AloneMeansAlone' /\ CopiedSoFar'
  BY <1>1 DEF LineInv, AloneMeansAlone, CopiedSoFar, Copying, readers
<1>5. SignalMeansLine'
  <2> SUFFICES ASSUME haste' = 0 PROVE OwnSignal'
    BY DEF SignalMeansLine
  <2>1. Settled' <=> Settled
    BY <1>1 DEF Settled, readers
  <2>2. Settled'
    BY <1>1, <2>1 DEF MovesOn, LineInv, TypeOK
  <2>3. read_ready' = 1 /\ \A t \in Terminals : pc'[t] \in {"user", "ready"}
    BY <2>2 DEF Settled
  <2> QED BY <1>1, <2>3 DEF OwnSignal, Reading, Copying
<1> QED BY <1>2, <1>3, <1>4, <1>5 DEF LineInv

(* The timer and a program that calls read() disturb no line.              *)
LEMMA CallLineInv ==
    ASSUME LineInv, Tick \/ (\E t \in Terminals : Call(t)) \/ UNCHANGED vars
    PROVE  LineInv'
<1>1. CASE UNCHANGED vars
  <2>1. TypeOK' /\ BuffersTerminated' /\ LinesKept'
    BY <1>1 DEF vars, buffers, readers, history, LineInv, TypeOK, BuffersTerminated, LinesKept,
      HoldsLine
  <2>2. AloneMeansAlone' /\ SignalMeansLine' /\ CopiedSoFar'
    BY <1>1 DEF vars, readers, history, LineInv, AloneMeansAlone, SignalMeansLine, OwnSignal,
      CopiedSoFar, Reading, Copying
  <2> QED BY <2>1, <2>2 DEF LineInv
<1>2. CASE Tick
  <2>1. current_terminal_id' \in Terminals
    BY <1>2, InputAssumption DEF Tick, LineInv, TypeOK, Terminals
  <2>2. UNCHANGED <<buffers, read_ready, terminal_id, readers, history>>
    BY <1>2 DEF Tick
  <2>3. TypeOK'
    BY <2>1, <2>2 DEF buffers, readers, history, LineInv, TypeOK
  <2>4. BuffersTerminated' /\ LinesKept'
    BY <2>2 DEF buffers, history, LineInv, BuffersTerminated, LinesKept, HoldsLine
  <2>5. AloneMeansAlone' /\ SignalMeansLine' /\ CopiedSoFar'
    BY <2>2 DEF readers, history, LineInv, AloneMeansAlone, SignalMeansLine, OwnSignal,
      CopiedSoFar, Reading, Copying
  <2> QED BY <2>3, <2>4, <2>5 DEF LineInv
<1>3. ASSUME NEW t \in Terminals, Call(t)
      PROVE  LineInv'
  <2>1. /\ UNCHANGED <<buffers, read_ready, terminal_id, current_terminal_id, i, buf, history>>
        /\ pc[t] = "user" /\ pc' = [pc EXCEPT ![t] = "ready"]
    BY <1>3 DEF Call, GoTo, At
  <2>2. PICK n \in Requests \cup OtherRequests : nbytes' = [nbytes EXCEPT ![t] = n]
    BY <1>3 DEF Call, RequestsOf
  <2>3. TypeOK'
    BY <2>1, <2>2 DEF buffers, history, LineInv, TypeOK
  <2>4. BuffersTerminated' /\ LinesKept'
    BY <2>1 DEF buffers, history, LineInv, BuffersTerminated, LinesKept, HoldsLine
  <2>5. \A u \in Terminals : /\ Reading(u)' <=> Reading(u)
                             /\ Copying(u)' <=> Copying(u)
                             /\ u # t => pc'[u] = pc[u] /\ nbytes'[u] = nbytes[u]
    BY <2>1, <2>2 DEF LineInv, TypeOK, Reading, Copying
  <2>6. pc'[t] = "ready"
    BY <2>1 DEF LineInv, TypeOK
  <2>7. AloneMeansAlone' /\ SignalMeansLine'
    <3>1. pc'[terminal_id] = "display" => pc[terminal_id] = "display"
      BY <2>5, <2>6 DEF LineInv, TypeOK
    <3> QED BY <2>1, <2>5, <3>1 DEF LineInv, TypeOK, history, AloneMeansAlone, SignalMeansLine,
              OwnSignal
  <2>8. CopiedSoFar'
    <3>1. ~Copying(t)'
      BY <2>6 DEF Copying
    <3> QED BY <2>1, <2>5, <2>6, <3>1 DEF LineInv, history, CopiedSoFar
  <2> QED BY <2>3, <2>4, <2>7, <2>8 DEF LineInv
<1> QED BY <1>1, <1>2, <1>3

(* What a reader stores does not concern the others.                       *)
LEMMA OthersCopied ==
    ASSUME LineInv, NEW t \in Terminals,
           \A u \in Terminals \ {t} : /\ pc'[u] = pc[u] /\ i'[u] = i[u] /\ buf'[u] = buf[u]
                                      /\ nbytes'[u] = nbytes[u] /\ alone'[u] = alone[u]
                                      /\ alone[u] /\ Copying(u) => entered'[u] = entered[u],
           /\ ~Copying(t)' => i'[t] = 0 /\ buf'[t] = <<>>
           /\ Copying(t)' => nbytes'[t] > 0
           /\ pc'[t] = "copy" => i'[t] < SizeLimit
           /\ alone'[t] /\ Copying(t)' =>
                /\ i'[t] <= nbytes'[t] /\ i'[t] <= Len(entered'[t]) /\ Len(buf'[t]) = i'[t]
                /\ \A k \in 1 .. i'[t] : buf'[t][k] = entered'[t][k]
           /\ alone'[t] /\ pc'[t] = "copy" => i'[t] < nbytes'[t] /\ i'[t] < Len(entered'[t])
           /\ alone'[t] /\ pc'[t] = "finish" => i'[t] = nbytes'[t] \/ i'[t] = Len(entered'[t])
    PROVE  CopiedSoFar'
<1> SUFFICES ASSUME NEW u \in Terminals, u # t
             PROVE  /\ ~Copying(u)' => i'[u] = 0 /\ buf'[u] = <<>>
                    /\ Copying(u)' => nbytes'[u] > 0
                    /\ pc'[u] = "copy" => i'[u] < SizeLimit
                    /\ alone'[u] /\ Copying(u)' =>
                         /\ i'[u] <= nbytes'[u] /\ i'[u] <= Len(entered'[u]) /\ Len(buf'[u]) = i'[u]
                         /\ \A k \in 1 .. i'[u] : buf'[u][k] = entered'[u][k]
                    /\ alone'[u] /\ pc'[u] = "copy" =>
                         i'[u] < nbytes'[u] /\ i'[u] < Len(entered'[u])
                    /\ alone'[u] /\ pc'[u] = "finish" =>
                         i'[u] = nbytes'[u] \/ i'[u] = Len(entered'[u])
  BY DEF CopiedSoFar
<1>1. /\ pc'[u] = pc[u] /\ i'[u] = i[u] /\ buf'[u] = buf[u]
      /\ nbytes'[u] = nbytes[u] /\ alone'[u] = alone[u]
      /\ alone[u] /\ Copying(u) => entered'[u] = entered[u]
  OBVIOUS
<1>2. Copying(u)' <=> Copying(u)
  BY <1>1 DEF Copying
<1> QED BY <1>1, <1>2 DEF LineInv, CopiedSoFar, Copying

(* The reader waits: one that leaves its loop is on the display, and it is *)
(* alone when nobody else is past his.                                     *)
LEMMA LoopLineInv ==
    ASSUME LineInv, NEW t \in Terminals, LoadReady(t) \/ LoadDisplay(t)
    PROVE  LineInv'
<1>1. /\ UNCHANGED <<buffers, read_ready, terminal_id, current_terminal_id,
                     nbytes, i, buf, entered, due>>
      /\ current_terminal_id = t
      /\ GoesOn \/ haste' = haste
      /\ pc[t] \in {"ready", "display"}
      /\ pc' = [pc EXCEPT ![t] = pc'[t]] /\ pc'[t] \in {"ready", "display", "claim"}
      /\ pc'[t] = "display" => read_ready = 0
      /\ pc'[t] = "claim" => pc[t] = "display" /\ terminal_id = t
      /\ alone' = [alone EXCEPT ![t] = alone'[t]] /\ alone'[t] \in BOOLEAN
      /\ pc'[t] = "claim" => (alone'[t] <=> \A u \in Terminals \ {t} : ~Reading(u))
  <2>1. /\ pc \in [Terminals -> {"user", "ready", "display", "claim", "test", "copy", "finish"}]
        /\ alone \in [Terminals -> BOOLEAN]
    BY DEF LineInv, TypeOK
  <2>2. CASE LoadReady(t)
    BY <2>1, <2>2 DEF LoadReady, GoTo, At, history
  <2>3. CASE LoadDisplay(t)
    <3> DEFINE next == IF terminal_id = current_terminal_id THEN "claim" ELSE "ready"
               only == \A u \in Terminals \ {t} : ~Reading(u)
    <3>1. /\ pc' = [pc EXCEPT ![t] = next] /\ alone' = [alone EXCEPT ![t] = only]
          /\ pc[t] = "display" /\ current_terminal_id = t
          /\ UNCHANGED <<buffers, read_ready, terminal_id, current_terminal_id,
                         nbytes, i, buf, entered, due>>
          /\ GoesOn
      BY <2>3 DEF LoadDisplay, GoTo, At
    <3>2. only \in BOOLEAN /\ next \in {"claim", "ready"}
      OBVIOUS
    <3>3. next = "claim" => terminal_id = t
      BY <3>1
    <3> HIDE DEF next, only
    <3>4. pc'[t] = next /\ alone'[t] = only
      BY <2>1, <3>1
    <3>5. alone'[t] <=> \A u \in Terminals \ {t} : ~Reading(u)
      BY <3>4 DEF only
    <3> QED BY <3>1, <3>2, <3>3, <3>4, <3>5
  <2> QED BY <2>2, <2>3
<1>2. TypeOK'
  <2>1. haste' \in 0 .. MaxHaste
    BY <1>1, HasteBounded DEF LineInv, TypeOK
  <2>2. /\ pc' \in [Terminals -> {"user", "ready", "display", "claim", "test", "copy", "finish"}]
        /\ alone' \in [Terminals -> BOOLEAN]
    <3>1. /\ pc \in [Terminals -> {"user", "ready", "display", "claim", "test", "copy", "finish"}]
          /\ alone \in [Terminals -> BOOLEAN]
      BY DEF LineInv, TypeOK
    <3>2. pc' \in [Terminals -> {"user", "ready", "display", "claim", "test", "copy", "finish"}]
      BY <1>1, <3>1
    <3>3. alone' \in [Terminals -> BOOLEAN]
      BY <1>1, <3>1
    <3> QED BY <3>2, <3>3
  <2>3. UNCHANGED <<key_buf, key_buff_size, out_buf, read_ready, terminal_id,
                    current_terminal_id, nbytes, i, buf, entered, due>>
    BY <1>1 DEF buffers
  <2> QED BY <2>1, <2>2, <2>3 DEF LineInv, TypeOK
<1>3. BuffersTerminated' /\ LinesKept'
  BY <1>1 DEF buffers, LineInv, BuffersTerminated, LinesKept, HoldsLine
<1>4. \A u \in Terminals \ {t} : pc'[u] = pc[u] /\ alone'[u] = alone[u]
  BY <1>1 DEF LineInv, TypeOK
<1>5. /\ Reading(t)' <=> pc'[t] = "claim"
      /\ ~Copying(t) /\ ~Copying(t)' /\ ~Reading(t)
      /\ \A u \in Terminals \ {t} : (Reading(u)' <=> Reading(u)) /\ (Copying(u)' <=> Copying(u))
  BY <1>1, <1>4 DEF Reading, Copying
<1>6. AloneMeansAlone'
  <2> SUFFICES ASSUME NEW u \in Terminals, alone'[u], Reading(u)'
               PROVE  u = terminal_id /\ \A v \in Terminals : Reading(v)' => v = u
    BY <1>1 DEF AloneMeansAlone
  <2>1. CASE u = t
    BY <1>1, <1>5, <2>1
  <2>2. CASE u # t
    BY <1>1, <1>4, <1>5, <2>2 DEF LineInv, AloneMeansAlone
  <2> QED BY <2>1, <2>2
<1>7. SignalMeansLine'
  <2> SUFFICES ASSUME haste' = 0 PROVE OwnSignal'
    BY DEF SignalMeansLine
  <2>1. CASE Settled'
    <3>1. read_ready' = 1 /\ \A u \in Terminals : pc'[u] \in {"user", "ready"}
      BY <2>1 DEF Settled
    <3> QED BY <1>1, <3>1 DEF OwnSignal, Reading, Copying, LineInv, TypeOK
  <2>2. CASE OwnSignal
    <3>1. Reading(t)' => t = terminal_id /\ alone'[t] /\ due[terminal_id]
      BY <1>1, <1>5, <2>2 DEF OwnSignal
    <3>2. pc'[terminal_id] = "display" => due[terminal_id]
      <4>1. terminal_id \in Terminals
        BY DEF LineInv, TypeOK
      <4>2. CASE terminal_id = t
        BY <1>1, <2>2, <4>2 DEF OwnSignal
      <4>3. CASE terminal_id # t
        BY <1>4, <2>2, <4>1, <4>3 DEF OwnSignal
      <4> QED BY <4>2, <4>3
    <3>3. Reading(terminal_id)' => due[terminal_id]
      <4>1. terminal_id \in Terminals
        BY DEF LineInv, TypeOK
      <4>2. CASE terminal_id = t
        BY <1>1, <3>1, <4>2 DEF Reading
      <4>3. CASE terminal_id # t
        BY <1>1, <1>4, <2>2, <4>1, <4>3 DEF OwnSignal, Reading
      <4> QED BY <4>2, <4>3
    <3>4. \A u \in Terminals : Reading(u)' => u = terminal_id /\ alone'[u]
      BY <1>4, <1>5, <2>2, <3>1 DEF OwnSignal
    <3>5. \A u \in Terminals : Copying(u)' => read_ready = 1
      BY <1>5, <2>2 DEF OwnSignal
    <3> QED BY <1>1, <2>2, <3>2, <3>3, <3>4, <3>5 DEF OwnSignal
  <2> QED BY <1>1, <2>1, <2>2, StillWaiting
<1>8. CopiedSoFar'
  <2>1. i'[t] = 0 /\ buf'[t] = <<>>
    BY <1>1, <1>5 DEF LineInv, CopiedSoFar
  <2>2. pc'[t] # "copy" /\ pc'[t] # "finish"
    BY <1>1
  <2> QED BY <1>1, <1>4, <1>5, <2>1, <2>2, OthersCopied
<1> QED BY <1>2, <1>3, <1>6, <1>7, <1>8 DEF LineInv

(* A read that is over: no other reader who reads alone copies from d.     *)
LEMMA ReturnLineInv ==
    ASSUME LineInv, NEW t \in Terminals, Reading(t), Return(t), GoesOn,
           UNCHANGED <<key_buf, key_buff_size, terminal_id, current_terminal_id>>,
           \/ out_buf' = out_buf /\ entered' = entered
           \/ /\ out_buf' = [out_buf EXCEPT ![d][0] = NUL]
              /\ entered' = [entered EXCEPT ![d] = NoLine],
           read_ready' = 1 \/ (read_ready' = read_ready /\ Copying(t))
    PROVE  LineInv'
<1> DEFINE row == [out_buf[d] EXCEPT ![0] = NUL]
<1>1. /\ d \in Terminals /\ d = terminal_id /\ SizeLimit \in Nat \ {0}
      /\ NUL \in Symbols /\ 0 \in Columns /\ NoLine \in Seq(Symbols)
  BY InputAssumption DEF LineInv, TypeOK, d, Symbols, Columns, NoLine
<1>0. /\ row \in [Columns -> Symbols] /\ row[0] = NUL
      /\ \/ out_buf' = out_buf /\ entered' = entered
         \/ out_buf' = [out_buf EXCEPT ![d] = row] /\ entered' = [entered EXCEPT ![d] = NoLine]
  BY <1>1 DEF LineInv, TypeOK
<1> HIDE DEF row
<1>2. /\ pc' = [pc EXCEPT ![t] = "user"]
      /\ nbytes' = [nbytes EXCEPT ![t] = 0]
      /\ i' = [i EXCEPT ![t] = 0]
      /\ buf' = [buf EXCEPT ![t] = <<>>]
      /\ due' = [due EXCEPT ![d] = FALSE]
      /\ alone' = [alone EXCEPT ![t] = FALSE]
  BY DEF Return, GoTo
<1>3. TypeOK'
  <2>1. haste' \in 0 .. MaxHaste
    BY HasteBounded DEF LineInv, TypeOK
  <2>2. out_buf' \in [Terminals -> [Columns -> Symbols]] /\ entered' \in [Terminals -> Seq(Symbols)]
    <3>1. out_buf \in [Terminals -> [Columns -> Symbols]] /\ entered \in [Terminals -> Seq(Symbols)]
      BY DEF LineInv, TypeOK
    <3>2. CASE out_buf' = out_buf /\ entered' = entered
      BY <3>1, <3>2
    <3>3. CASE out_buf' = [out_buf EXCEPT ![d] = row] /\ entered' = [entered EXCEPT ![d] = NoLine]
      BY <1>0, <1>1, <3>1, <3>3
    <3> QED BY <1>0, <3>2, <3>3
  <2>3. <<>> \in Seq(Symbols) /\ 0 \in 0 .. SizeLimit
    BY <1>1
  <2>4. read_ready' \in {0, 1}
    BY DEF LineInv, TypeOK
  <2> QED BY <1>1, <1>2, <2>1, <2>2, <2>3, <2>4 DEF LineInv, TypeOK
<1>4. BuffersTerminated'
  <2>1. \A u \in Terminals : \E c \in Columns : out_buf'[u][c] = NUL
    <3>1. \A u \in Terminals : \E c \in Columns : out_buf[u][c] = NUL
      BY DEF LineInv, BuffersTerminated
    <3>2. CASE out_buf' = out_buf
      BY <3>1, <3>2
    <3>3. CASE out_buf' = [out_buf EXCEPT ![d] = row]
      <4>1. \A u \in Terminals : out_buf'[u] = IF u = d THEN row ELSE out_buf[u]
        BY <3>3 DEF LineInv, TypeOK
      <4> QED BY <1>0, <1>1, <3>1, <4>1
    <3> QED BY <1>0, <3>2, <3>3
  <2> QED BY <2>1 DEF LineInv, BuffersTerminated
<1>5. LinesKept'
  <2>1. ASSUME NEW u \in Terminals
        PROVE  HoldsLine(out_buf'[u], entered'[u])
    <3>1. CASE out_buf'[u] = out_buf[u] /\ entered'[u] = entered[u]
      BY <3>1 DEF LineInv, LinesKept
    <3>2. CASE out_buf'[u][0] = NUL /\ entered'[u] = NoLine
      BY <1>1, <3>2 DEF HoldsLine, NoLine
    <3>3. u # d => out_buf'[u] = out_buf[u] /\ entered'[u] = entered[u]
      BY <1>0, <1>1 DEF LineInv, TypeOK
    <3>4. (out_buf' = out_buf /\ entered' = entered) \/ (out_buf'[d] = row /\ entered'[d] = NoLine)
      BY <1>0, <1>1 DEF LineInv, TypeOK
    <3> QED BY <1>0, <3>1, <3>2, <3>3, <3>4
  <2>2. ASSUME NEW u \in Terminals, due'[u]
        PROVE  entered'[u] # NoLine
    <3>1. u # d /\ due[u]
      BY <1>1, <1>2, <2>2 DEF LineInv, TypeOK
    <3>2. entered'[u] = entered[u]
      BY <1>0, <1>1, <3>1 DEF LineInv, TypeOK
    <3> QED BY <3>1, <3>2 DEF LineInv, LinesKept
  <2>3. \A u \in Terminals : \A c \in 0 .. key_buff_size'[u] - 1 : key_buf'[u][c] \in Chars
    BY DEF LineInv, LinesKept
  <2> QED BY <2>1, <2>2, <2>3 DEF LinesKept
<1>6. \A u \in Terminals \ {t} : /\ pc'[u] = pc[u] /\ i'[u] = i[u] /\ buf'[u] = buf[u]
                                 /\ nbytes'[u] = nbytes[u] /\ alone'[u] = alone[u]
  BY <1>2 DEF LineInv, TypeOK
<1>7. pc'[t] = "user" /\ i'[t] = 0 /\ buf'[t] = <<>> /\ ~alone'[t]
  BY <1>2 DEF LineInv, TypeOK
<1>8. /\ ~Reading(t)' /\ ~Copying(t)'
      /\ \A u \in Terminals \ {t} : (Reading(u)' <=> Reading(u)) /\ (Copying(u)' <=> Copying(u))
  BY <1>6, <1>7 DEF Reading, Copying
<1>9. AloneMeansAlone'
  BY <1>6, <1>7, <1>8 DEF LineInv, AloneMeansAlone
<1>10. SignalMeansLine'
  <2> SUFFICES ASSUME haste' = 0 PROVE OwnSignal'
    BY DEF SignalMeansLine
  <2>1. CASE Settled'
    <3>1. read_ready' = 1 /\ \A u \in Terminals : pc'[u] \in {"user", "ready"}
      BY <2>1 DEF Settled
    <3> QED BY <1>1, <3>1 DEF OwnSignal, Reading, Copying
  <2>2. CASE OwnSignal
    <3>1. t = terminal_id /\ read_ready' = 1
      BY <2>2 DEF OwnSignal
    <3>2. \A u \in Terminals : ~Reading(u)' /\ ~Copying(u)'
      <4>1. \A u \in Terminals \ {t} : ~Reading(u)
        BY <2>2, <3>1 DEF OwnSignal
      <4> QED BY <1>8, <4>1 DEF Reading, Copying
    <3>3. pc'[terminal_id] = "user" /\ terminal_id' = terminal_id
      BY <1>7, <3>1
    <3> QED BY <1>1, <3>1, <3>2, <3>3 DEF OwnSignal
  <2> QED BY <2>1, <2>2, StillWaiting
<1>11. CopiedSoFar'
  <2>1. ASSUME NEW u \in Terminals \ {t}, alone[u], Copying(u)
        PROVE  FALSE
    BY <2>1 DEF LineInv, AloneMeansAlone, Reading, Copying
  <2> QED BY <1>6, <1>7, <1>8, <2>1, OthersCopied
<1> QED BY <1>3, <1>4, <1>5, <1>9, <1>10, <1>11 DEF LineInv

(* A reader goes on in its loop: only its own variables and the signal     *)
(* change.                                                                 *)
LEMMA OwnStepLineInv ==
    ASSUME LineInv, NEW t \in Terminals, Reading(t), Copying(t)', TypeOK', CopiedSoFar',
           UNCHANGED <<buffers, terminal_id, current_terminal_id, entered, due, alone>>,
           GoesOn \/ haste' = haste,
           read_ready' = 1 \/ (read_ready' = read_ready /\ Copying(t)),
           \A u \in Terminals \ {t} : pc'[u] = pc[u]
    PROVE  LineInv'
<1>1. /\ Reading(t)' /\ pc'[t] # "display" /\ terminal_id \in Terminals
      /\ \A u \in Terminals \ {t} : (Reading(u)' <=> Reading(u)) /\ (Copying(u)' <=> Copying(u))
  BY DEF Reading, Copying, LineInv, TypeOK
<1>2. BuffersTerminated' /\ LinesKept'
  BY DEF buffers, LineInv, BuffersTerminated, LinesKept, HoldsLine
<1>3. AloneMeansAlone'
  BY <1>1 DEF LineInv, AloneMeansAlone
<1>4. SignalMeansLine'
  <2> SUFFICES ASSUME haste' = 0 PROVE OwnSignal'
    BY DEF SignalMeansLine
  <2>1. ~Settled'
    BY DEF Settled, Copying
  <2>2. OwnSignal
    BY <2>1, StillWaiting
  <2>3. t = terminal_id /\ alone[t] /\ due[terminal_id] /\ read_ready' = 1
    BY <2>2 DEF OwnSignal
  <2>4. \A u \in Terminals : Reading(u)' => u = terminal_id /\ alone[u]
    BY <1>1, <2>2, <2>3 DEF OwnSignal
  <2> QED BY <2>3, <2>4 DEF OwnSignal
<1> QED BY <1>2, <1>3, <1>4 DEF LineInv

(* A reader that stands in the copying loop, alone, has a line before it.  *)
LEMMA ReaderTypes ==
    ASSUME LineInv, NEW t \in Terminals
    PROVE  /\ SizeLimit \in Nat /\ terminal_id \in Terminals /\ d = terminal_id
           /\ i[t] \in 0 .. SizeLimit /\ nbytes[t] \in Int
           /\ HoldsLine(out_buf[t], entered[t]) /\ entered[t] \in Seq(Symbols)
           /\ buf[t] \in Seq(Symbols)
<1>1. SizeLimit \in Nat /\ Requests \cup OtherRequests \cup {0} \subseteq Int
  BY InputAssumption
<1>2. terminal_id \in Terminals /\ i[t] \in 0 .. SizeLimit
      /\ nbytes[t] \in Requests \cup OtherRequests \cup {0}
  BY DEF LineInv, TypeOK
<1> QED BY <1>1, <1>2 DEF LineInv, TypeOK, LinesKept, d

(* read_ready = 1: nothing is copied yet.                                  *)
LEMMA ClaimLineInv ==
    ASSUME LineInv, NEW t \in Terminals, Claim(t)
    PROVE  LineInv'
<1>1. /\ pc[t] = "claim" /\ read_ready' = 1 /\ GoesOn
      /\ UNCHANGED <<buffers, terminal_id, current_terminal_id, entered>>
  BY DEF Claim, At
<1>2. Reading(t)
  BY <1>1 DEF Reading
<1>3. CASE Return(t)
  BY <1>1, <1>2, <1>3, ReturnLineInv DEF buffers
<1>4. CASE nbytes[t] > 0 /\ GoTo(t, "test") /\ UNCHANGED <<nbytes, i, buf, due, alone>>
  <2>1. /\ \A u \in Terminals \ {t} : pc'[u] = pc[u]
        /\ pc'[t] = "test" /\ Copying(t)'
    BY <1>4 DEF GoTo, Copying, LineInv, TypeOK
  <2>2. haste' \in 0 .. MaxHaste
    BY <1>1, HasteBounded DEF LineInv, TypeOK
  <2>3. TypeOK'
    BY <1>1, <1>4, <2>2 DEF GoTo, buffers, LineInv, TypeOK
  <2>4. CopiedSoFar'
    <3>1. i[t] = 0 /\ buf[t] = <<>>
      BY <1>1 DEF LineInv, CopiedSoFar, Copying
    <3>2. Len(entered[t]) \in Nat /\ nbytes[t] \in Int
      BY ReaderTypes
    <3>3. i'[t] <= nbytes'[t] /\ i'[t] <= Len(entered'[t]) /\ Len(buf'[t]) = i'[t]
      BY <1>1, <1>4, <3>1, <3>2
    <3>4. \A k \in 1 .. i'[t] : buf'[t][k] = entered'[t][k]
      BY <1>4, <3>1
    <3> QED BY <1>1, <1>4, <2>1, <3>3, <3>4, OthersCopied
  <2> QED BY <1>1, <1>2, <1>4, <2>1, <2>3, <2>4, OwnStepLineInv
<1> QED BY <1>3, <1>4 DEF Claim

(* The condition of the copy loop stops at the end of the line.            *)
LEMMA TestLineInv ==
    ASSUME LineInv, NEW t \in Terminals, Test(t)
    PROVE  LineInv'
<1>1. /\ UNCHANGED <<buffers, read_ready, terminal_id, current_terminal_id,
                     nbytes, i, buf, history>>
      /\ pc[t] = "test"
      /\ pc' = [pc EXCEPT ![t] = pc'[t]] /\ pc'[t] \in {"copy", "finish"}
      /\ pc'[t] = "copy" <=>
           i[t] < nbytes[t] /\ out_buf[d][i[t]] # NUL /\ i[t] < SizeLimit
  BY DEF Test, GoTo, At, LineInv, TypeOK
<1>2. Reading(t) /\ Copying(t) /\ Copying(t)'
  BY <1>1 DEF Reading, Copying
<1>3. \A u \in Terminals \ {t} : pc'[u] = pc[u]
  BY <1>1 DEF LineInv, TypeOK
<1>4. TypeOK'
  BY <1>1 DEF buffers, history, LineInv, TypeOK
<1>5. /\ SizeLimit \in Nat /\ d = terminal_id /\ i[t] \in 0 .. SizeLimit /\ nbytes[t] \in Int
      /\ HoldsLine(out_buf[t], entered[t]) /\ entered[t] \in Seq(Symbols)
  BY ReaderTypes
<1>6. ASSUME alone[t]
      PROVE  /\ pc'[t] = "copy" => i[t] < nbytes[t] /\ i[t] < Len(entered[t])
             /\ pc'[t] = "finish" => i[t] = nbytes[t] \/ i[t] = Len(entered[t])
  <2>1. t = d
    BY <1>2, <1>5, <1>6 DEF LineInv, AloneMeansAlone
  <2>2. i[t] <= nbytes[t] /\ i[t] <= Len(entered[t])
    BY <1>2, <1>6 DEF LineInv, CopiedSoFar
  <2>3. CASE i[t] < Len(entered[t])
    <3>1. i[t] + 1 \in 1 .. Len(entered[t]) /\ (i[t] + 1) - 1 = i[t] /\ i[t] < SizeLimit
      BY <1>5, <2>3 DEF HoldsLine
    <3>2. out_buf[t][(i[t] + 1) - 1] # NUL
      BY <1>5, <3>1 DEF HoldsLine
    <3> QED BY <1>1, <1>5, <2>1, <2>2, <2>3, <3>1, <3>2
  <2>4. CASE i[t] = Len(entered[t])
    BY <1>1, <1>5, <2>1, <2>4 DEF HoldsLine
  <2> QED BY <1>5, <2>2, <2>3, <2>4
<1>7. CopiedSoFar'
  <2>1. UNCHANGED <<nbytes, i, buf, entered, alone>>
    BY <1>1 DEF history
  <2>2. /\ nbytes[t] > 0
        /\ alone[t] => /\ i[t] <= nbytes[t] /\ i[t] <= Len(entered[t]) /\ Len(buf[t]) = i[t]
                       /\ \A k \in 1 .. i[t] : buf[t][k] = entered[t][k]
    BY <1>2 DEF LineInv, CopiedSoFar
  <2> QED BY <1>1, <1>2, <1>3, <1>6, <2>1, <2>2, OthersCopied
<1> QED BY <1>1, <1>2, <1>3, <1>4, <1>7, OwnStepLineInv DEF history

(* The body of the copy loop takes the next character of the line.         *)
LEMMA CopyLineInv ==
    ASSUME LineInv, NEW t \in Terminals, Copy(t)
    PROVE  LineInv'
<1> DEFINE new == Append(buf[t], out_buf[d][i[t]])
<1>1. /\ UNCHANGED <<buffers, read_ready, terminal_id, current_terminal_id, nbytes, history>>
      /\ pc[t] = "copy"
      /\ pc' = [pc EXCEPT ![t] = "test"]
      /\ i' = [i EXCEPT ![t] = i[t] + 1]
      /\ buf' = [buf EXCEPT ![t] = new]
  BY DEF Copy, GoTo, At
<1>2. Reading(t) /\ Copying(t) /\ nbytes[t] > 0 /\ i[t] < SizeLimit
  BY <1>1 DEF Reading, Copying, LineInv, CopiedSoFar
<1>3. /\ SizeLimit \in Nat /\ d \in Terminals /\ d = terminal_id
      /\ i[t] \in 0 .. SizeLimit /\ nbytes[t] \in Int
      /\ HoldsLine(out_buf[t], entered[t]) /\ entered[t] \in Seq(Symbols)
      /\ buf[t] \in Seq(Symbols)
  BY ReaderTypes
<1>4. out_buf[d][i[t]] \in Symbols
  BY <1>3 DEF LineInv, TypeOK, Columns
<1>5. new \in Seq(Symbols) /\ i[t] + 1 \in 0 .. SizeLimit
  BY <1>2, <1>3, <1>4
<1>6. ASSUME alone[t]
      PROVE  /\ i[t] + 1 <= nbytes[t] /\ i[t] + 1 <= Len(entered[t]) /\ Len(new) = i[t] + 1
             /\ \A k \in 1 .. i[t] + 1 : new[k] = entered[t][k]
  <2>1. t = d
    BY <1>2, <1>3, <1>6 DEF LineInv, AloneMeansAlone
  <2>2. /\ i[t] < nbytes[t] /\ i[t] < Len(entered[t]) /\ Len(buf[t]) = i[t]
        /\ \A k \in 1 .. i[t] : buf[t][k] = entered[t][k]
    BY <1>1, <1>2, <1>6 DEF LineInv, CopiedSoFar
  <2>3. i[t] + 1 \in 1 .. Len(entered[t]) /\ (i[t] + 1) - 1 = i[t] /\ i[t] + 1 <= nbytes[t]
    BY <1>3, <2>2 DEF HoldsLine
  <2>4. out_buf[d][i[t]] = entered[t][i[t] + 1]
    BY <1>3, <2>1, <2>3 DEF HoldsLine
  <2> QED BY <1>3, <1>4, <2>2, <2>3, <2>4
<1> HIDE DEF new
<1>7. TypeOK'
  <2>1. /\ buf' \in [Terminals -> Seq(Symbols)] /\ i' \in [Terminals -> 0 .. SizeLimit]
        /\ pc' \in [Terminals -> {"user", "ready", "display", "claim", "test", "copy", "finish"}]
    BY <1>1, <1>5 DEF LineInv, TypeOK
  <2> QED BY <1>1, <2>1 DEF buffers, history, LineInv, TypeOK
<1>8. /\ \A u \in Terminals \ {t} : pc'[u] = pc[u] /\ i'[u] = i[u] /\ buf'[u] = buf[u]
      /\ pc'[t] = "test" /\ i'[t] = i[t] + 1 /\ buf'[t] = new /\ Copying(t)'
      /\ UNCHANGED <<nbytes, entered, alone>>
  BY <1>1 DEF LineInv, TypeOK, history, Copying
<1>9. CopiedSoFar'
  BY <1>2, <1>6, <1>8, OthersCopied
<1> QED BY <1>1, <1>2, <1>7, <1>8, <1>9, OwnStepLineInv DEF history

LEMMA ReaderLineInv ==
    ASSUME LineInv, NEW t \in Terminals, Reader(t)
    PROVE  LineInv'
<1>1. CASE Finish(t)
  BY <1>1, ReturnLineInv DEF Finish, At, Reading, Copying
<1> QED BY <1>1, LoopLineInv, ClaimLineInv, TestLineInv, CopyLineInv DEF Reader

(* LineInv is inductive, for any user.                                     *)
THEOREM LineInvariance == Spec => []LineInv
<1>1. Init => LineInv
  <2> SUFFICES ASSUME Init PROVE LineInv
    OBVIOUS
  <2>1. /\ SizeLimit \in Nat /\ 0 \in Terminals /\ 0 \in Columns /\ 0 \in 0 .. SizeLimit
        /\ 0 \in 0 .. MaxHaste
    BY InputAssumption DEF Terminals, Columns
  <2>2. NUL \in Symbols /\ <<>> \in Seq(Symbols)
    BY DEF Symbols
  <2>3. TypeOK
    <3>1. /\ key_buf \in [Terminals -> [Columns -> Symbols]]
          /\ out_buf \in [Terminals -> [Columns -> Symbols]]
          /\ key_buff_size \in [Terminals -> 0 .. SizeLimit]
      BY <2>1, <2>2 DEF Init
    <3>2. /\ buf \in [Terminals -> Seq(Symbols)] /\ entered \in [Terminals -> Seq(Symbols)]
          /\ due \in [Terminals -> BOOLEAN] /\ alone \in [Terminals -> BOOLEAN]
          /\ haste \in 0 .. MaxHaste
      BY <2>1, <2>2 DEF Init, NoLine
    <3>3. /\ pc \in [Terminals -> {"user", "ready", "display", "claim", "test", "copy", "finish"}]
          /\ nbytes \in [Terminals -> Requests \cup OtherRequests \cup {0}]
          /\ i \in [Terminals -> 0 .. SizeLimit]
      BY <2>1 DEF Init
    <3>4. read_ready \in {0, 1} /\ terminal_id \in Terminals /\ current_terminal_id \in Terminals
      BY <2>1 DEF Init
    <3> QED BY <3>1, <3>2, <3>3, <3>4 DEF TypeOK
  <2>4. \A t \in Terminals :
          /\ key_buff_size[t] = 0 /\ \A c \in Columns : key_buf[t][c] = NUL /\ out_buf[t][c] = NUL
          /\ entered[t] = <<>> /\ pc[t] = "user" /\ ~due[t] /\ i[t] = 0 /\ buf[t] = <<>>
    BY DEF Init, NoLine
  <2>5. BuffersTerminated /\ LinesKept
    <3>1. BuffersTerminated
      BY <2>1, <2>4 DEF BuffersTerminated, Columns
    <3>2. \A t \in Terminals : 0 .. key_buff_size[t] - 1 = {}
      BY <2>4
    <3>3. \A t \in Terminals : HoldsLine(out_buf[t], entered[t])
      BY <2>1, <2>4 DEF HoldsLine
    <3> QED BY <2>4, <3>1, <3>2, <3>3 DEF LinesKept
  <2>6. AloneMeansAlone /\ SignalMeansLine /\ CopiedSoFar
    <3>1. \A t \in Terminals : ~Reading(t) /\ ~Copying(t)
      BY <2>4 DEF Reading, Copying
    <3>2. pc[terminal_id] = "user" /\ read_ready # 0 /\ terminal_id \in Terminals
      BY <2>1, <2>4 DEF Init
    <3> QED BY <2>4, <3>1, <3>2 DEF AloneMeansAlone, SignalMeansLine, OwnSignal, CopiedSoFar
  <2> QED BY <2>3, <2>5, <2>6 DEF LineInv
<1>2. LineInv /\ [Next]_vars => LineInv'
  <2> SUFFICES ASSUME LineInv, [Next]_vars PROVE LineInv'
    OBVIOUS
  <2>1. BufferInv'
    BY NextBufferInv DEF LineInv, TypeOK, BufferInv
  <2>2. CASE Enter
    BY <2>1, <2>2, EnterLineInv
  <2>3. CASE (\E c \in Chars : TypeChar(c)) \/ Backspace
    BY <2>1, <2>3, TypingLineInv
  <2>4. CASE SwitchTerminal
    BY <2>4, SwitchLineInv
  <2>5. CASE Tick \/ (\E t \in Terminals : Call(t)) \/ UNCHANGED vars
    BY <2>5, CallLineInv
  <2>6. ASSUME NEW t \in Terminals, Reader(t)
        PROVE  LineInv'
    BY <2>6, ReaderLineInv
  <2> QED BY <2>2, <2>3, <2>4, <2>5, <2>6 DEF Next, Key
<1> QED BY <1>1, <1>2, PTL DEF Spec

(* Only Claim, when nothing was asked for, and Finish return from a read.  *)
LEMMA ReturnSteps ==
    ASSUME LineInv, [Next]_vars, NEW t \in Terminals, Returns(t)
    PROVE  (pc[t] = "claim" /\ nbytes[t] <= 0) \/ pc[t] = "finish"
<1>1. CASE Key \/ Tick \/ UNCHANGED vars
  BY <1>1 DEF Returns, Key, TypeChar, Backspace, Enter, SwitchTerminal, Tick, vars, readers
<1>2. ASSUME NEW u \in Terminals, Call(u) \/ Reader(u)
      PROVE  (pc[t] = "claim" /\ nbytes[t] <= 0) \/ pc[t] = "finish"
  <2>1. \A l \in {"ready", "display", "claim", "test", "copy", "finish"} :
          GoTo(u, l) => FALSE
    <3>1. pc'[u] = "user" \/ u # t
      BY DEF Returns
    <3> QED BY <1>2 DEF Returns, GoTo, LineInv, TypeOK
  <2>2. CASE Claim(u)
    BY <2>1, <2>2 DEF Returns, Claim, Return, At, GoTo, LineInv, TypeOK
  <2>3. CASE Finish(u)
    BY <2>3 DEF Returns, Finish, Return, At, GoTo, LineInv, TypeOK
  <2>4. CASE Call(u) \/ LoadReady(u) \/ LoadDisplay(u) \/ Test(u) \/ Copy(u)
    BY <2>1, <2>4 DEF Call, LoadReady, LoadDisplay, Test, Copy
  <2> QED BY <1>2, <2>2, <2>3, <2>4 DEF Reader
<1> QED BY <1>1, <1>2 DEF Next

(* What a reader that stops has copied is what was asked for of its line.  *)
LEMMA FinishedCopy ==
    ASSUME LineInv, NEW t \in Terminals, alone[t],
           pc[t] = "finish" \/ (pc[t] = "claim" /\ nbytes[t] <= 0)
    PROVE  buf[t] = Asked(t)
<1> DEFINE line == entered[t]
           n == nbytes[t]
           m == IF n < Len(line) THEN n ELSE Len(line)
<1>1. /\ line \in Seq(Symbols) /\ buf[t] \in Seq(Symbols) /\ i[t] \in Int /\ n \in Int
      /\ Len(line) \in Nat
  BY ReaderTypes
<1>2. Asked(t) = SubSeq(line, 1, m)
  BY DEF Asked
<1>3. CASE pc[t] = "finish"
  <2>1. /\ n > 0 /\ i[t] <= n /\ i[t] <= Len(line) /\ Len(buf[t]) = i[t]
        /\ \A k \in 1 .. i[t] : buf[t][k] = line[k]
        /\ i[t] = n \/ i[t] = Len(line)
    BY <1>3 DEF LineInv, CopiedSoFar, Copying
  <2> HIDE DEF line, n
  <2>2. m = i[t] /\ m \in 0 .. Len(line)
    BY <1>1, <2>1
  <2> HIDE DEF m
  <2>3. /\ SubSeq(line, 1, m) \in Seq(Symbols) /\ Len(SubSeq(line, 1, m)) = m
        /\ \A k \in 1 .. m : SubSeq(line, 1, m)[k] = line[k]
    BY <1>1, <2>2
  <2>4. buf[t] = SubSeq(line, 1, m)
    BY <1>1, <2>1, <2>2, <2>3, SeqEqual
  <2> QED BY <1>2, <2>4
<1>4. CASE pc[t] = "claim" /\ n <= 0
  <2>1. buf[t] = <<>>
    BY <1>4 DEF LineInv, CopiedSoFar, Copying
  <2>2. m <= 0 /\ m \in Int
    BY <1>1, <1>4
  <2> HIDE DEF m, line
  <2>3. SubSeq(line, 1, m) \in Seq(Symbols) /\ Len(SubSeq(line, 1, m)) = 0
    BY <1>1, <2>2
  <2>4. SubSeq(line, 1, m) = <<>>
    BY <2>3, EmptySeq
  <2> QED BY <1>2, <2>1, <2>4
<1> QED BY <1>3, <1>4

(* Whatever the user does and however readers and timer interleave, what a *)
(* read returns that no switch, no Enter in its copying loop and no reader *)
(* past its own loop disturbs is the line of its terminal, whole.          *)
THEOREM WholeLinesSafe == Spec => WholeLines
<1>1. LineInv /\ [Next]_vars => [\A t \in Terminals : Returns(t) /\ alone[t] => buf[t] = Asked(t)]_vars
  BY ReturnSteps, FinishedCopy
<1>2. Spec => [][\A t \in Terminals : Returns(t) /\ alone[t] => buf[t] = Asked(t)]_vars
  BY <1>1, LineInvariance, PTL DEF Spec
<1> QED BY <1>2 DEF WholeLines

(* As long as the user waits, a read that asks for something returns only  *)
(* when a line is due at its own terminal: no reader takes another's       *)
(* signal.                                                                 *)
THEOREM ReadsWaitForALineSafe == Spec => ReadsWaitForALine
<1>1. LineInv /\ [Next]_vars => [haste = 0 => \A t \in Terminals : Awaited(t)]_vars
  <2> SUFFICES ASSUME LineInv, [Next]_vars, haste = 0, NEW t \in Terminals, Returns(t), nbytes[t] > 0
               PROVE  due[t]
    BY DEF Awaited
  <2>1. nbytes[t] \in Int
    BY ReaderTypes
  <2>2. Reading(t)
    BY <2>1, ReturnSteps DEF Reading
  <2> QED BY <2>2 DEF LineInv, SignalMeansLine, OwnSignal
<1>2. Spec => [][haste = 0 => \A t \in Terminals : Awaited(t)]_vars
  BY <1>1, LineInvariance, PTL DEF Spec
<1> QED BY <1>2 DEF ReadsWaitForALine
=============================================================================
