---------------------------- MODULE ScreenProofs ----------------------------
(***************************************************************************)
(* For a page of any size and any number of terminals, when Ctrl-L is      *)
(* pressed between lines: nothing is written outside a page, and the pages *)
(* show the texts of TerminalText.                                         *)
(***************************************************************************)
EXTENDS Screen, SequenceTheorems, TLAPS

ScreenType ==
    /\ screen_x \in [Terminals -> Int]
    /\ screen_y \in [Terminals -> Int]
    /\ key_buff_size \in [Terminals -> 0 .. BUFF_SIZE_LIMIT]
    /\ terminal_id \in Terminals
    /\ current_terminal_id \in Terminals

(* The line being typed is no longer than its buffer, so that it fits on a *)
(* page without its last row: what a scroll leaves in front of the         *)
(* position.                                                               *)
SInv == ScreenType /\ PositionOnPage

(* A place with n cells of its page or more in front of it. *)
Holds(x, y, n) ==
    /\ x \in 0 .. NCols - 1
    /\ y \in 0 .. NRows - 1
    /\ y * NCols + x >= n

-----------------------------------------------------------------------------
(* Places on a page *)

(* The rows of a page are consecutive runs of NCols cells. *)
LEMMA RowBelow ==
    ASSUME NEW y \in Int
    PROVE  /\ (y + 1) * NCols = y * NCols + NCols
           /\ (y - 1) * NCols = y * NCols - NCols
           /\ y * NCols \in Int
BY ScreenAssumption

(* print_new_line() goes down a row, or stays in the last. *)
LEMMA NewLinePlace ==
    ASSUME NEW p, NEW x \in Int, NEW y \in 0 .. NRows - 1
    PROVE  /\ NewLine([page |-> p, x |-> x, y |-> y]).x = x
           /\ NewLine([page |-> p, x |-> x, y |-> y]).y =
                IF y + 1 = NRows THEN NRows - 1 ELSE y + 1
BY ScreenAssumption DEF NewLine, Scrolled

(* The first place of the row below, or of the last row after a scroll. *)
LEMMA FeedHolds ==
    ASSUME NEW x, NEW y, NEW n \in 0 .. BUFF_SIZE_LIMIT, Holds(x, y, 0),
           y * NCols + x + 1 >= n
    PROVE  Holds(0, IF y + 1 = NRows THEN NRows - 1 ELSE y + 1, n)
<1>1. x \in Int /\ y \in Int /\ x < NCols
  BY ScreenAssumption DEF Holds
<1>2. CASE y + 1 = NRows
  BY <1>2, ScreenAssumption, RowBelow DEF Holds
<1>3. CASE y + 1 # NRows
  <2>1. (y + 1) * NCols >= n
    BY <1>1, RowBelow, ScreenAssumption
  <2> QED BY <1>3, <2>1, ScreenAssumption DEF Holds
<1> QED BY <1>2, <1>3

(* The newline character, too, leads to the start of a row. *)
LEMMA PutFeedHolds ==
    ASSUME NEW p, NEW x, NEW y, NEW n \in 0 .. BUFF_SIZE_LIMIT, Holds(x, y, n)
    PROVE  LET s == PutFeed([page |-> p, x |-> x, y |-> y]) IN Holds(s.x, s.y, n)
<1> DEFINE s == PutFeed([page |-> p, x |-> x, y |-> y])
<1>1. x \in Int /\ y \in 0 .. NRows - 1 /\ y * NCols \in Int
  BY RowBelow, ScreenAssumption DEF Holds
<1>2. s.x = 0 /\ s.y = IF y + 1 = NRows THEN NRows - 1 ELSE y + 1
  BY <1>1, NewLinePlace DEF PutFeed, NewLine, Scrolled
<1>3. Holds(x, y, 0) /\ y * NCols + x + 1 >= n
  BY <1>1, ScreenAssumption DEF Holds
<1> QED BY <1>2, <1>3, FeedHolds

(* A character takes the position on by one place. *)
LEMMA PutCharHolds ==
    ASSUME NEW p, NEW x, NEW y, NEW c, NEW n \in 0 .. BUFF_SIZE_LIMIT,
           Holds(x, y, 0), y * NCols + x + 1 >= n
    PROVE  LET s == PutChar([page |-> p, x |-> x, y |-> y], c) IN Holds(s.x, s.y, n)
<1> DEFINE s == PutChar([page |-> p, x |-> x, y |-> y], c)
           below == IF y + 1 = NRows THEN NRows - 1 ELSE y + 1
<1>1. x \in Int /\ y \in 0 .. NRows - 1
  BY ScreenAssumption DEF Holds
<1>2. CASE x + 1 = NCols
  <2>1. s.x = NCols % NCols /\ s.y = below % NRows
    BY <1>1, <1>2, ScreenAssumption DEF PutChar, NewLine, Scrolled
  <2>2. NCols % NCols = 0 /\ below % NRows = below
    BY <1>1, ScreenAssumption
  <2> QED BY <2>1, <2>2, FeedHolds
<1>3. CASE x + 1 # NCols
  <2>1. s.x = (x + 1) % NCols /\ s.y = y % NRows
    BY <1>3 DEF PutChar
  <2>2. (x + 1) % NCols = x + 1 /\ y % NRows = y
    BY <1>3, ScreenAssumption DEF Holds
  <2>3. y * NCols \in Int
    BY <1>1, RowBelow
  <2> QED BY <1>3, <2>1, <2>2, <2>3, ScreenAssumption DEF Holds
<1> QED BY <1>2, <1>3

(* backspace() goes back by one place, and there is one to go back to. *)
LEMMA BackHolds ==
    ASSUME NEW p, NEW x, NEW y, NEW n \in 1 .. BUFF_SIZE_LIMIT, Holds(x, y, n)
    PROVE  LET s == Back([page |-> p, x |-> x, y |-> y]) IN Holds(s.x, s.y, n - 1)
<1> DEFINE s == Back([page |-> p, x |-> x, y |-> y])
<1>1. x \in Int /\ y \in Int /\ n \in Int /\ y * NCols \in Int
  BY RowBelow, ScreenAssumption DEF Holds
<1>2. CASE x = 0
  <2>1. s.x = NCols - 1 /\ s.y = y - 1
    BY <1>2 DEF Back
  <2>2. y # 0
    BY <1>2, <1>1, ScreenAssumption DEF Holds
  <2>3. (y - 1) * NCols = y * NCols - NCols
    BY <1>1, RowBelow
  <2> QED BY <1>1, <1>2, <2>1, <2>2, <2>3, ScreenAssumption DEF Holds
<1>3. CASE x # 0
  <2>1. s.x = x - 1 /\ s.y = y
    BY <1>3 DEF Back
  <2> QED BY <1>1, <1>3, <2>1, ScreenAssumption DEF Holds
<1> QED BY <1>2, <1>3

-----------------------------------------------------------------------------
(* The steps *)

(* What SInv says of one terminal, its line as long as it is. *)
LEMMA HoldsOfTerminal ==
    ASSUME SInv, NEW t \in Terminals
    PROVE  /\ key_buff_size[t] \in 0 .. BUFF_SIZE_LIMIT
           /\ Holds(screen_x[t], screen_y[t], key_buff_size[t])
           /\ Holds(screen_x[t], screen_y[t], 0)
<1>1. key_buff_size[t] \in 0 .. BUFF_SIZE_LIMIT
  BY DEF SInv, ScreenType
<1>2. Holds(screen_x[t], screen_y[t], key_buff_size[t])
  BY DEF SInv, PositionOnPage, Holds
<1>3. screen_y[t] * NCols \in Int
  BY <1>2, RowBelow, ScreenAssumption DEF Holds
<1> QED BY <1>1, <1>2, <1>3, ScreenAssumption DEF Holds

(* A terminal's screen is written, and its line is k characters long. *)
LEMMA Written ==
    ASSUME SInv, NEW t \in Terminals, NEW s, NEW k \in 0 .. BUFF_SIZE_LIMIT,
           SetScreen(t, s), Holds(s.x, s.y, k),
           key_buff_size' = [key_buff_size EXCEPT ![t] = k],
           UNCHANGED <<terminal_id, current_terminal_id>>
    PROVE  SInv'
<1>1. s.x \in Int /\ s.y \in Int
  BY ScreenAssumption DEF Holds
<1>2. ScreenType'
  BY <1>1 DEF SInv, ScreenType, SetScreen
<1>3. PositionOnPage'
  <2> SUFFICES ASSUME NEW u \in Terminals
               PROVE  Holds(screen_x'[u], screen_y'[u], key_buff_size'[u])
    BY DEF PositionOnPage, Holds
  <2>1. CASE u = t
    BY <2>1 DEF SInv, ScreenType, SetScreen
  <2>2. CASE u # t
    BY <2>2, HoldsOfTerminal DEF SInv, ScreenType, SetScreen
  <2> QED BY <2>1, <2>2
<1> QED BY <1>2, <1>3 DEF SInv

(* Every page starts empty, with no line begun. *)
LEMMA InitSInv == Init => SInv
<1> SUFFICES ASSUME Init PROVE SInv
  OBVIOUS
<1>1. ScreenType
  BY ScreenAssumption DEF Init, ScreenType, Terminals
<1>2. 0 * NCols = 0
  BY ScreenAssumption
<1>3. PositionOnPage
  BY <1>2, ScreenAssumption DEF Init, PositionOnPage
<1> QED BY <1>1, <1>3 DEF SInv

(* terminal_write(): the position goes forward, the line stays. *)
LEMMA WriteStep == ASSUME SInv, Write PROVE SInv'
<1> DEFINE t == current_terminal_id
<1>1. t \in Terminals
  BY DEF SInv, ScreenType
<1>2. /\ key_buff_size[t] \in 0 .. BUFF_SIZE_LIMIT
      /\ Holds(screen_x[t], screen_y[t], key_buff_size[t])
      /\ Holds(screen_x[t], screen_y[t], 0)
  BY <1>1, HoldsOfTerminal
<1>3. key_buff_size' = [key_buff_size EXCEPT ![t] = key_buff_size[t]]
  BY <1>1 DEF Write, SInv, ScreenType
<1>4. CASE SetScreen(t, PutFeed(Of(t)))
  <2>1. Holds(PutFeed(Of(t)).x, PutFeed(Of(t)).y, key_buff_size[t])
    BY <1>2, PutFeedHolds DEF Of
  <2> QED BY <1>1, <1>2, <1>3, <1>4, <2>1, Written DEF Write
<1>5. CASE \E c \in Characters : SetScreen(t, PutChar(Of(t), c))
  <2>1. PICK c \in Characters : SetScreen(t, PutChar(Of(t), c))
    BY <1>5
  <2>2. screen_y[t] * NCols + screen_x[t] + 1 >= key_buff_size[t]
    BY <1>2, RowBelow, ScreenAssumption DEF Holds
  <2>3. Holds(PutChar(Of(t), c).x, PutChar(Of(t), c).y, key_buff_size[t])
    BY <1>2, <2>2, PutCharHolds DEF Of
  <2> QED BY <1>1, <1>2, <1>3, <2>1, <2>3, Written DEF Write
<1> QED BY <1>4, <1>5 DEF Write

(* A character typed makes the line and the page longer by one. *)
LEMMA TypeCharStep == ASSUME SInv, TypeChar PROVE SInv'
<1> DEFINE t == terminal_id
           k == key_buff_size[t] + 1
<1>1. t \in Terminals
  BY DEF SInv, ScreenType
<1>2. /\ key_buff_size[t] \in 0 .. BUFF_SIZE_LIMIT
      /\ Holds(screen_x[t], screen_y[t], key_buff_size[t])
      /\ Holds(screen_x[t], screen_y[t], 0)
  BY <1>1, HoldsOfTerminal
<1>3. k \in 0 .. BUFF_SIZE_LIMIT
  BY <1>2, ScreenAssumption DEF TypeChar, HasRoom
<1>4. PICK c \in Characters : SetScreen(t, PutChar(Of(t), c))
  BY DEF TypeChar
<1>5. screen_y[t] * NCols + screen_x[t] + 1 >= k
  BY <1>2, RowBelow, ScreenAssumption DEF Holds
<1>6. Holds(PutChar(Of(t), c).x, PutChar(Of(t), c).y, k)
  BY <1>2, <1>3, <1>5, PutCharHolds DEF Of
<1> QED BY <1>1, <1>3, <1>4, <1>6, Written DEF TypeChar

(* Backspace takes one off both, if there is one. *)
LEMMA BackspaceStep == ASSUME SInv, Backspace PROVE SInv'
<1> DEFINE t == terminal_id
           k == key_buff_size[t] - 1
<1>1. t \in Terminals
  BY DEF SInv, ScreenType
<1>2. /\ key_buff_size[t] \in 1 .. BUFF_SIZE_LIMIT
      /\ Holds(screen_x[t], screen_y[t], key_buff_size[t])
  BY <1>1, HoldsOfTerminal, ScreenAssumption DEF Backspace
<1>3. Holds(Back(Of(t)).x, Back(Of(t)).y, k)
  BY <1>2, BackHolds DEF Of
<1>4. k \in 0 .. BUFF_SIZE_LIMIT
  BY <1>2, ScreenAssumption
<1> QED BY <1>1, <1>3, <1>4, Written DEF Backspace

(* Enter ends the line: there is nothing left to take back. *)
LEMMA EnterStep == ASSUME SInv, Enter PROVE SInv'
<1> DEFINE t == terminal_id
<1>1. t \in Terminals /\ 0 \in 0 .. BUFF_SIZE_LIMIT
  BY ScreenAssumption DEF SInv, ScreenType
<1>2. Holds(PutFeed(Of(t)).x, PutFeed(Of(t)).y, 0)
  BY <1>1, HoldsOfTerminal, PutFeedHolds DEF Of
<1> QED BY <1>1, <1>2, Written DEF Enter

(* Ctrl-L takes the position back to the start of the page: only a line    *)
(* not yet begun is then still in front of it.                             *)
LEMMA CtrlLStep == ASSUME SInv, CtrlL, TidyClear PROVE SInv'
<1> DEFINE t == terminal_id
           s == [page |-> BlankPage, x |-> 0, y |-> 0]
<1>1. t \in Terminals /\ 0 \in 0 .. BUFF_SIZE_LIMIT
  BY ScreenAssumption DEF SInv, ScreenType
<1>2. key_buff_size' = [key_buff_size EXCEPT ![t] = 0]
  BY <1>1 DEF CtrlL, SInv, ScreenType
<1>3. 0 * NCols = 0
  BY ScreenAssumption
<1>4. Holds(s.x, s.y, 0)
  BY <1>3, ScreenAssumption DEF Holds
<1>5. SetScreen(t, s)
  BY DEF CtrlL
<1> HIDE DEF s
<1> QED BY <1>1, <1>2, <1>4, <1>5, Written DEF CtrlL

(* Which terminal is shown or runs says nothing about pages. *)
LEMMA OtherSteps == ASSUME SInv, SwitchTerminal \/ Tick PROVE SInv'
<1>1. CASE SwitchTerminal
  BY <1>1 DEF SwitchTerminal, SInv, ScreenType, PositionOnPage
<1>2. CASE Tick
  <2>1. (current_terminal_id + 1) % NTerminals \in Terminals
    BY ScreenAssumption DEF SInv, ScreenType, Terminals
  <2> QED BY <1>2, <2>1 DEF Tick, SInv, ScreenType, PositionOnPage
<1> QED BY <1>1, <1>2

(* SInv is inductive, for orderly uses of Ctrl-L. *)
LEMMA NextSInv == TidyClear /\ SInv /\ [Next]_vars => SInv'
<1> SUFFICES ASSUME TidyClear, SInv, [Next]_vars PROVE SInv'
  OBVIOUS
<1>1. CASE UNCHANGED vars
  BY <1>1 DEF vars, SInv, ScreenType, PositionOnPage
<1>2. CASE Write
  BY <1>2, WriteStep
<1>3. CASE TypeChar
  BY <1>3, TypeCharStep
<1>4. CASE Backspace
  BY <1>4, BackspaceStep
<1>5. CASE Enter
  BY <1>5, EnterStep
<1>6. CASE CtrlL
  BY <1>6, CtrlLStep
<1>7. CASE SwitchTerminal
  BY <1>7, OtherSteps
<1>8. CASE Tick
  BY <1>8, OtherSteps
<1> QED BY <1>1, <1>2, <1>3, <1>4, <1>5, <1>6, <1>7, <1>8 DEF Next

(* When Ctrl-L is pressed between lines, SInv holds for ever. *)
THEOREM ScreenInvariance == ASSUME TidyClear PROVE Spec => []SInv
<1>1. Init => SInv
  BY InitSInv
<1>2. SInv /\ [Next]_vars => SInv'
  BY NextSInv
<1> QED BY <1>1, <1>2, PTL DEF Spec

(* putc() and backspace() never write outside the page of their terminal,  *)
(* and what Backspace may still take back is on it.                        *)
THEOREM PositionOnPageSafe == ASSUME TidyClear PROVE Spec => []PositionOnPage
<1>1. SInv => PositionOnPage
  BY DEF SInv
<1> QED BY <1>1, ScreenInvariance, PTL
-----------------------------------------------------------------------------
(* The text a page shows *)

Places == Characters \cup {Blank}

(* The first n places of row r of a page.                                  *)
Row(p, r, n) == [k \in 1 .. n |-> p[(r - 1) * NCols + k - 1]]

(* The lines a page shows, written up to place x of its row y.             *)
Rows(p, x, y) ==
    [r \in 1 .. y + 1 |->
        [k \in 1 .. (IF r = y + 1 THEN x ELSE NCols) |-> p[(r - 1) * NCols + k - 1]]]

(* Nothing is shown from the position on.                                  *)
BlankFrom(p, x, y) == \A j \in Cells : j >= y * NCols + x => p[j] = Blank

(* Rows are in their order.                                                *)
LEMMA RowOrder ==
    ASSUME NEW a \in Int, NEW b \in Int, a <= b
    PROVE  a * NCols <= b * NCols
<1>1. NCols \in Nat /\ b - a \in Nat
  BY ScreenAssumption
<1>2. (b - a) * NCols \in Nat
  BY <1>1
<1>3. (b - a) * NCols = b * NCols - a * NCols
  BY <1>1
<1> QED BY <1>1, <1>2, <1>3

(* A place of a row is a cell of the page.                                 *)
LEMMA CellOfRow ==
    ASSUME NEW r \in 1 .. NRows, NEW k \in 1 .. NCols
    PROVE  (r - 1) * NCols + k - 1 \in Cells
<1>1. /\ NRows \in Nat /\ NCols \in Nat /\ r - 1 \in Nat /\ NRows - 1 \in Nat
      /\ (r - 1) * NCols \in Nat
  BY ScreenAssumption
<1>2. (r - 1) * NCols <= (NRows - 1) * NCols
  BY <1>1, RowOrder
<1>3. (NRows - 1) * NCols = NRows * NCols - NCols /\ NRows * NCols \in Int
  BY <1>1, RowBelow
<1> QED BY <1>1, <1>2, <1>3 DEF Cells

(* A row of a page is a line.                                              *)
LEMMA RowIsLine ==
    ASSUME NEW p \in [Cells -> Places], NEW r \in 1 .. NRows, NEW n \in 0 .. NCols
    PROVE  /\ Row(p, r, n) \in Seq(Places) /\ Len(Row(p, r, n)) = n
           /\ \A k \in 1 .. n : Row(p, r, n)[k] = p[(r - 1) * NCols + k - 1]
<1>1. n \in Nat /\ \A k \in 1 .. n : k \in 1 .. NCols
  BY ScreenAssumption
<1>2. \A k \in 1 .. n : p[(r - 1) * NCols + k - 1] \in Places
  BY <1>1, CellOfRow
<1> QED BY <1>1, <1>2 DEF Row

(* The lines of a page.                                                    *)
LEMMA RowsAreText ==
    ASSUME NEW p \in [Cells -> Places], NEW x \in 0 .. NCols, NEW y \in 0 .. NRows - 1
    PROVE  /\ Rows(p, x, y) \in Seq(Seq(Places)) /\ Len(Rows(p, x, y)) = y + 1
           /\ \A r \in 1 .. y : Rows(p, x, y)[r] = Row(p, r, NCols)
           /\ Rows(p, x, y)[y + 1] = Row(p, y + 1, x)
<1>1. NRows \in Nat /\ NCols \in Nat /\ y + 1 \in Nat /\ NCols \in 0 .. NCols
  BY ScreenAssumption
<1>2. \A r \in 1 .. y + 1 : r \in 1 .. NRows
  BY <1>1
<1> DEFINE e(r) == Row(p, r, IF r = y + 1 THEN x ELSE NCols)
<1>3. Rows(p, x, y) = [r \in 1 .. y + 1 |-> e(r)]
  BY DEF Rows, Row
<1>4. \A r \in 1 .. y + 1 : e(r) \in Seq(Places)
  BY <1>1, <1>2, RowIsLine
<1>5. \A r \in 1 .. y : r # y + 1 /\ r \in 1 .. y + 1
  BY <1>1
<1>6. (\A r \in 1 .. y : e(r) = Row(p, r, NCols)) /\ e(y + 1) = Row(p, y + 1, x)
  BY <1>5
<1> HIDE DEF e
<1>7. [r \in 1 .. y + 1 |-> e(r)] \in Seq(Seq(Places))
  BY <1>1, <1>4, IsASeq
<1>8. Len([r \in 1 .. y + 1 |-> e(r)]) = y + 1
  BY <1>1
<1>9. y + 1 \in 1 .. y + 1
  BY <1>1
<1> QED BY <1>3, <1>5, <1>6, <1>7, <1>8, <1>9

(* Two texts of the same lines are the same.                               *)
LEMMA SameText ==
    ASSUME NEW a \in Seq(Seq(Places)), NEW b \in Seq(Seq(Places)), Len(a) = Len(b),
           \A r \in 1 .. Len(a) : a[r] = b[r]
    PROVE  a = b
BY SeqEqual

(* Front and Last of a text or a line.                                     *)
LEMMA FrontLast ==
    ASSUME NEW S, NEW q \in Seq(S), q # <<>>
    PROVE  /\ Len(q) \in Nat \ {0}
           /\ Text!Front(q) \in Seq(S) /\ Len(Text!Front(q)) = Len(q) - 1
           /\ \A j \in 1 .. Len(q) - 1 : Text!Front(q)[j] = q[j]
           /\ Text!Last(q) = q[Len(q)] /\ Text!Last(q) \in S
<1>1. Len(q) \in Nat \ {0}
  BY EmptySeq
<1>2. \A j \in 1 .. Len(q) - 1 : q[j] \in S
  BY <1>1
<1>3. /\ SubSeq(q, 1, Len(q) - 1) \in Seq(S)
      /\ Len(SubSeq(q, 1, Len(q) - 1)) = Len(q) - 1
      /\ \A j \in 1 .. Len(q) - 1 : SubSeq(q, 1, Len(q) - 1)[j] = q[j]
  <2>1. PICK m \in Nat : m = Len(q) - 1
    BY <1>1
  <2>2. \A j \in 1 .. m : q[j] \in S
    BY <1>2, <2>1
  <2>3. /\ SubSeq(q, 1, m) \in Seq(S)
        /\ Len(SubSeq(q, 1, m)) = IF 1 <= m THEN m - 1 + 1 ELSE 0
        /\ \A j \in 1 .. m - 1 + 1 : SubSeq(q, 1, m)[j] = q[1 + j - 1]
    BY <2>2, SubSeqProperties
  <2>4. m - 1 + 1 = m /\ (IF 1 <= m THEN m - 1 + 1 ELSE 0) = m /\ \A j \in 1 .. m : 1 + j - 1 = j
    OBVIOUS
  <2>5. /\ SubSeq(q, 1, m) \in Seq(S) /\ Len(SubSeq(q, 1, m)) = m
        /\ \A j \in 1 .. m : SubSeq(q, 1, m)[j] = q[j]
    BY <2>3, <2>4
  <2> QED BY <2>1, <2>5
<1> QED BY <1>1, <1>3 DEF Text!Front, Text!Last

(* A line that is left is filled up to the row's end.                      *)
LEMMA FilledLine ==
    ASSUME NEW line \in Seq(Places), Len(line) <= NCols
    PROVE  /\ Text!Filled(line) \in Seq(Places) /\ Len(Text!Filled(line)) = NCols
           /\ \A k \in 1 .. NCols :
                Text!Filled(line)[k] = IF k <= Len(line) THEN line[k] ELSE Blank
<1> DEFINE fill == [k \in 1 .. NCols - Len(line) |-> Blank]
<1>1. NCols \in Nat /\ Len(line) \in Nat /\ NCols - Len(line) \in Nat
  BY ScreenAssumption
<1>2. Blank \in Places
  BY DEF Places
<1>3. /\ fill \in Seq(Places) /\ Len(fill) = NCols - Len(line)
      /\ \A k \in 1 .. NCols - Len(line) : fill[k] = Blank
  BY <1>1, <1>2
<1>4. Text!Filled(line) = line \o fill
  BY DEF Text!Filled
<1> DEFINE all == line \o fill
           m == Len(line)
<1> HIDE DEF fill
<1>5. /\ all \in Seq(Places) /\ Len(all) = m + Len(fill)
      /\ \A k \in 1 .. m + Len(fill) : all[k] = IF k <= m THEN line[k] ELSE fill[k - m]
  BY <1>3
<1>6. m \in Nat /\ m + Len(fill) = NCols
  BY <1>1, <1>3
<1>7. \A k \in 1 .. NCols : k <= m \/ k - m \in 1 .. NCols - m
  BY <1>1, <1>6
<1> HIDE DEF all, m
<1>8. \A k \in 1 .. NCols : all[k] = IF k <= m THEN line[k] ELSE Blank
  <2>1. \A k \in 1 .. NCols : ~(k <= m) => fill[k - m] = Blank
    BY <1>3, <1>7 DEF m
  <2> QED BY <1>5, <1>6, <2>1
<1> QED BY <1>4, <1>5, <1>6, <1>8 DEF all, m

(* What Broken does to each line of a text.                                *)
LEMMA BrokenText ==
    ASSUME NEW text \in Seq(Seq(Places)), NEW n \in 1 .. NRows, Len(text) = n,
           Len(text[n]) <= NCols
    PROVE  /\ Text!Broken(text) \in Seq(Seq(Places))
           /\ n < NRows => /\ Len(Text!Broken(text)) = n + 1
                           /\ \A r \in 1 .. n - 1 : Text!Broken(text)[r] = text[r]
                           /\ Text!Broken(text)[n] = Text!Filled(text[n])
                           /\ Text!Broken(text)[n + 1] = <<>>
           /\ n = NRows => /\ Len(Text!Broken(text)) = n
                           /\ \A r \in 1 .. n - 2 : Text!Broken(text)[r] = text[r + 1]
                           /\ Text!Broken(text)[n - 1] = Text!Filled(text[n])
                           /\ Text!Broken(text)[n] = <<>>
<1> DEFINE S == Seq(Places)
           full == Text!Filled(text[n])
           front == Text!Front(text)
           left == front \o <<full>>
           more == Append(left, <<>>)
<1>1. n \in Nat /\ n >= 1 /\ NRows \in Nat /\ NRows >= 2 /\ text # <<>>
  BY ScreenAssumption
<1>2. text[n] \in S /\ full \in S /\ <<>> \in S
  BY <1>1, FilledLine
<1>3. /\ front \in Seq(S) /\ Len(front) = n - 1 /\ Text!Last(text) = text[n]
      /\ \A r \in 1 .. n - 1 : front[r] = text[r]
  BY <1>1, FrontLast
<1>4. Text!Broken(text) = IF Len(more) > NRows THEN Tail(more) ELSE more
  BY <1>3 DEF Text!Broken
<1> HIDE DEF S, full, front
<1>5. /\ left \in Seq(S) /\ Len(left) = n
      /\ \A r \in 1 .. n - 1 : left[r] = text[r]
      /\ left[n] = full
  <2>1. <<full>> \in Seq(S) /\ Len(<<full>>) = 1 /\ <<full>>[1] = full
    BY <1>2
  <2>2. /\ left \in Seq(S) /\ Len(left) = (n - 1) + 1
        /\ \A r \in 1 .. (n - 1) + 1 :
             left[r] = IF r <= n - 1 THEN front[r] ELSE <<full>>[r - (n - 1)]
    BY <1>3, <2>1, ConcatProperties
  <2>3. \A r \in 1 .. n - 1 : r \in 1 .. (n - 1) + 1 /\ r <= n - 1
    BY <1>1
  <2>4. n \in 1 .. (n - 1) + 1 /\ ~(n <= n - 1) /\ n - (n - 1) = 1 /\ (n - 1) + 1 = n
    BY <1>1
  <2>5. \A r \in 1 .. n - 1 : left[r] = text[r]
    BY <1>3, <2>2, <2>3
  <2>6. left[n] = full
    BY <2>1, <2>2, <2>4
  <2> QED BY <2>2, <2>4, <2>5, <2>6
<1> HIDE DEF left
<1>6. /\ more \in Seq(S) /\ Len(more) = n + 1
      /\ \A r \in 1 .. n : more[r] = left[r]
      /\ more[n + 1] = <<>>
  BY <1>1, <1>2, <1>5
<1> HIDE DEF more
<1>7. \A r \in 1 .. n - 1 : more[r] = text[r]
  BY <1>1, <1>5, <1>6
<1>8. more[n] = full
  BY <1>1, <1>5, <1>6
<1>9. CASE n < NRows
  BY <1>1, <1>4, <1>6, <1>7, <1>8, <1>9 DEF S, full
<1>10. CASE n = NRows
  <2>1. Text!Broken(text) = Tail(more)
    BY <1>1, <1>4, <1>6, <1>10
  <2>2. /\ Tail(more) \in Seq(S) /\ Len(Tail(more)) = n
        /\ \A r \in 1 .. n : Tail(more)[r] = more[r + 1]
    BY <1>1, <1>6, HeadTailProperties
  <2>3. \A r \in 1 .. n - 2 : r \in 1 .. n /\ r + 1 \in 1 .. n - 1
    BY <1>1
  <2>4. \A r \in 1 .. n - 2 : Tail(more)[r] = text[r + 1]
    BY <1>7, <2>2, <2>3
  <2>5. n - 1 \in 1 .. n /\ (n - 1) + 1 = n /\ n \in 1 .. n
    BY <1>1, <1>10
  <2>6. Tail(more)[n - 1] = full /\ Tail(more)[n] = <<>>
    BY <1>6, <1>8, <2>2, <2>5
  <2> QED BY <1>1, <1>10, <2>1, <2>2, <2>4, <2>6 DEF S, full
<1> QED BY <1>1, <1>9, <1>10

(* A row of a page that was scrolled is the next row of the one before.    *)
LEMMA ScrolledPage ==
    ASSUME NEW p \in [Cells -> Places]
    PROVE  LET q == [j \in Cells |-> IF j < (NRows - 1) * NCols THEN p[j + NCols] ELSE Blank]
           IN  /\ q \in [Cells -> Places]
               /\ \A r \in 1 .. NRows - 1 : Row(q, r, NCols) = Row(p, r + 1, NCols)
               /\ BlankFrom(q, 0, NRows - 1)
<1> DEFINE q == [j \in Cells |-> IF j < (NRows - 1) * NCols THEN p[j + NCols] ELSE Blank]
<1>1. /\ NRows \in Nat /\ NCols \in Nat /\ NCols > 0
      /\ (NRows - 1) * NCols = NRows * NCols - NCols /\ NRows * NCols \in Int
  BY ScreenAssumption, RowBelow
<1>2. \A j \in Cells : j < (NRows - 1) * NCols => j + NCols \in Cells
  BY <1>1 DEF Cells
<1>3. q \in [Cells -> Places]
  BY <1>2 DEF Places
<1>4. BlankFrom(q, 0, NRows - 1)
  BY <1>1 DEF BlankFrom, Cells
<1>5. ASSUME NEW r \in 1 .. NRows - 1
      PROVE  Row(q, r, NCols) = Row(p, r + 1, NCols)
  <2>1. r \in 1 .. NRows /\ r \in Int /\ r - 1 \in Int
    BY <1>1
  <2>2. ASSUME NEW k \in 1 .. NCols
        PROVE  q[(r - 1) * NCols + k - 1] = p[((r + 1) - 1) * NCols + k - 1]
    <3>1. (r - 1) * NCols + k - 1 \in Cells /\ (r - 1) * NCols \in Int
      BY <2>1, CellOfRow, RowBelow
    <3>2. r * NCols = (r - 1) * NCols + NCols /\ (r + 1) - 1 = r
      BY <2>1, RowBelow, <1>1
    <3>3. r * NCols <= (NRows - 1) * NCols
      BY <1>1, <2>1, RowOrder
    <3>4. (r - 1) * NCols + k - 1 < (NRows - 1) * NCols
      BY <1>1, <3>1, <3>2, <3>3
    <3>5. q[(r - 1) * NCols + k - 1] = p[((r - 1) * NCols + k - 1) + NCols]
      BY <3>1, <3>4
    <3>6. ((r - 1) * NCols + k - 1) + NCols = ((r + 1) - 1) * NCols + k - 1
      BY <1>1, <3>1, <3>2
    <3> QED BY <3>5, <3>6
  <2> QED BY <2>2 DEF Row
<1> QED BY <1>3, <1>4, <1>5

(* print_new_line() and the return to column 0 break the text: the line is *)
(* left, filled up with what was blank, and the first is lost if it must.  *)
LEMMA FeedBreaks ==
    ASSUME NEW p \in [Cells -> Places], NEW x \in 0 .. NCols, NEW y \in 0 .. NRows - 1,
           BlankFrom(p, x, y)
    PROVE  LET s == NewLine([page |-> p, x |-> x, y |-> y])
           IN  /\ s.page \in [Cells -> Places] /\ s.y \in 0 .. NRows - 1
               /\ BlankFrom(s.page, 0, s.y)
               /\ Rows(s.page, 0, s.y) = Text!Broken(Rows(p, x, y))
<1> DEFINE s == NewLine([page |-> p, x |-> x, y |-> y])
           text == Rows(p, x, y)
           n == y + 1
           q == [j \in Cells |-> IF j < (NRows - 1) * NCols THEN p[j + NCols] ELSE Blank]
<1>1. /\ NRows \in Nat /\ NRows >= 2 /\ NCols \in Nat /\ NCols > 0
      /\ y \in Nat /\ n \in 1 .. NRows /\ n = y + 1 /\ y = n - 1 /\ n \in Nat
      /\ x \in Nat /\ NCols \in 0 .. NCols /\ 0 \in 0 .. NCols
  BY ScreenAssumption
<1>2. /\ text \in Seq(Seq(Places)) /\ Len(text) = n
      /\ \A r \in 1 .. n - 1 : text[r] = Row(p, r, NCols)
      /\ text[n] = Row(p, n, x)
  BY <1>1, RowsAreText
<1> HIDE DEF text
<1>3. Len(text[n]) = x
  <2>1. Len(Row(p, n, x)) = x
    BY <1>1, RowIsLine
  <2> QED BY <1>2, <2>1
<1>4. Text!Filled(text[n]) = Row(p, n, NCols)
  <2>1. /\ Row(p, n, x) \in Seq(Places) /\ Len(Row(p, n, x)) = x
        /\ \A k \in 1 .. x : Row(p, n, x)[k] = p[(n - 1) * NCols + k - 1]
    BY <1>1, RowIsLine
  <2>2. /\ Row(p, n, NCols) \in Seq(Places) /\ Len(Row(p, n, NCols)) = NCols
        /\ \A k \in 1 .. NCols : Row(p, n, NCols)[k] = p[(n - 1) * NCols + k - 1]
    BY <1>1, RowIsLine
  <2>3. /\ Text!Filled(text[n]) \in Seq(Places) /\ Len(Text!Filled(text[n])) = NCols
        /\ \A k \in 1 .. NCols :
             Text!Filled(text[n])[k] = IF k <= x THEN text[n][k] ELSE Blank
    <3>1. text[n] \in Seq(Places) /\ Len(text[n]) = x /\ Len(text[n]) <= NCols
      BY <1>1, <1>2, <2>1
    <3> QED BY <3>1, FilledLine
  <2>4. ASSUME NEW k \in 1 .. NCols
        PROVE  Text!Filled(text[n])[k] = Row(p, n, NCols)[k]
    <3>1. CASE k <= x
      BY <1>1, <1>2, <2>1, <2>2, <2>3, <3>1
    <3>2. CASE ~(k <= x)
      <4>1. (n - 1) * NCols + k - 1 \in Cells
        BY <1>1, CellOfRow
      <4>2. (n - 1) * NCols = y * NCols /\ y * NCols \in Int
        BY <1>1
      <4>3. (n - 1) * NCols + k - 1 >= y * NCols + x
        BY <1>1, <3>2, <4>2
      <4>4. p[(n - 1) * NCols + k - 1] = Blank
        BY <4>1, <4>3 DEF BlankFrom
      <4> QED BY <2>2, <2>3, <3>2, <4>4
    <3> QED BY <3>1, <3>2
  <2> QED BY <2>2, <2>3, <2>4, SeqEqual
<1> HIDE DEF text, n
<1>5. /\ Text!Broken(text) \in Seq(Seq(Places))
      /\ n < NRows => /\ Len(Text!Broken(text)) = n + 1
                      /\ \A r \in 1 .. n - 1 : Text!Broken(text)[r] = text[r]
                      /\ Text!Broken(text)[n] = Text!Filled(text[n])
                      /\ Text!Broken(text)[n + 1] = <<>>
      /\ n = NRows => /\ Len(Text!Broken(text)) = n
                      /\ \A r \in 1 .. n - 2 : Text!Broken(text)[r] = text[r + 1]
                      /\ Text!Broken(text)[n - 1] = Text!Filled(text[n])
                      /\ Text!Broken(text)[n] = <<>>
  <2>1. Len(text[n]) <= NCols
    BY <1>1, <1>3
  <2> QED BY <1>1, <1>2, <2>1, BrokenText
<1>6. CASE n < NRows
  <2>1. s.page = p /\ s.y = y + 1
    BY <1>6, <1>1 DEF NewLine
  <2>2. s.y \in 0 .. NRows - 1
    BY <1>1, <1>6, <2>1
  <2>3. BlankFrom(s.page, 0, s.y)
    <3>1. (y + 1) * NCols = y * NCols + NCols /\ y * NCols \in Int
      BY <1>1, RowBelow
    <3>2. ASSUME NEW j \in Cells, j >= (y + 1) * NCols + 0
          PROVE  p[j] = Blank
      <4>1. j \in Int
        BY <1>1 DEF Cells
      <4>2. j >= y * NCols + x
        BY <1>1, <3>1, <3>2, <4>1
      <4> QED BY <4>2 DEF BlankFrom
    <3> QED BY <2>1, <3>2 DEF BlankFrom
  <2>4. /\ Len(Text!Broken(text)) = n + 1
        /\ \A r \in 1 .. n - 1 : Text!Broken(text)[r] = text[r]
        /\ Text!Broken(text)[n] = Row(p, n, NCols)
        /\ Text!Broken(text)[n + 1] = <<>>
    BY <1>4, <1>5, <1>6
  <2>5. /\ Rows(p, 0, n) \in Seq(Seq(Places)) /\ Len(Rows(p, 0, n)) = n + 1
        /\ \A r \in 1 .. n : Rows(p, 0, n)[r] = Row(p, r, NCols)
        /\ Rows(p, 0, n)[n + 1] = Row(p, n + 1, 0)
    <3>1. n \in 0 .. NRows - 1
      BY <1>1, <1>6
    <3> QED BY <1>1, <3>1, RowsAreText
  <2>6. Row(p, n + 1, 0) = <<>>
    BY DEF Row
  <2>7. ASSUME NEW r \in 1 .. n + 1
        PROVE  Rows(p, 0, n)[r] = Text!Broken(text)[r]
    <3>1. CASE r \in 1 .. n - 1
      <4>1. r \in 1 .. n
        BY <1>1, <3>1
      <4> QED BY <1>2, <2>4, <2>5, <3>1, <4>1
    <3>2. CASE r = n
      BY <1>1, <2>4, <2>5, <3>2
    <3>3. CASE r = n + 1
      BY <2>4, <2>5, <2>6, <3>3
    <3> QED BY <1>1, <2>7, <3>1, <3>2, <3>3
  <2>8. Rows(p, 0, n) = Text!Broken(text)
    BY <1>5, <2>4, <2>5, <2>7, SameText
  <2> QED BY <1>1, <2>1, <2>2, <2>3, <2>8 DEF text
<1>7. CASE n = NRows
  <2>1. s.page = q /\ s.y = NRows - 1
    BY <1>7, <1>1 DEF NewLine, Scrolled
  <2>2. /\ q \in [Cells -> Places]
        /\ \A r \in 1 .. NRows - 1 : Row(q, r, NCols) = Row(p, r + 1, NCols)
        /\ BlankFrom(q, 0, NRows - 1)
    BY ScrolledPage
  <2> HIDE DEF q
  <2>3. NRows - 1 \in 0 .. NRows - 1
    BY <1>1
  <2>4. /\ Len(Text!Broken(text)) = n
        /\ \A r \in 1 .. n - 2 : Text!Broken(text)[r] = text[r + 1]
        /\ Text!Broken(text)[n - 1] = Row(p, n, NCols)
        /\ Text!Broken(text)[n] = <<>>
    BY <1>4, <1>5, <1>7
  <2>5. /\ Rows(q, 0, y) \in Seq(Seq(Places)) /\ Len(Rows(q, 0, y)) = n
        /\ \A r \in 1 .. n - 1 : Rows(q, 0, y)[r] = Row(q, r, NCols)
        /\ Rows(q, 0, y)[n] = Row(q, n, 0)
    <3>1. /\ Rows(q, 0, y) \in Seq(Seq(Places)) /\ Len(Rows(q, 0, y)) = y + 1
          /\ \A r \in 1 .. y : Rows(q, 0, y)[r] = Row(q, r, NCols)
          /\ Rows(q, 0, y)[y + 1] = Row(q, y + 1, 0)
      BY <1>1, <2>2, RowsAreText
    <3> QED BY <1>1, <3>1
  <2>6. Row(q, n, 0) = <<>>
    BY DEF Row
  <2>7. ASSUME NEW r \in 1 .. n
        PROVE  Rows(q, 0, y)[r] = Text!Broken(text)[r]
    <3>1. CASE r \in 1 .. n - 2
      <4>1. r \in 1 .. n - 1 /\ r + 1 \in 1 .. n - 1
        BY <1>1, <3>1
      <4> QED BY <1>2, <1>7, <2>2, <2>4, <2>5, <3>1, <4>1
    <3>2. CASE r = n - 1
      <4>1. n - 1 \in 1 .. NRows - 1 /\ (n - 1) + 1 = n
        BY <1>1, <1>7
      <4> QED BY <1>7, <2>2, <2>4, <2>5, <3>2, <4>1
    <3>3. CASE r = n
      BY <2>4, <2>5, <2>6, <3>3
    <3> QED BY <1>1, <2>7, <3>1, <3>2, <3>3
  <2>8. Rows(q, 0, y) = Text!Broken(text)
    BY <1>5, <2>4, <2>5, <2>7, SameText
  <2>9. y = NRows - 1
    BY <1>1, <1>7
  <2> QED BY <2>1, <2>2, <2>3, <2>8, <2>9 DEF text
<1> QED BY <1>1, <1>6, <1>7

(* Pages that agree in front of a place show the same lines up to it.      *)
LEMMA EarlierRows ==
    ASSUME NEW p, NEW q, NEW x \in 0 .. NCols, NEW y \in 0 .. NRows - 1,
           \A j \in Cells : j < y * NCols + x => p[j] = q[j]
    PROVE  /\ \A r \in 1 .. y : Row(p, r, NCols) = Row(q, r, NCols)
           /\ Row(p, y + 1, x) = Row(q, y + 1, x)
<1>1. NRows \in Nat /\ NCols \in Nat /\ x \in Nat /\ y \in Nat /\ y * NCols \in Int
  BY RowBelow, ScreenAssumption
<1>2. ASSUME NEW r \in 1 .. y
      PROVE  Row(p, r, NCols) = Row(q, r, NCols)
  <2>1. r \in 1 .. NRows /\ r \in Int /\ r <= y
    BY <1>1
  <2>2. (r - 1) * NCols = r * NCols - NCols /\ r * NCols \in Int /\ r * NCols <= y * NCols
    BY <1>1, <2>1, RowBelow, RowOrder
  <2>3. ASSUME NEW k \in 1 .. NCols
        PROVE  p[(r - 1) * NCols + k - 1] = q[(r - 1) * NCols + k - 1]
    <3>1. (r - 1) * NCols + k - 1 \in Cells
      BY <2>1, CellOfRow
    <3>2. (r - 1) * NCols + k - 1 < y * NCols + x
      BY <1>1, <2>2
    <3> QED BY <3>1, <3>2
  <2> QED BY <2>3 DEF Row
<1>3. Row(p, y + 1, x) = Row(q, y + 1, x)
  <2>1. y + 1 \in 1 .. NRows /\ (y + 1) - 1 = y
    BY <1>1
  <2>2. ASSUME NEW k \in 1 .. x
        PROVE  p[((y + 1) - 1) * NCols + k - 1] = q[((y + 1) - 1) * NCols + k - 1]
    <3>1. k \in 1 .. NCols
      BY <1>1
    <3>2. ((y + 1) - 1) * NCols + k - 1 \in Cells
      BY <2>1, <3>1, CellOfRow
    <3>3. ((y + 1) - 1) * NCols + k - 1 < y * NCols + x
      BY <1>1, <2>1
    <3> QED BY <3>2, <3>3
  <2> QED BY <2>2 DEF Row
<1> QED BY <1>2, <1>3

(* The place of the position is a cell of the page.                        *)
LEMMA PositionIsCell ==
    ASSUME NEW x \in 0 .. NCols - 1, NEW y \in 0 .. NRows - 1
    PROVE  y * NCols + x \in Cells /\ y * NCols \in Int
<1>1. NRows \in Nat /\ NCols \in Nat /\ y \in Int /\ x \in Int
  BY ScreenAssumption
<1>2. y + 1 \in 1 .. NRows /\ x + 1 \in 1 .. NCols
  BY <1>1
<1>3. ((y + 1) - 1) * NCols + (x + 1) - 1 \in Cells
  BY <1>2, CellOfRow
<1>4. (y + 1) - 1 = y /\ y * NCols \in Int
  BY <1>1, RowBelow
<1>5. y * NCols + (x + 1) - 1 = y * NCols + x
  BY <1>1, <1>4
<1> QED BY <1>3, <1>4, <1>5

(* putc() of a character writes it to the text, and leaves a full line.    *)
LEMMA PutWrites ==
    ASSUME NEW p \in [Cells -> Places], NEW x \in 0 .. NCols - 1, NEW y \in 0 .. NRows - 1,
           BlankFrom(p, x, y), NEW c \in Characters
    PROVE  LET s == PutChar([page |-> p, x |-> x, y |-> y], c)
           IN  /\ s.page \in [Cells -> Places] /\ BlankFrom(s.page, s.x, s.y)
               /\ Rows(s.page, s.x, s.y) = Text!Written(Rows(p, x, y), c)
<1> DEFINE s == PutChar([page |-> p, x |-> x, y |-> y], c)
           text == Rows(p, x, y)
           at == y * NCols + x
           g == [p EXCEPT ![at] = c]
           line == Append(Text!Last(text), c)
           more == Append(Text!Front(text), line)
<1>1. /\ NRows \in Nat /\ NCols \in Nat /\ NCols > 0 /\ x \in Nat /\ y \in Nat
      /\ x \in 0 .. NCols /\ x + 1 \in 0 .. NCols /\ NCols \in 0 .. NCols /\ y + 1 \in 1 .. NRows
  BY ScreenAssumption
<1>2. at \in Cells /\ at \in Int /\ c \in Places /\ y * NCols \in Int
  BY <1>1, PositionIsCell DEF Places, Cells
<1>3. g \in [Cells -> Places] /\ g[at] = c /\ \A j \in Cells : j # at => g[j] = p[j]
  BY <1>2
<1>4. BlankFrom(g, x + 1, y)
  <2>1. ASSUME NEW j \in Cells, j >= y * NCols + (x + 1)
        PROVE  g[j] = Blank
    <3>1. j # at /\ j >= y * NCols + x
      <4> DEFINE z == y * NCols
      <4>1. z \in Int /\ j \in Int /\ j >= z + (x + 1)
        BY <1>2, <2>1 DEF Cells
      <4> HIDE DEF z
      <4>2. j # z + x /\ j >= z + x
        BY <1>1, <4>1
      <4> QED BY <4>2 DEF z
    <3> QED BY <1>3, <3>1 DEF BlankFrom
  <2> QED BY <2>1 DEF BlankFrom
<1>5. /\ text \in Seq(Seq(Places)) /\ Len(text) = y + 1
      /\ \A r \in 1 .. y : text[r] = Row(p, r, NCols)
      /\ text[y + 1] = Row(p, y + 1, x)
  BY <1>1, RowsAreText
<1>6. /\ Rows(g, x + 1, y) \in Seq(Seq(Places)) /\ Len(Rows(g, x + 1, y)) = y + 1
      /\ \A r \in 1 .. y : Rows(g, x + 1, y)[r] = Row(g, r, NCols)
      /\ Rows(g, x + 1, y)[y + 1] = Row(g, y + 1, x + 1)
  <2>1. g \in [Cells -> Places] /\ x + 1 \in 0 .. NCols
    BY <1>1, <1>3
  <2> HIDE DEF g
  <2> QED BY <2>1, RowsAreText
<1>7. /\ \A r \in 1 .. y : Row(p, r, NCols) = Row(g, r, NCols)
      /\ Row(p, y + 1, x) = Row(g, y + 1, x)
  <2>1. \A j \in Cells : j < y * NCols + x => p[j] = g[j]
    BY <1>2, <1>3 DEF Cells
  <2> HIDE DEF g
  <2> QED BY <1>1, <2>1, EarlierRows
<1> HIDE DEF g, text
<1>8. text # <<>> /\ Text!Last(text) = Row(g, y + 1, x)
  <2>1. text # <<>>
    BY <1>1, <1>5
  <2> QED BY <1>5, <1>7, <2>1, FrontLast
<1>9. /\ line \in Seq(Places) /\ Len(line) = x + 1
      /\ line = Row(g, y + 1, x + 1)
  <2>1. /\ Row(g, y + 1, x) \in Seq(Places) /\ Len(Row(g, y + 1, x)) = x
        /\ \A k \in 1 .. x : Row(g, y + 1, x)[k] = g[((y + 1) - 1) * NCols + k - 1]
    BY <1>1, <1>3, RowIsLine
  <2>2. /\ Row(g, y + 1, x + 1) \in Seq(Places) /\ Len(Row(g, y + 1, x + 1)) = x + 1
        /\ \A k \in 1 .. x + 1 : Row(g, y + 1, x + 1)[k] = g[((y + 1) - 1) * NCols + k - 1]
    BY <1>1, <1>3, RowIsLine
  <2>3. /\ line \in Seq(Places) /\ Len(line) = x + 1 /\ line[x + 1] = c
        /\ \A k \in 1 .. x : line[k] = Row(g, y + 1, x)[k]
    BY <1>2, <1>8, <2>1, AppendProperties
  <2>4. x + 1 \in 1 .. x + 1 /\ ((y + 1) - 1) * NCols + (x + 1) - 1 = at
    <3>1. (y + 1) - 1 = y
      BY <1>1
    <3>2. y * NCols + (x + 1) - 1 = at
      BY <1>1, <1>2
    <3> QED BY <1>1, <3>1, <3>2
  <2>5. ASSUME NEW k \in 1 .. x + 1
        PROVE  line[k] = Row(g, y + 1, x + 1)[k]
    <3>1. CASE k = x + 1
      BY <1>3, <2>2, <2>3, <2>4, <3>1
    <3>2. CASE k # x + 1
      <4>1. k \in 1 .. x
        BY <1>1, <3>2
      <4> QED BY <2>1, <2>2, <2>3, <4>1
    <3> QED BY <3>1, <3>2
  <2> HIDE DEF line
  <2>6. line = Row(g, y + 1, x + 1)
    BY <2>2, <2>3, <2>5, SeqEqual
  <2> QED BY <2>3, <2>6
<1>10. more = Rows(g, x + 1, y)
  <2> HIDE DEF line
  <2>1. /\ Text!Front(text) \in Seq(Seq(Places)) /\ Len(Text!Front(text)) = y
        /\ \A r \in 1 .. y : Text!Front(text)[r] = text[r]
    <3>1. y = (y + 1) - 1
      BY <1>1
    <3> QED BY <1>5, <1>8, <3>1, FrontLast
  <2>2. /\ more \in Seq(Seq(Places)) /\ Len(more) = y + 1 /\ more[y + 1] = line
        /\ \A r \in 1 .. y : more[r] = Text!Front(text)[r]
    BY <1>9, <2>1, AppendProperties
  <2>3. ASSUME NEW r \in 1 .. y + 1
        PROVE  more[r] = Rows(g, x + 1, y)[r]
    <3>1. CASE r = y + 1
      BY <1>6, <1>9, <2>2, <3>1
    <3>2. CASE r # y + 1
      <4>1. r \in 1 .. y
        BY <1>1, <3>2
      <4> QED BY <1>5, <1>6, <1>7, <2>1, <2>2, <4>1
    <3> QED BY <3>1, <3>2
  <2> HIDE DEF more
  <2> QED BY <1>6, <2>2, <2>3, SameText
<1>11. Text!Written(text, c) = IF Len(line) = NCols THEN Text!Broken(more) ELSE more
  BY DEF Text!Written
<1> DEFINE put == [page |-> g, x |-> x + 1, y |-> y]
           wrapped == IF x + 1 = NCols THEN NewLine(put) ELSE put
<1>12. s.page = wrapped.page /\ s.x = wrapped.x % NCols /\ s.y = wrapped.y % NRows
  BY DEF PutChar, NewLine, Scrolled, g
<1> HIDE DEF line, more, s
<1>13. CASE x + 1 = NCols
  <2>1. /\ wrapped.page \in [Cells -> Places] /\ wrapped.y \in 0 .. NRows - 1
        /\ BlankFrom(wrapped.page, 0, wrapped.y)
        /\ Rows(wrapped.page, 0, wrapped.y) = Text!Broken(Rows(g, x + 1, y))
    BY <1>1, <1>3, <1>4, <1>13, FeedBreaks
  <2>2. wrapped.x = NCols
    BY <1>13 DEF NewLine, Scrolled
  <2> HIDE DEF wrapped
  <2>3. s.x = 0 /\ s.y = wrapped.y
    BY <1>1, <1>12, <2>1, <2>2
  <2> QED BY <1>9, <1>10, <1>11, <1>12, <1>13, <2>1, <2>3 DEF text, s
<1>14. CASE x + 1 # NCols
  <2>1. s.page = g /\ s.x = x + 1 /\ s.y = y
    BY <1>1, <1>12, <1>14
  <2>2. Text!Written(text, c) = more
    BY <1>9, <1>11, <1>14
  <2> QED BY <1>3, <1>4, <1>10, <2>1, <2>2 DEF text, s
<1> QED BY <1>13, <1>14

(* A row without its last place.                                           *)
LEMMA ShorterRow ==
    ASSUME NEW p \in [Cells -> Places], NEW r \in 1 .. NRows, NEW n \in 1 .. NCols
    PROVE  Row(p, r, n) # <<>> /\ Text!Front(Row(p, r, n)) = Row(p, r, n - 1)
<1>1. n \in 0 .. NCols /\ n - 1 \in 0 .. NCols /\ n \in Int /\ n > 0
  BY ScreenAssumption
<1>2. /\ Row(p, r, n) \in Seq(Places) /\ Len(Row(p, r, n)) = n
      /\ \A k \in 1 .. n : Row(p, r, n)[k] = p[(r - 1) * NCols + k - 1]
  BY <1>1, RowIsLine
<1>3. /\ Row(p, r, n - 1) \in Seq(Places) /\ Len(Row(p, r, n - 1)) = n - 1
      /\ \A k \in 1 .. n - 1 : Row(p, r, n - 1)[k] = p[(r - 1) * NCols + k - 1]
  BY <1>1, RowIsLine
<1>4. Row(p, r, n) # <<>>
  BY <1>1, <1>2
<1>5. /\ Text!Front(Row(p, r, n)) \in Seq(Places) /\ Len(Text!Front(Row(p, r, n))) = n - 1
      /\ \A k \in 1 .. n - 1 : Text!Front(Row(p, r, n))[k] = Row(p, r, n)[k]
  BY <1>2, <1>4, FrontLast
<1>6. \A k \in 1 .. n - 1 : k \in 1 .. n
  BY <1>1
<1>7. \A k \in 1 .. n - 1 : Text!Front(Row(p, r, n))[k] = Row(p, r, n - 1)[k]
  BY <1>2, <1>3, <1>5, <1>6
<1>8. Text!Front(Row(p, r, n)) = Row(p, r, n - 1)
  BY <1>3, <1>5, <1>7, SeqEqual
<1> QED BY <1>4, <1>8

(* A page without its last line, or without the last place of that line.   *)
LEMMA FrontOfRows ==
    ASSUME NEW p \in [Cells -> Places], NEW x \in 0 .. NCols, NEW y \in 0 .. NRows - 1
    PROVE  LET text == Rows(p, x, y)
           IN  /\ text # <<>> /\ Text!Last(text) = Row(p, y + 1, x)
               /\ y > 0 => Text!Front(text) = Rows(p, NCols, y - 1)
               /\ x > 0 => Append(Text!Front(text), Text!Front(Text!Last(text))) = Rows(p, x - 1, y)
<1> DEFINE text == Rows(p, x, y)
           front == Text!Front(text)
<1>1. /\ NRows \in Nat /\ NCols \in Nat /\ x \in Nat /\ y \in Nat /\ y + 1 \in 1 .. NRows
      /\ NCols \in 0 .. NCols
  BY ScreenAssumption
<1>2. /\ text \in Seq(Seq(Places)) /\ Len(text) = y + 1
      /\ \A r \in 1 .. y : text[r] = Row(p, r, NCols)
      /\ text[y + 1] = Row(p, y + 1, x)
  BY RowsAreText
<1>3. text # <<>>
  BY <1>1, <1>2
<1> HIDE DEF text
<1>4. Text!Last(text) = Row(p, y + 1, x)
  BY <1>2, <1>3, FrontLast
<1>5. /\ front \in Seq(Seq(Places)) /\ Len(front) = y
      /\ \A r \in 1 .. y : front[r] = Row(p, r, NCols)
  <2>1. y = (y + 1) - 1
    BY <1>1
  <2>2. /\ front \in Seq(Seq(Places)) /\ Len(front) = y
        /\ \A r \in 1 .. y : front[r] = text[r]
    BY <1>2, <1>3, <2>1, FrontLast
  <2> QED BY <1>2, <2>2
<1> HIDE DEF front
<1>6. ASSUME y > 0
      PROVE  front = Rows(p, NCols, y - 1)
  <2>1. y - 1 \in 0 .. NRows - 1 /\ (y - 1) + 1 = y
    BY <1>1, <1>6
  <2>2. /\ Rows(p, NCols, y - 1) \in Seq(Seq(Places)) /\ Len(Rows(p, NCols, y - 1)) = y
        /\ \A r \in 1 .. y - 1 : Rows(p, NCols, y - 1)[r] = Row(p, r, NCols)
        /\ Rows(p, NCols, y - 1)[y] = Row(p, y, NCols)
    <3>1. /\ Rows(p, NCols, y - 1) \in Seq(Seq(Places)) /\ Len(Rows(p, NCols, y - 1)) = (y - 1) + 1
          /\ \A r \in 1 .. y - 1 : Rows(p, NCols, y - 1)[r] = Row(p, r, NCols)
          /\ Rows(p, NCols, y - 1)[(y - 1) + 1] = Row(p, (y - 1) + 1, NCols)
      BY <1>1, <2>1, RowsAreText
    <3> QED BY <2>1, <3>1
  <2>3. ASSUME NEW r \in 1 .. y
        PROVE  front[r] = Rows(p, NCols, y - 1)[r]
    <3>1. CASE r = y
      BY <1>5, <2>2, <3>1
    <3>2. CASE r # y
      <4>1. r \in 1 .. y - 1
        BY <1>1, <3>2
      <4> QED BY <1>5, <2>2, <4>1
    <3> QED BY <3>1, <3>2
  <2> QED BY <1>5, <2>2, <2>3, SameText
<1>7. ASSUME x > 0
      PROVE  Append(front, Text!Front(Text!Last(text))) = Rows(p, x - 1, y)
  <2>1. x \in 1 .. NCols /\ x - 1 \in 0 .. NCols
    BY <1>1, <1>7
  <2>2. Text!Front(Text!Last(text)) = Row(p, y + 1, x - 1) /\ Row(p, y + 1, x - 1) \in Seq(Places)
    BY <1>1, <1>4, <2>1, ShorterRow, RowIsLine
  <2> DEFINE more == Append(front, Row(p, y + 1, x - 1))
  <2>3. /\ more \in Seq(Seq(Places)) /\ Len(more) = y + 1
        /\ more[y + 1] = Row(p, y + 1, x - 1)
        /\ \A r \in 1 .. y : more[r] = front[r]
    BY <1>5, <2>2, AppendProperties
  <2> HIDE DEF more
  <2>4. /\ Rows(p, x - 1, y) \in Seq(Seq(Places)) /\ Len(Rows(p, x - 1, y)) = y + 1
        /\ \A r \in 1 .. y : Rows(p, x - 1, y)[r] = Row(p, r, NCols)
        /\ Rows(p, x - 1, y)[y + 1] = Row(p, y + 1, x - 1)
    BY <2>1, RowsAreText
  <2>5. ASSUME NEW r \in 1 .. y + 1
        PROVE  more[r] = Rows(p, x - 1, y)[r]
    <3>1. CASE r = y + 1
      BY <2>3, <2>4, <3>1
    <3>2. CASE r # y + 1
      <4>1. r \in 1 .. y
        BY <1>1, <3>2
      <4> QED BY <1>5, <2>3, <2>4, <4>1
    <3> QED BY <3>1, <3>2
  <2>6. more = Rows(p, x - 1, y)
    BY <2>3, <2>4, <2>5, SameText
  <2> QED BY <2>2, <2>6 DEF more
<1> QED BY <1>3, <1>4, <1>6, <1>7 DEF text, front

(* Pages that agree in front of a place show the same text up to it.       *)
LEMMA SameRows ==
    ASSUME NEW p \in [Cells -> Places], NEW q \in [Cells -> Places],
           NEW x \in 0 .. NCols, NEW y \in 0 .. NRows - 1,
           \A j \in Cells : j < y * NCols + x => p[j] = q[j]
    PROVE  Rows(p, x, y) = Rows(q, x, y)
<1>1. y \in Nat
  BY ScreenAssumption
<1>2. /\ \A r \in 1 .. y : Row(p, r, NCols) = Row(q, r, NCols)
      /\ Row(p, y + 1, x) = Row(q, y + 1, x)
  BY EarlierRows
<1>3. /\ Rows(p, x, y) \in Seq(Seq(Places)) /\ Len(Rows(p, x, y)) = y + 1
      /\ \A r \in 1 .. y : Rows(p, x, y)[r] = Row(p, r, NCols)
      /\ Rows(p, x, y)[y + 1] = Row(p, y + 1, x)
  BY RowsAreText
<1>4. /\ Rows(q, x, y) \in Seq(Seq(Places)) /\ Len(Rows(q, x, y)) = y + 1
      /\ \A r \in 1 .. y : Rows(q, x, y)[r] = Row(q, r, NCols)
      /\ Rows(q, x, y)[y + 1] = Row(q, y + 1, x)
  BY RowsAreText
<1>5. \A r \in 1 .. y + 1 : r = y + 1 \/ r \in 1 .. y
  BY <1>1
<1>6. \A r \in 1 .. y + 1 : Rows(p, x, y)[r] = Rows(q, x, y)[r]
  BY <1>2, <1>3, <1>4, <1>5
<1> QED BY <1>3, <1>4, <1>6, SameText

(* backspace() takes the last character off the text, on whichever line.   *)
LEMMA BackErases ==
    ASSUME NEW p \in [Cells -> Places], NEW x \in 0 .. NCols - 1, NEW y \in 0 .. NRows - 1,
           BlankFrom(p, x, y), x # 0 \/ y # 0
    PROVE  LET s == Back([page |-> p, x |-> x, y |-> y])
           IN  /\ s.page \in [Cells -> Places] /\ BlankFrom(s.page, s.x, s.y)
               /\ Rows(s.page, s.x, s.y) = Text!Erased(Rows(p, x, y))
<1> DEFINE s == Back([page |-> p, x |-> x, y |-> y])
           text == Rows(p, x, y)
           X == IF x = 0 THEN NCols - 1 ELSE x - 1
           Y == IF x = 0 THEN y - 1 ELSE y
           at == Y * NCols + X
           g == [j \in Cells |-> IF j = at THEN Blank ELSE p[j]]
<1>1. /\ NRows \in Nat /\ NCols \in Nat /\ NCols > 0 /\ x \in Nat /\ y \in Nat
      /\ x \in 0 .. NCols /\ NCols \in 0 .. NCols /\ y + 1 \in 1 .. NRows
  BY ScreenAssumption
<1>2. s.x = X /\ s.y = Y /\ s.page = g
  BY DEF Back
<1>3. X \in 0 .. NCols - 1 /\ Y \in 0 .. NRows - 1 /\ X \in 0 .. NCols
  BY <1>1
<1>4. at \in Cells /\ at \in Int
  <2> HIDE DEF X, Y
  <2> QED BY <1>1, <1>3, PositionIsCell DEF Cells
<1>5. at + 1 = y * NCols + x /\ y * NCols \in Int
  <2>1. (y - 1) * NCols = y * NCols - NCols /\ y * NCols \in Int
    BY <1>1, RowBelow
  <2>2. CASE x = 0
    BY <1>1, <2>1, <2>2
  <2>3. CASE x # 0
    BY <1>1, <2>1, <2>3
  <2> QED BY <2>2, <2>3
<1> HIDE DEF s, text, at
<1>6. g \in [Cells -> Places]
  BY DEF Places
<1>7. BlankFrom(g, X, Y)
  <2>1. ASSUME NEW j \in Cells, j >= at
        PROVE  g[j] = Blank
    <3>1. CASE j = at
      BY <3>1
    <3>2. CASE j # at
      <4>1. j >= y * NCols + x
        BY <1>1, <1>4, <1>5, <2>1, <3>2 DEF Cells
      <4> QED BY <3>2, <4>1 DEF BlankFrom
    <3> QED BY <3>1, <3>2
  <2> QED BY <2>1 DEF BlankFrom, at
<1>8. Rows(p, X, Y) = Rows(g, X, Y)
  <2>1. \A j \in Cells : j < Y * NCols + X => p[j] = g[j]
    BY <1>4 DEF at, Cells
  <2> HIDE DEF g, X, Y
  <2> QED BY <1>3, <1>6, <2>1, SameRows
<1>9. /\ text # <<>> /\ Text!Last(text) = Row(p, y + 1, x)
      /\ y > 0 => Text!Front(text) = Rows(p, NCols, y - 1)
      /\ x > 0 => Append(Text!Front(text), Text!Front(Text!Last(text))) = Rows(p, x - 1, y)
  BY <1>1, FrontOfRows DEF text
<1>10. Text!Erased(text) = Rows(p, X, Y)
  <2>1. CASE x # 0
    <3>1. x \in 1 .. NCols /\ x > 0
      BY <1>1, <2>1
    <3>2. Text!Last(text) # <<>>
      BY <1>1, <1>9, <3>1, ShorterRow
    <3> QED BY <1>9, <2>1, <3>1, <3>2 DEF Text!Erased
  <2>2. CASE x = 0
    <3>1. y > 0 /\ y - 1 \in 0 .. NRows - 1
      BY <1>1, <2>2
    <3>2. Text!Last(text) = <<>>
      BY <1>9, <2>2 DEF Row
    <3>3. Append(Text!Front(Rows(p, NCols, y - 1)),
                 Text!Front(Text!Last(Rows(p, NCols, y - 1)))) = Rows(p, NCols - 1, y - 1)
      BY <1>1, <3>1, FrontOfRows
    <3> QED BY <1>9, <2>2, <3>1, <3>2, <3>3 DEF Text!Erased
  <2> QED BY <2>1, <2>2
<1> HIDE DEF g, X, Y
<1> QED BY <1>2, <1>6, <1>7, <1>8, <1>10 DEF s, text

(* A text whose first character is blanked, if it has one.                 *)
Wiped(text) == IF text[1] = <<>> THEN text ELSE [text EXCEPT ![1][1] = Blank]

(* Wiping the first place of a page that shows something blanks the first  *)
(* character of its text.                                                  *)
LEMMA WipeBlanks ==
    ASSUME NEW p \in [Cells -> Places], NEW x \in 0 .. NCols - 1, NEW y \in 0 .. NRows - 1,
           BlankFrom(p, x, y)
    PROVE  LET g == [p EXCEPT ![0] = Blank]
           IN  /\ g \in [Cells -> Places] /\ BlankFrom(g, x, y)
               /\ Rows(g, x, y) = Wiped(Rows(p, x, y))
<1> DEFINE g == [p EXCEPT ![0] = Blank]
           text == Rows(p, x, y)
           first == [text[1] EXCEPT ![1] = Blank]
<1>1. /\ NRows \in Nat /\ NCols \in Nat /\ NCols > 0 /\ x \in Nat /\ y \in Nat /\ y * NCols \in Nat
      /\ x \in 0 .. NCols /\ y + 1 \in 1 .. NRows /\ NCols \in 0 .. NCols /\ 1 \in 1 .. NRows
  BY ScreenAssumption
<1>2. 0 \in Cells /\ Blank \in Places
  <2>1. 1 \in 1 .. NCols /\ (1 - 1) * NCols + 1 - 1 = 0
    BY <1>1
  <2> QED BY <1>1, <2>1, CellOfRow DEF Places
<1>3. /\ g \in [Cells -> Places] /\ g[0] = Blank /\ \A j \in Cells : j # 0 => g[j] = p[j]
  BY <1>2
<1>4. BlankFrom(g, x, y)
  BY <1>3 DEF BlankFrom
<1>5. /\ text \in Seq(Seq(Places)) /\ Len(text) = y + 1
      /\ \A r \in 1 .. y : text[r] = Row(p, r, NCols)
      /\ text[y + 1] = Row(p, y + 1, x)
  BY <1>1, RowsAreText
<1>6. /\ Rows(g, x, y) \in Seq(Seq(Places)) /\ Len(Rows(g, x, y)) = y + 1
      /\ \A r \in 1 .. y : Rows(g, x, y)[r] = Row(g, r, NCols)
      /\ Rows(g, x, y)[y + 1] = Row(g, y + 1, x)
  <2>1. g \in [Cells -> Places]
    BY <1>3
  <2> HIDE DEF g
  <2> QED BY <1>1, <2>1, RowsAreText
<1> HIDE DEF g, text
<1>7. CASE x = 0 /\ y = 0
  <2>1. text[1] = <<>>
    BY <1>5, <1>7 DEF Row
  <2>2. \A j \in Cells : j < y * NCols + x => p[j] = g[j]
    BY <1>1, <1>7 DEF Cells
  <2>3. Rows(g, x, y) = text
    BY <1>1, <1>3, <2>2, SameRows DEF text
  <2> QED BY <1>3, <1>4, <2>1, <2>3 DEF g, text, Wiped
<1>8. CASE x # 0 \/ y # 0
  <2> DEFINE n == IF y = 0 THEN x ELSE NCols
  <2>1. n \in 1 .. NCols /\ n \in 0 .. NCols /\ n \in Nat /\ 1 \in 1 .. n /\ 1 \in 1 .. y + 1
    BY <1>1, <1>8
  <2>2. text[1] = Row(p, 1, n) /\ Rows(g, x, y)[1] = Row(g, 1, n)
    BY <1>1, <1>5, <1>6
  <2> HIDE DEF n
  <2>3. /\ Row(p, 1, n) \in Seq(Places) /\ Len(Row(p, 1, n)) = n
        /\ \A k \in 1 .. n : Row(p, 1, n)[k] = p[(1 - 1) * NCols + k - 1]
    BY <1>1, <2>1, RowIsLine
  <2>4. /\ Row(g, 1, n) \in Seq(Places) /\ Len(Row(g, 1, n)) = n
        /\ \A k \in 1 .. n : Row(g, 1, n)[k] = g[(1 - 1) * NCols + k - 1]
    BY <1>1, <1>3, <2>1, RowIsLine
  <2>5. /\ first \in Seq(Places) /\ Len(first) = n
        /\ \A k \in 1 .. n : first[k] = IF k = 1 THEN Blank ELSE text[1][k]
    BY <1>2, <2>1, <2>2, <2>3, ExceptSeq
  <2> HIDE DEF first
  <2>6. first = Row(g, 1, n)
    <3>1. ASSUME NEW k \in 1 .. n
          PROVE  first[k] = Row(g, 1, n)[k]
      <4>1. (1 - 1) * NCols + k - 1 = k - 1 /\ k \in 1 .. NCols
        BY <1>1, <2>1
      <4>2. k - 1 \in Cells
        BY <1>1, <4>1, CellOfRow
      <4>3. CASE k = 1
        BY <1>3, <2>4, <2>5, <4>1, <4>3
      <4>4. CASE k # 1
        <5>1. k - 1 # 0
          BY <2>1, <4>4
        <5>2. first[k] = p[k - 1]
          BY <2>2, <2>3, <2>5, <4>1, <4>4
        <5>3. Row(g, 1, n)[k] = g[k - 1]
          BY <2>4, <4>1
        <5> QED BY <1>3, <4>2, <5>1, <5>2, <5>3
      <4> QED BY <4>3, <4>4
    <3> QED BY <2>4, <2>5, <3>1, SeqEqual
  <2>7. /\ [text EXCEPT ![1] = first] \in Seq(Seq(Places))
        /\ Len([text EXCEPT ![1] = first]) = y + 1
        /\ \A r \in 1 .. y + 1 :
             [text EXCEPT ![1] = first][r] = IF r = 1 THEN first ELSE text[r]
    BY <1>5, <2>1, <2>5, ExceptSeq
  <2>8. ASSUME NEW r \in 1 .. y + 1
        PROVE  [text EXCEPT ![1] = first][r] = Rows(g, x, y)[r]
    <3>1. CASE r = 1
      BY <2>2, <2>6, <2>7, <3>1
    <3>2. CASE r # 1
      <4>1. ASSUME NEW m \in 1 .. NRows, NEW l \in 0 .. NCols, m # 1
            PROVE  Row(p, m, l) = Row(g, m, l)
        <5>1. ASSUME NEW k \in 1 .. l
              PROVE  p[(m - 1) * NCols + k - 1] = g[(m - 1) * NCols + k - 1]
          <6>1. k \in 1 .. NCols /\ m - 1 \in Nat /\ m - 1 >= 1
            BY <1>1, <4>1
          <6>2. (m - 1) * NCols >= 1 * NCols /\ (m - 1) * NCols \in Int
            BY <1>1, <6>1, RowOrder, RowBelow
          <6>3. (m - 1) * NCols + k - 1 # 0
            BY <1>1, <6>1, <6>2
          <6> QED BY <1>3, <4>1, <6>1, <6>3, CellOfRow
        <5> QED BY <5>1 DEF Row
      <4>2. CASE r = y + 1
        BY <1>1, <1>5, <1>6, <2>7, <3>2, <4>1, <4>2
      <4>3. CASE r # y + 1
        <5>1. r \in 1 .. y /\ r \in 1 .. NRows
          BY <1>1, <4>3
        <5> QED BY <1>1, <1>5, <1>6, <2>7, <3>2, <4>1, <5>1
      <4> QED BY <4>2, <4>3
    <3> QED BY <3>1, <3>2
  <2>9. [text EXCEPT ![1] = first] = Rows(g, x, y)
    BY <1>6, <2>7, <2>8, SameText
  <2>10. [text EXCEPT ![1][1] = Blank] = [text EXCEPT ![1] = first]
    BY DEF first
  <2>11. text[1] # <<>>
    BY <2>1, <2>2, <2>3
  <2>12. Rows(g, x, y) = Wiped(text)
    BY <2>9, <2>10, <2>11 DEF Wiped
  <2> QED BY <1>3, <1>4, <2>12 DEF g, text
<1> QED BY <1>1, <1>7, <1>8

(* A cleared page shows one line, with nothing on it.                      *)
LEMMA ClearRows ==
    /\ BlankPage \in [Cells -> Places] /\ BlankFrom(BlankPage, 0, 0)
    /\ Rows(BlankPage, 0, 0) = << <<>> >>
<1>1. BlankPage \in [Cells -> Places] /\ BlankFrom(BlankPage, 0, 0)
  BY DEF BlankPage, BlankFrom, Places
<1>2. 0 \in 0 .. NCols /\ 0 \in 0 .. NRows - 1
  BY ScreenAssumption
<1>3. /\ Rows(BlankPage, 0, 0) \in Seq(Seq(Places)) /\ Len(Rows(BlankPage, 0, 0)) = 0 + 1
      /\ Rows(BlankPage, 0, 0)[0 + 1] = Row(BlankPage, 0 + 1, 0)
  BY <1>1, <1>2, RowsAreText
<1>4. Row(BlankPage, 0 + 1, 0) = <<>>
  BY DEF Row
<1>5. << <<>> >> \in Seq(Seq(Places)) /\ Len(<< <<>> >>) = 1 /\ << <<>> >>[1] = <<>>
  OBVIOUS
<1>6. Rows(BlankPage, 0, 0) = << <<>> >>
  <2>1. 0 + 1 = 1 /\ \A r \in 1 .. 1 : r = 1
    OBVIOUS
  <2>2. \A r \in 1 .. 1 : Rows(BlankPage, 0, 0)[r] = << <<>> >>[r]
    BY <1>3, <1>4, <1>5, <2>1
  <2> QED BY <1>3, <1>5, <2>1, <2>2, SameText
<1> QED BY <1>1, <1>6

-----------------------------------------------------------------------------
(* The refinement *)

(* Beyond its position a page is blank, whatever was erased or scrolled.   *)
TextInv ==
    /\ SInv
    /\ page \in [Terminals -> [Cells -> Places]]
    /\ \A t \in Terminals : BlankFrom(page[t], screen_x[t], screen_y[t])

(* The lines of each terminal are those of its page.                       *)
LEMMA ShownIsRows ==
    Shown = [t \in Terminals |-> Rows(page[t], screen_x[t], screen_y[t])]
BY DEF Shown, Rows

(* What TextInv says of one terminal.                                      *)
LEMMA PageOfTerminal ==
    ASSUME TextInv, NEW t \in Terminals
    PROVE  /\ page[t] \in [Cells -> Places]
           /\ screen_x[t] \in 0 .. NCols - 1 /\ screen_x[t] \in 0 .. NCols
           /\ screen_y[t] \in 0 .. NRows - 1
           /\ BlankFrom(page[t], screen_x[t], screen_y[t])
           /\ Shown[t] = Rows(page[t], screen_x[t], screen_y[t])
<1>1. /\ page[t] \in [Cells -> Places]
      /\ screen_x[t] \in 0 .. NCols - 1 /\ screen_y[t] \in 0 .. NRows - 1
      /\ BlankFrom(page[t], screen_x[t], screen_y[t])
  BY DEF TextInv, SInv, PositionOnPage
<1>2. screen_x[t] \in 0 .. NCols
  BY <1>1, ScreenAssumption
<1> QED BY <1>1, <1>2, ShownIsRows

(* A terminal's screen is written: its lines, and no others, change.       *)
LEMMA ShownWritten ==
    ASSUME TextInv, NEW t \in Terminals, NEW s, SetScreen(t, s),
           s.page \in [Cells -> Places], BlankFrom(s.page, s.x, s.y), SInv'
    PROVE  TextInv' /\ Shown' = [Shown EXCEPT ![t] = Rows(s.page, s.x, s.y)]
<1>1. /\ page' = [page EXCEPT ![t] = s.page]
      /\ screen_x' = [screen_x EXCEPT ![t] = s.x]
      /\ screen_y' = [screen_y EXCEPT ![t] = s.y]
      /\ page \in [Terminals -> [Cells -> Places]]
      /\ screen_x \in [Terminals -> Int] /\ screen_y \in [Terminals -> Int]
  BY DEF SetScreen, TextInv, SInv, ScreenType
<1>2. ASSUME NEW u \in Terminals
      PROVE  /\ u = t => page'[u] = s.page /\ screen_x'[u] = s.x /\ screen_y'[u] = s.y
             /\ u # t => /\ page'[u] = page[u]
                         /\ screen_x'[u] = screen_x[u] /\ screen_y'[u] = screen_y[u]
  BY <1>1
<1>3. page' \in [Terminals -> [Cells -> Places]]
  BY <1>1
<1>4. \A u \in Terminals : BlankFrom(page'[u], screen_x'[u], screen_y'[u])
  BY <1>2, PageOfTerminal
<1>5. TextInv'
  BY <1>3, <1>4 DEF TextInv
<1>6. Shown' = [u \in Terminals |-> Rows(page'[u], screen_x'[u], screen_y'[u])]
  BY DEF Shown, Rows
<1>7. \A u \in Terminals :
        Rows(page'[u], screen_x'[u], screen_y'[u]) =
          IF u = t THEN Rows(s.page, s.x, s.y) ELSE Shown[u]
  BY <1>2, PageOfTerminal
<1>8. Shown = [u \in Terminals |-> Shown[u]]
  BY ShownIsRows
<1> QED BY <1>5, <1>6, <1>7, <1>8

(* A byte written, and a character typed, are written to the text, or      *)
(* break its line; the step of the screen keeps TextInv.                   *)
LEMMA PutImplements ==
    ASSUME TextInv, SInv', NEW t \in Terminals,
           \/ SetScreen(t, PutFeed(Of(t)))
           \/ \E c \in Characters : SetScreen(t, PutChar(Of(t), c))
    PROVE  TextInv' /\ Text!Next
<1> DEFINE p == page[t]
           x == screen_x[t]
           y == screen_y[t]
<1>1. /\ p \in [Cells -> Places] /\ x \in 0 .. NCols - 1 /\ x \in 0 .. NCols
      /\ y \in 0 .. NRows - 1 /\ BlankFrom(p, x, y) /\ Shown[t] = Rows(p, x, y)
  BY PageOfTerminal
<1>2. Of(t) = [page |-> p, x |-> x, y |-> y]
  BY DEF Of
<1> HIDE DEF p, x, y
<1>3. CASE SetScreen(t, PutFeed(Of(t)))
  <2> DEFINE w == NewLine([page |-> p, x |-> x, y |-> y])
             s == PutFeed([page |-> p, x |-> x, y |-> y])
  <2>1. s.page = w.page /\ s.x = 0 /\ s.y = w.y
    BY DEF PutFeed, NewLine, Scrolled
  <2>2. /\ w.page \in [Cells -> Places] /\ w.y \in 0 .. NRows - 1
        /\ BlankFrom(w.page, 0, w.y)
        /\ Rows(w.page, 0, w.y) = Text!Broken(Rows(p, x, y))
    BY <1>1, FeedBreaks
  <2> HIDE DEF w
  <2>3. SetScreen(t, s)
    BY <1>2, <1>3
  <2> HIDE DEF s
  <2>4. TextInv' /\ Shown' = [Shown EXCEPT ![t] = Rows(s.page, s.x, s.y)]
    BY <2>1, <2>2, <2>3, ShownWritten
  <2>5. Text!Break(t)
    BY <1>1, <2>1, <2>2, <2>4 DEF Text!Break
  <2> QED BY <2>4, <2>5 DEF Text!Next
<1>4. ASSUME NEW c \in Characters, SetScreen(t, PutChar(Of(t), c))
      PROVE  TextInv' /\ Text!Next
  <2> DEFINE s == PutChar([page |-> p, x |-> x, y |-> y], c)
  <2>1. /\ s.page \in [Cells -> Places] /\ BlankFrom(s.page, s.x, s.y)
        /\ Rows(s.page, s.x, s.y) = Text!Written(Rows(p, x, y), c)
    BY <1>1, PutWrites
  <2>2. SetScreen(t, s)
    BY <1>2, <1>4
  <2> HIDE DEF s
  <2>3. TextInv' /\ Shown' = [Shown EXCEPT ![t] = Rows(s.page, s.x, s.y)]
    BY <2>1, <2>2, ShownWritten
  <2>4. Text!Write(t)
    BY <1>1, <2>1, <2>3 DEF Text!Write
  <2> QED BY <2>3, <2>4 DEF Text!Next
<1> QED BY <1>3, <1>4

(* Backspace erases: what was typed is in front of the position, so that   *)
(* there is a character to take off the text.                              *)
LEMMA BackspaceImplements ==
    ASSUME TextInv, SInv', Backspace
    PROVE  TextInv' /\ Text!Next
<1> DEFINE t == terminal_id
           p == page[t]
           x == screen_x[t]
           y == screen_y[t]
           s == Back([page |-> p, x |-> x, y |-> y])
<1>1. t \in Terminals
  BY DEF TextInv, SInv, ScreenType
<1>2. /\ p \in [Cells -> Places] /\ x \in 0 .. NCols - 1 /\ x \in 0 .. NCols
      /\ y \in 0 .. NRows - 1 /\ BlankFrom(p, x, y) /\ Shown[t] = Rows(p, x, y)
  BY <1>1, PageOfTerminal
<1>3. x # 0 \/ y # 0
  <2>1. y * NCols + x >= key_buff_size[t] /\ key_buff_size[t] > 0
    BY <1>1 DEF TextInv, SInv, PositionOnPage, Backspace
  <2>2. 0 * NCols + 0 = 0
    BY ScreenAssumption
  <2>3. key_buff_size[t] \in Int
    BY <1>1 DEF TextInv, SInv, ScreenType
  <2> QED BY <2>1, <2>2, <2>3
<1>4. SetScreen(t, s)
  BY DEF Backspace, Of
<1> HIDE DEF t, p, x, y
<1>5. /\ s.page \in [Cells -> Places] /\ BlankFrom(s.page, s.x, s.y)
      /\ Rows(s.page, s.x, s.y) = Text!Erased(Rows(p, x, y))
  BY <1>2, <1>3, BackErases
<1> HIDE DEF s
<1>6. TextInv' /\ Shown' = [Shown EXCEPT ![t] = Rows(s.page, s.x, s.y)]
  BY <1>1, <1>4, <1>5, ShownWritten
<1>7. Len(Shown[t]) > 1 \/ Shown[t] # << <<>> >>
  <2>1. Len(Rows(p, x, y)) = y + 1 /\ Rows(p, x, y)[y + 1] = Row(p, y + 1, x)
    BY <1>2, RowsAreText
  <2>2. CASE y # 0
    BY <1>2, <2>1, <2>2, ScreenAssumption
  <2>3. CASE y = 0
    <3>1. x \in 1 .. NCols /\ 1 \in 1 .. NRows
      BY <1>2, <1>3, <2>3, ScreenAssumption
    <3>2. Row(p, 1, x) # <<>>
      BY <1>2, <3>1, ShorterRow
    <3>3. Shown[t][1] # <<>>
      BY <1>2, <2>1, <2>3, <3>2
    <3> QED BY <3>3
  <2> QED BY <2>2, <2>3
<1>8. Text!Erase(t)
  BY <1>2, <1>5, <1>6, <1>7 DEF Text!Erase
<1> QED BY <1>1, <1>6, <1>8 DEF Text!Next

(* Ctrl-L clears the text of the terminal on the display.                  *)
LEMMA CtrlLImplements ==
    ASSUME TextInv, SInv', CtrlL
    PROVE  TextInv' /\ Text!Next
<1> DEFINE t == terminal_id
           s == [page |-> BlankPage, x |-> 0, y |-> 0]
<1>1. t \in Terminals
  BY DEF TextInv, SInv, ScreenType
<1>2. /\ s.page \in [Cells -> Places] /\ BlankFrom(s.page, s.x, s.y)
      /\ Rows(s.page, s.x, s.y) = << <<>> >>
  BY ClearRows
<1>3. SetScreen(t, s)
  BY DEF CtrlL
<1> HIDE DEF t, s
<1>4. TextInv' /\ Shown' = [Shown EXCEPT ![t] = Rows(s.page, s.x, s.y)]
  BY <1>1, <1>2, <1>3, ShownWritten
<1>5. Text!Clear(t)
  BY <1>2, <1>4 DEF Text!Clear
<1> QED BY <1>1, <1>4, <1>5 DEF Text!Next

(* switch_terminal() wipes the first place of the page it leaves.          *)
LEMMA SwitchImplements ==
    ASSUME TextInv, SInv', SwitchTerminal
    PROVE  TextInv' /\ Text!Next
<1> DEFINE t == terminal_id
           p == page[t]
           x == screen_x[t]
           y == screen_y[t]
           g == [p EXCEPT ![0] = Blank]
           s == [page |-> g, x |-> x, y |-> y]
<1>1. t \in Terminals
  BY DEF TextInv, SInv, ScreenType
<1>2. /\ p \in [Cells -> Places] /\ x \in 0 .. NCols - 1 /\ x \in 0 .. NCols
      /\ y \in 0 .. NRows - 1 /\ BlankFrom(p, x, y) /\ Shown[t] = Rows(p, x, y)
  BY <1>1, PageOfTerminal
<1>3. SetScreen(t, s)
  <2>1. page' = [page EXCEPT ![t] = g]
    BY DEF SwitchTerminal
  <2>2. /\ screen_x' = [screen_x EXCEPT ![t] = x]
        /\ screen_y' = [screen_y EXCEPT ![t] = y]
    BY <1>1 DEF SwitchTerminal, TextInv, SInv, ScreenType
  <2> QED BY <2>1, <2>2 DEF SetScreen
<1> HIDE DEF t, p, x, y
<1>4. /\ g \in [Cells -> Places] /\ BlankFrom(g, x, y)
      /\ Rows(g, x, y) = Wiped(Rows(p, x, y))
  BY <1>2, WipeBlanks
<1>5. s.page = g /\ s.x = x /\ s.y = y
  OBVIOUS
<1> HIDE DEF s, g
<1>6. TextInv' /\ Shown' = [Shown EXCEPT ![t] = Rows(g, x, y)]
  BY <1>1, <1>3, <1>4, <1>5, ShownWritten
<1>7. Text!Wipe(t)
  BY <1>2, <1>4, <1>6 DEF Text!Wipe, Wiped
<1> QED BY <1>1, <1>6, <1>7 DEF Text!Next

(* Every step of the screens is a step of the texts, or changes none.      *)
LEMMA StepImplements ==
    ASSUME TidyClear, TextInv, [Next]_vars
    PROVE  TextInv' /\ [Text!Next]_Shown
<1>1. SInv'
  BY NextSInv DEF TextInv
<1>2. terminal_id \in Terminals /\ current_terminal_id \in Terminals
  BY DEF TextInv, SInv, ScreenType
<1>3. CASE Write
  BY <1>1, <1>2, <1>3, PutImplements DEF Write
<1>4. CASE TypeChar
  BY <1>1, <1>2, <1>4, PutImplements DEF TypeChar
<1>5. CASE Enter
  BY <1>1, <1>2, <1>5, PutImplements DEF Enter
<1>6. CASE Backspace
  BY <1>1, <1>6, BackspaceImplements
<1>7. CASE CtrlL
  BY <1>1, <1>7, CtrlLImplements
<1>8. CASE SwitchTerminal
  BY <1>1, <1>8, SwitchImplements
<1>9. CASE Tick \/ UNCHANGED vars
  <2>1. UNCHANGED <<page, screen_x, screen_y>>
    BY <1>9 DEF Tick, vars
  <2>2. TextInv'
    BY <1>1, <2>1 DEF TextInv
  <2>3. Shown' = Shown
    BY <2>1 DEF Shown
  <2> QED BY <2>2, <2>3
<1> QED BY <1>3, <1>4, <1>5, <1>6, <1>7, <1>8, <1>9 DEF Next

(* The pages start as empty texts.                                         *)
LEMMA InitImplements == Init => TextInv /\ Text!Init
<1> SUFFICES ASSUME Init PROVE TextInv /\ Text!Init
  OBVIOUS
<1>1. TextInv
  BY InitSInv, ClearRows DEF Init, TextInv
<1>2. \A t \in Terminals : Rows(page[t], screen_x[t], screen_y[t]) = << <<>> >>
  BY ClearRows DEF Init
<1>3. Text!Init
  BY <1>2, ShownIsRows DEF Text!Init
<1> QED BY <1>1, <1>3

(* The refinement: for pages of any size and any number of terminals, what *)
(* a page shows is the last lines of its terminal's own text, whoever else *)
(* writes, scrolls, erases or switches in between.                         *)
THEOREM ImplementsTextSafe ==
    ASSUME TidyClear
    PROVE  Spec => ImplementsText
<1>1. Init => TextInv /\ Text!Init
  BY InitImplements
<1>2. TextInv /\ [Next]_vars => TextInv' /\ [Text!Next]_Shown
  BY StepImplements
<1>3. Spec => Text!Init /\ [][Text!Next]_Shown
  BY <1>1, <1>2, PTL DEF Spec
<1> QED BY <1>3 DEF ImplementsText, Text!Spec
=============================================================================
