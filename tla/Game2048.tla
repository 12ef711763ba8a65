------------------------------ MODULE Game2048 ------------------------------
(***************************************************************************)
(* The game of 2048 (game.c): the four moves, the new tile, and the test   *)
(* for the end.  The player asks for the rows and columns.  A turn is a    *)
(* key with its move, then the loop of rand_new_tile() one try at a time,  *)
(* then legal_move_check().                                                *)
(***************************************************************************)
EXTENDS Integers, Sequences, Functions

CONSTANT Sizes      \* pairs of rows and columns the player may ask for

ASSUME SizesAssumption == Sizes \subseteq (1 .. 9) \X (1 .. 9)

EMPTY == -1

VARIABLES
    rows, cols,
    cells,          \* the board: what get_cell() finds at a row and column
    score,
    index_random,   \* position in random_numbers, kept between calls
    pc              \* "first", "input", "tile", "check", "over" or "quit"

vars == <<rows, cols, cells, score, index_random, pc>>

Cells == (0 .. rows - 1) \X (0 .. cols - 1)

random_numbers == <<199, 123, 213, 333, 4123, 3213, 3332, 978, 404, 243>>

(* make_game() *)
Init ==
    /\ \E size \in Sizes : rows = size[1] /\ cols = size[2]
    /\ cells = [p \in Cells |-> EMPTY]
    /\ score = 0
    /\ index_random = 0
    /\ pc = "first"

-----------------------------------------------------------------------------
(* A definition whose name ends in _ and a defect is not used by the       *)
(* specification: it is what the next definition would be with that defect *)
(* in the code.                                                            *)

(* A line is the sequence of its tiles from the wall they slide to.  A     *)
(* move works on it in place, and keeps what it adds to the score and the  *)
(* flag moved.                                                             *)
Fresh(line) == [line |-> line, gain |-> 0, moved |-> FALSE]

(* A tile behind a gap takes one step. *)
Gap(line, k) == line[k] = EMPTY /\ line[k + 1] # EMPTY

Swapped(s, k) ==
    IF Gap(s.line, k)
    THEN [line |-> [s.line EXCEPT ![k] = s.line[k + 1], ![k + 1] = EMPTY],
          gain |-> s.gain, moved |-> TRUE]
    ELSE s

(* A pass of swaps moves a tile one step, or carries it along, as the      *)
(* order of the pass is.                                                   *)
Pass(s, order) ==
    LET after[i \in 0 .. Len(order)] ==
            IF i = 0 THEN s ELSE Swapped(after[i - 1], order[i])
    IN  after[Len(order)]

(* As many passes as a pass has steps. *)
Pack(s, order) ==
    LET after[p \in 0 .. Len(order)] ==
            IF p = 0 THEN s ELSE Pass(after[p - 1], order)
    IN  after[Len(order)]

Twins(line, k) == line[k] = line[k + 1] /\ line[k] # EMPTY

Doubled_Twice(s, k) ==
    IF Twins(s.line, k)
    THEN [line |-> [s.line EXCEPT ![k] = EMPTY, ![k + 1] = 2 * s.line[k]],
          gain |-> s.gain + 2 * s.line[k], moved |-> TRUE]
    ELSE s

Doubled_OldTile(s, k) ==
    IF Twins(s.line, k)
    THEN [line |-> [s.line EXCEPT ![k] = 2 * s.line[k], ![k + 1] = EMPTY],
          gain |-> s.gain + s.line[k], moved |-> TRUE]
    ELSE s

(* Equal neighbours become one tile, which adds itself to the score. *)
Doubled(s, k) ==
    IF Twins(s.line, k)
    THEN [line |-> [s.line EXCEPT ![k] = 2 * s.line[k], ![k + 1] = EMPTY],
          gain |-> s.gain + 2 * s.line[k], moved |-> TRUE]
    ELSE s

(* One pass of merges, from the wall on. *)
Merge(s) ==
    LET n == Len(s.line) - 1
        after[k \in 0 .. n] == IF k = 0 THEN s ELSE Doubled(after[k - 1], k)
    IN  after[n]

(* A move on one line: pack, merge, pack again.  The code packs again only *)
(* when something has moved, and finds nothing to pack otherwise.          *)
Slid(line, order) == Pack(Merge(Pack(Fresh(line), order)), order)

(* The lines of the board for a key: for each column or row the places of  *)
(* its cells, from the wall on.                                            *)
Lines(key) ==
    CASE key = "w" -> [c \in 1 .. cols |-> [r \in 1 .. rows |-> <<r - 1, c - 1>>]]
      [] key = "s" -> [c \in 1 .. cols |-> [r \in 1 .. rows |-> <<rows - r, c - 1>>]]
      [] key = "a" -> [r \in 1 .. rows |-> [c \in 1 .. cols |-> <<r - 1, c - 1>>]]
      [] key = "d" -> [r \in 1 .. rows |-> [c \in 1 .. cols |-> <<r - 1, cols - c>>]]

(* move_s and move_d run their passes from the far end of the line. *)
Order(key, n) == [k \in 1 .. n - 1 |-> IF key \in {"w", "a"} THEN k ELSE n - k]

TilesOf(board, line) == [k \in 1 .. Len(line) |-> board[line[k]]]

Slides(key, board) ==
    LET lines == Lines(key)
    IN  [j \in 1 .. Len(lines) |-> Slid(TilesOf(board, lines[j]), Order(key, Len(lines[j])))]

(* The board after move_w, move_a, move_s or move_d, what they add to the  *)
(* score, and what they return.                                            *)
Board(key, board) ==
    LET lines == Lines(key)
        slides == Slides(key, board)
    IN  [p \in Cells |->
            LET at == CHOOSE at \in (1 .. Len(lines)) \X (1 .. Len(lines[1])) : lines[at[1]][at[2]] = p
            IN  slides[at[1]].line[at[2]]]

Gain(key, board) ==
    LET slides == Slides(key, board) IN SumFunction([j \in DOMAIN slides |-> slides[j].gain])

Moved(key, board) ==
    LET slides == Slides(key, board) IN \E j \in DOMAIN slides : slides[j].moved

Keys == {"w", "a", "s", "d"}

(* legal_move_check(): a gap, or two equal neighbours. *)
LegalMove_RowsOnly(board) ==
    \/ \E p \in Cells : board[p] = EMPTY
    \/ \E r \in 0 .. rows - 1, c \in 0 .. cols - 2 : board[<<r, c>>] = board[<<r, c + 1>>]

LegalMove(board) ==
    \/ \E p \in Cells : board[p] = EMPTY
    \/ \E r \in 0 .. rows - 2, c \in 0 .. cols - 1 : board[<<r, c>>] = board[<<r + 1, c>>]
    \/ \E r \in 0 .. rows - 1, c \in 0 .. cols - 2 : board[<<r, c>>] = board[<<r, c + 1>>]

-----------------------------------------------------------------------------
(* process_turn() with w, a, s or d. *)
Turn(key) ==
    /\ pc = "input"
    /\ cells' = Board(key, cells)
    /\ score' = score + Gain(key, cells)
    /\ pc' = IF Moved(key, cells) THEN "tile" ELSE "check"
    /\ UNCHANGED <<rows, cols, index_random>>

(* Any other key. *)
BadKey ==
    /\ pc = "input"
    /\ pc' = "check"
    /\ UNCHANGED <<rows, cols, cells, score, index_random>>

(* q: destroy_game(). *)
Quit ==
    /\ pc = "input"
    /\ pc' = "quit"
    /\ UNCHANGED <<rows, cols, cells, score, index_random>>

(* What a new tile is, for a number of the list. *)
NewTile(num) == IF num % 20 <= 1 THEN 4 ELSE 2

(* The next cell rand_new_tile() tries. *)
NextIndex_ByTwo == (index_random + 2) % 10

NextIndex == (index_random + 1) % 10

(* One turn of the loop of rand_new_tile(). *)
TryTile ==
    LET num == random_numbers[NextIndex + 1]
        ind == num % (rows * cols)
        p == <<ind \div cols, ind % cols>>
    IN
    /\ pc \in {"first", "tile"}
    /\ index_random' = NextIndex
    /\ IF cells[p] = EMPTY
       THEN /\ cells' = [cells EXCEPT ![p] = NewTile(num)]
            /\ pc' = IF pc = "first" THEN "input" ELSE "check"
       ELSE UNCHANGED <<cells, pc>>
    /\ UNCHANGED <<rows, cols, score>>

(* The end of process_turn(). *)
Check ==
    /\ pc = "check"
    /\ pc' = IF LegalMove(cells) THEN "input" ELSE "over"
    /\ UNCHANGED <<rows, cols, cells, score, index_random>>

Next == (\E key \in Keys : Turn(key)) \/ BadKey \/ Quit \/ TryTile \/ Check

Spec == Init /\ [][Next]_vars

(* The program runs on: only its reads wait for the player. *)
FairSpec == Spec /\ WF_vars(TryTile \/ Check)

-----------------------------------------------------------------------------
(* The rules of the game: the tiles of a line close up, then the first two *)
(* equal neighbours from the wall merge, and so on behind them.            *)
Packed(line) ==
    LET first[k \in 0 .. Len(line)] ==     \* the tiles of the first k cells
            IF k = 0 THEN <<>>
            ELSE IF line[k] = EMPTY THEN first[k - 1]
            ELSE Append(first[k - 1], line[k])
    IN  first[Len(line)]

Merged(tiles) ==
    LET n == Len(tiles)
        last[k \in 0 .. n] ==              \* what becomes of the last k tiles
            IF k = 0 THEN <<>>
            ELSE LET tile == tiles[n - k + 1]
                 IN  IF k > 1 /\ tile = tiles[n - k + 2] THEN <<2 * tile>> \o last[k - 2]
                     ELSE <<tile>> \o last[k - 1]
    IN  last[n]

Ruled(line) ==
    LET merged == Merged(Packed(line))
    IN  merged \o [k \in 1 .. Len(line) - Len(merged) |-> EMPTY]

(* Each of the four keys plays by the rules on every line towards its own  *)
(* wall, whatever the passes and merges of its loops do on the way, and a  *)
(* new tile comes after it exactly when the board is another one.          *)
MovesByTheRules ==
    [][\A key \in Keys : Turn(key) =>
         /\ \A j \in 1 .. Len(Lines(key)) :
              TilesOf(cells', Lines(key)[j]) = Ruled(TilesOf(cells, Lines(key)[j]))
         /\ pc' = "tile" <=> cells' # cells]_vars

Exponents == 1 .. rows * cols + 1
Exponent(tile) == CHOOSE k \in Exponents : 2 ^ k = tile

(* Every tile is a power of two, and the score is the sum of all merges    *)
(* that built the tiles on the board, each from twos: no merge is counted  *)
(* twice or forgotten by any of the four moves.                            *)
ScoreIsBuiltFromTwos ==
    /\ \A p \in Cells : cells[p] # EMPTY => \E k \in Exponents : 2 ^ k = cells[p]
    /\ score = SumFunction([p \in Cells |-> IF cells[p] = EMPTY THEN 0
                                             ELSE (Exponent(cells[p]) - 1) * cells[p]])

(* legal_move_check() agrees with the moves: the game waits for a key only *)
(* when some key moves something, and is over only when none does.  (On a  *)
(* board of one cell the first tile is put without a check, and the game   *)
(* waits for a key although none moves it.)                                *)
OverMeansStuck ==
    /\ pc = "input" => \E key \in Keys : Board(key, cells) # cells
    /\ pc = "over" => \A key \in Keys : Board(key, cells) = cells

(* The loop of rand_new_tile() ends with a tile whenever its list names a  *)
(* cell that is empty, wherever in the list the last call left off.        *)
TileComes ==
    pc = "tile" /\ (\E i \in 1 .. 10 : LET ind == random_numbers[i] % (rows * cols)
                                      IN  cells[<<ind \div cols, ind % cols>>] = EMPTY)
        ~> pc = "check"

(* rand_new_tile() does "insert a new tile into a random empty cell"       *)
(* (game.c:323): after every move a tile comes.  On a board of five cells  *)
(* or more it need not, for the list does not name all of them.            *)
TileAlwaysComes == pc = "tile" ~> pc = "check"
=============================================================================
