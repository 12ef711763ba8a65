----------------------------- MODULE MCGame2048 -----------------------------
(***************************************************************************)
(* Boards for TLC: with both kinds of lines, and with one line of four.    *)
(***************************************************************************)
EXTENDS Game2048

AllSizes == {<<2, 2>>, <<2, 3>>, <<1, 4>>, <<4, 1>>}
LongSizes == {<<2, 3>>}
=============================================================================
