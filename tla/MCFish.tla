------------------------------- MODULE MCFish -------------------------------
(* The instance of Fish that TLC checks. *)
EXTENDS Fish

Text(c, n) == UNION {[1 .. k -> {c, Blank, NL}] : k \in 0 .. n}
MCPictures0 == Text("a", 3)
MCPictures1 == Text("b", 2)

\* Two places on the screen and one just off it; a lit phase of no tick, and
\* one of the least signed number.
MCLocations == {1, 2}
MCRequests ==
    {[location |-> b[1], on_char |-> "I", off_char |-> "M", on_length |-> b[2], off_length |-> b[3]] :
        b \in {<<1, 0, 2>>, <<2, 4, 1>>, <<Cells, 1, 1>>}}
MCExtra == [location |-> Cells - 1, on_char |-> "I", off_char |-> "M", on_length |-> 3, off_length |-> 1]
\* The first place of the screen is one the service accepts.
MCZeroLocations == {0, 1}
MCZeroRequests == {[b EXCEPT !.location = IF @ = 1 THEN 0 ELSE 1] : b \in MCRequests}
=============================================================================
