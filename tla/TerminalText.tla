---------------------------- MODULE TerminalText ----------------------------
(***************************************************************************)
(* What the screen of a terminal promises, without its memory: the last    *)
(* NRows lines of the text written to it.  A line that has been left is    *)
(* filled up with blanks.                                                  *)
(***************************************************************************)
EXTENDS Integers, Sequences, SequencesExt

CONSTANTS Terminals, NRows, NCols, Characters, Blank

VARIABLE lines    \* terminal -> its lines, the one being written last

Init == lines = [t \in Terminals |-> << <<>> >>]

Filled(line) == line \o [k \in 1 .. NCols - Len(line) |-> Blank]

(* The line is left for a new one, and the first is lost when it has to. *)
Broken(text) ==
    LET more == Append(Front(text) \o <<Filled(Last(text))>>, <<>>)
    IN  IF Len(more) > NRows THEN Tail(more) ELSE more

Written(text, c) ==
    LET line == Append(Last(text), c)
        more == Append(Front(text), line)
    IN  IF Len(line) = NCols THEN Broken(more) ELSE more

Erased(text) ==
    IF Last(text) # <<>> THEN Append(Front(text), Front(Last(text)))
    ELSE Append(Front(Front(text)), Front(Last(Front(text))))

Write(t) == \E c \in Characters : lines' = [lines EXCEPT ![t] = Written(@, c)]

Break(t) == lines' = [lines EXCEPT ![t] = Broken(@)]

Erase(t) ==
    /\ Len(lines[t]) > 1 \/ lines[t] # << <<>> >>
    /\ lines' = [lines EXCEPT ![t] = Erased(@)]

Clear(t) == lines' = [lines EXCEPT ![t] = << <<>> >>]

(* The first place of the screen is wiped when it is left. *)
Wipe(t) ==
    lines' = [lines EXCEPT ![t] = IF @[1] = <<>> THEN @ ELSE [@ EXCEPT ![1][1] = Blank]]

Next == \E t \in Terminals : Write(t) \/ Break(t) \/ Erase(t) \/ Clear(t) \/ Wipe(t)

Spec == Init /\ [][Next]_lines
=============================================================================
