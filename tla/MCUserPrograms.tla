--------------------------- MODULE MCUserPrograms ---------------------------
(* The instance of UserPrograms that TLC checks. *)
EXTENDS UserPrograms

\* Names are compared on two characters; a third ends them.
Name(a, b) == [i \in 0 .. 2 |-> <<a, b, NUL>>[i + 1]]
MCDot == Name(".", NUL)
MCHelloO == Name("h", "o")
MCShel == Name("s", NUL)
MCEmpty == Name(NUL, NUL)

\* A name that fills its field, as fsdir/verylargetxtwithverylongname.txt does.
MCVery == [i \in 0 .. 2 |-> <<"v", "e", "r">>[i + 1]]

\* The directory itself, the shell, a text of two names, the clock, and a last
\* entry.
MCDirectory ==
    <<[name |-> MCDot, type |-> "dir", inode |-> 0],
      [name |-> Name("s", "h"), type |-> "file", inode |-> 1],
      [name |-> MCVery, type |-> "file", inode |-> 2],
      [name |-> Name("h", NUL), type |-> "file", inode |-> 2],
      [name |-> Name("r", NUL), type |-> "rtc", inode |-> 0],
      [name |-> Name("z", NUL), type |-> "file", inode |-> 1]>>

MCAnyDisk == [i \in 1 .. 2 |-> IF i = 1 THEN <<"E">> ELSE <<"x", "\n", "y">>]
MCDisks == {[MCAnyDisk EXCEPT ![2] = t] : t \in UNION {[1 .. n -> {"x", "y", "\n"}] : n \in 0 .. 5}}
MCArguments == {<<>>, <<"h">>, <<"v", "e">>, <<"z">>, <<"k">>, <<"x">>, <<"x", "y">>}
MCRequests ==
    {OpenOf(n) : n \in {MCDot, Name("h", NUL), Name("r", NUL), Name("k", NUL)}}
    \cup {CloseOf(fd) : fd \in {1, 2, 3}}
    \cup {[f |-> "read", fd |-> fd, nbytes |-> 2] : fd \in {1, 2, 3}}
    \cup {[f |-> "null"]}
MCLines == {Append(t, "\n") : t \in UNION {[1 .. n -> {"a", " "}] : n \in 0 .. 5}}
MCOldBuffers == [0 .. 6 -> {"a", NUL}]
=============================================================================
