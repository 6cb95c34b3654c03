---------------------------- MODULE MCFileServer ----------------------------
(* FileServer for TLC: bodies of zero, one and two bytes, and ranges that   *)
(* are inside the file, reach beyond it, are empty, and are upside down.    *)
EXTENDS FileServer

MCBody == {<<>>, <<1>>, <<2, 3>>}
MCRange == {NoRange, OddRange}
             \cup {[start |-> 0, end |-> 1], [start |-> 1, end |-> 3],
                   [start |-> 1, end |-> 1], [start |-> 1, end |-> 0]}
=============================================================================
