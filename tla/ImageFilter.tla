----------------------------- MODULE ImageFilter -----------------------------
(***************************************************************************)
(* What the pipelines of "Assignment 06" are to produce: the sequential    *)
(* program part1.cpp, T1 and then T3.  The output appears at most once and *)
(* is the edges of the gray image.                                         *)
(***************************************************************************)
EXTENDS ImageOps

VARIABLES size, output

NoFile == <<>>

Init == output = NoFile

T1(s) == [c \in Cells(s) |-> GrayOf(c)]

main ==
    /\ output = NoFile
    /\ output' = Sobel(size, T1(size))
    /\ UNCHANGED size

Spec == Init /\ [][main]_<<size, output>>
=============================================================================
