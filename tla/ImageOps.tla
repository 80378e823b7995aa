------------------------------- MODULE ImageOps -------------------------------
(* Cells, pixels and filters of an image of size <<width, height>>.           *)
EXTENDS Integers

Cells(s) == (0 .. s[2] - 1) \X (0 .. s[1] - 1)
Pixels(s) == s[1] * s[2]

\* The n-th pixel of a loop over rows and columns.
Cell(s, n) == <<n \div s[1], n % s[1]>>

\* The pixel of a cell after grayscale.
GrayOf(c) == <<"gray", c>>

Inner(s) == {c \in Cells(s) : /\ 0 < c[1] /\ c[1] < s[2] - 1
                              /\ 0 < c[2] /\ c[2] < s[1] - 1}
Around(s, c) == {d \in Cells(s) : d[1] - c[1] \in -1 .. 1 /\ d[2] - c[2] \in -1 .. 1}

\* The Sobel operator on every pixel that is not on the frame, from a copy.
Sobel(s, image) == [c \in Cells(s) |->
                      IF c \in Inner(s) THEN <<"edge", {image[d] : d \in Around(s, c)}>>
                      ELSE image[c]]
=============================================================================
