----------------------------- MODULE ImageShared -----------------------------
(***************************************************************************)
(* The image pipelines of "Assignment 06" in which grayscale and edge      *)
(* detection work on one image at the same time: two threads with an       *)
(* atomic flag or a semaphore (part2_1a.cpp, part2_1b.cpp), or two         *)
(* processes with shared memory and a named semaphore (part2_2.cpp).       *)
(*                                                                         *)
(* A cell of the image is <<row, column>>.  Colours are abstracted to      *)
(* where they come from.  The shared memory, the position in it and the    *)
(* named semaphore outlive the processes; no run removes them.             *)
(*                                                                         *)
(* Abstracted: files and arithmetic of colours.  The size of the image is  *)
(* the same in every execution, and fork, shmget and shmat succeed.        *)
(***************************************************************************)
EXTENDS Integers, FiniteSets

CONSTANTS
    Width, Height,
    MaxRuns         \* how often part2_2 is executed

ASSUME SizeAssumption == Width \in Nat \ {0} /\ Height \in Nat \ {0}
ASSUME RunsAssumption == MaxRuns \in Nat \ {0}

VARIABLES
    program,        \* "threads" or "processes"
    pixels,         \* the image both work on
    tempPixels,     \* the copy that edge detection reads
    position,       \* <<column, row>> behind the last gray pixel
    lock,           \* 1: free
    gray,           \* the grayscale thread: where it is, and its next pixel
    edge,           \* the edge thread: the same
    runs,           \* how often the program has been started
    killed,         \* history: has an execution been killed?
    from            \* history: what the edge pixels have been computed from

vars == <<program, pixels, tempPixels, position, lock, gray, edge, runs, killed, from>>
memory == <<program, runs, killed>>

Cells == (0 .. Height - 1) \X (0 .. Width - 1)
Interior == {c \in Cells : /\ 0 < c[1] /\ c[1] < Height - 1
                           /\ 0 < c[2] /\ c[2] < Width - 1}

\* "blank" memory has never been written; "edgegray" is an edge pixel that was
\* turned gray afterwards.
Kinds == {"blank", "raw", "gray", "edge", "edgegray"}

\* The luminosity of a pixel, in all three colours.
Gray(k) == CASE k = "raw" -> "gray" [] k = "edge" -> "edgegray" [] OTHER -> k

Pixels == Cardinality(Cells)
EdgePixels == Cardinality(Interior)

\* The n-th pixel of the loops, row by row.
Cell(n) == <<n \div Width, n % Width>>
EdgeCell(n) == <<1 + (n \div (Width - 2)), 1 + (n % (Width - 2))>>
Neighbours(c) == {d \in Cells : /\ d[1] - c[1] \in -1 .. 1 /\ d[2] - c[2] \in -1 .. 1}

AllRaw == [c \in Cells |-> "raw"]

\* readPPM() of part2_2 fills the shared image except its first row and column.
readPPM(old) == [c \in Cells |-> IF c[1] > 0 /\ c[2] > 0 THEN "raw" ELSE old[c]]

NothingDetected == [c \in Interior |-> {}]

Init ==
    /\ program \in {"threads", "processes"}
    /\ pixels = IF program = "threads" THEN AllRaw ELSE readPPM([c \in Cells |-> "blank"])
    /\ tempPixels = AllRaw
    /\ position = <<0, 0>> /\ lock = 1
    /\ gray = [pc |-> "wait", n |-> 0]
    /\ edge = [pc |-> IF program = "threads" THEN "copy" ELSE "wait", n |-> 0]
    /\ runs = 1 /\ killed = FALSE
    /\ from = NothingDetected

-----------------------------------------------------------------------------
(* Grayscale: GrayScale, T1 *)

GrayLock ==
    /\ gray.pc = "wait" /\ gray.n < Pixels /\ lock = 1
    /\ lock' = 0
    /\ gray' = [gray EXCEPT !.pc = "convert"]
    /\ UNCHANGED <<memory, pixels, tempPixels, position, edge, from>>

GrayPixel ==
    /\ gray.pc = "convert"
    /\ pixels' = [pixels EXCEPT ![Cell(gray.n)] = Gray(@)]
    /\ gray' = [gray EXCEPT !.pc = "publish"]
    /\ UNCHANGED <<memory, tempPixels, position, lock, edge, from>>

\* The position is stored and the lock released.
GrayPublish ==
    /\ gray.pc = "publish"
    /\ LET c == Cell(gray.n)
       IN  position' = <<c[2] + 1, c[1] + 1>>
    /\ lock' = 1
    /\ gray' = [pc |-> "wait", n |-> gray.n + 1]
    /\ UNCHANGED <<memory, pixels, tempPixels, edge, from>>

-----------------------------------------------------------------------------
(* Edge detection: EDGE, T3 *)

\* Image tempPixels = pixels, without the lock: one pixel after the other.
\* (part2_2 reads globalImage, which each process has from before the fork.)
EdgeCopy ==
    /\ edge.pc = "copy"
    /\ tempPixels' = [tempPixels EXCEPT ![Cell(edge.n)] = pixels[Cell(edge.n)]]
    /\ edge' = IF edge.n + 1 = Pixels THEN [pc |-> "wait", n |-> 0]
               ELSE [edge EXCEPT !.n = @ + 1]
    /\ UNCHANGED <<memory, pixels, position, lock, gray, from>>

EdgeLock ==
    /\ edge.pc = "wait" /\ edge.n < EdgePixels /\ lock = 1
    /\ lock' = 0
    /\ edge' = [edge EXCEPT !.pc = "detect"]
    /\ UNCHANGED <<memory, pixels, tempPixels, position, gray, from>>

\* Mutant: the test asks for one row more than there is.
ReadyBeyond == position[2] > EdgeCell(edge.n)[1] + 2

\* May the pixel be computed?  The column or the row is far enough.
Ready == LET c == EdgeCell(edge.n)
         IN  position[1] >= c[2] + 1 \/ position[2] >= c[1] + 1

\* Mutant: the neighbours are read from the image itself.
EdgePixelInPlace ==
    /\ edge.pc = "detect" /\ Ready
    /\ LET c == EdgeCell(edge.n)
       IN  /\ from' = [from EXCEPT ![c] = {pixels[d] : d \in Neighbours(c)}]
           /\ pixels' = [pixels EXCEPT ![c] = "edge"]
    /\ lock' = 1
    /\ edge' = [pc |-> "wait", n |-> edge.n + 1]
    /\ UNCHANGED <<memory, tempPixels, position, gray>>

EdgePixel ==
    /\ edge.pc = "detect" /\ Ready
    /\ LET c == EdgeCell(edge.n)
       IN  /\ from' = [from EXCEPT ![c] = {tempPixels[d] : d \in Neighbours(c)}]
           /\ pixels' = [pixels EXCEPT ![c] = "edge"]
    /\ lock' = 1
    /\ edge' = [pc |-> "wait", n |-> edge.n + 1]
    /\ UNCHANGED <<memory, tempPixels, position, gray>>

\* PREVENT_ERROR: release the lock and try the same pixel again.
EdgeRetry ==
    /\ edge.pc = "detect" /\ ~Ready
    /\ lock' = 1
    /\ edge' = [edge EXCEPT !.pc = "wait"]
    /\ UNCHANGED <<memory, pixels, tempPixels, position, gray, from>>

-----------------------------------------------------------------------------
(* The executions of part2_2 *)

Finished ==
    /\ gray.pc = "wait" /\ gray.n = Pixels
    /\ edge.pc = "wait" /\ edge.n = EdgePixels

Dead == gray.pc = "dead"

\* Both processes are killed, wherever they are.
Kill ==
    /\ program = "processes" /\ ~Finished /\ ~Dead
    /\ gray' = [gray EXCEPT !.pc = "dead"]
    /\ edge' = [edge EXCEPT !.pc = "dead"]
    /\ killed' = TRUE
    /\ UNCHANGED <<program, runs, pixels, tempPixels, position, lock, from>>

\* The program is executed again.  sem_open(O_CREAT | O_EXCL) fails in main,
\* which does not look; both processes open the semaphore that is there.
Restart ==
    /\ program = "processes" /\ (Finished \/ Dead)
    /\ runs < MaxRuns
    /\ runs' = runs + 1
    /\ pixels' = readPPM(pixels)
    /\ gray' = [pc |-> "wait", n |-> 0]
    /\ edge' = [pc |-> "wait", n |-> 0]
    /\ from' = NothingDetected
    /\ UNCHANGED <<program, killed, tempPixels, position, lock>>

-----------------------------------------------------------------------------

GrayStep == GrayPixel \/ GrayPublish
EdgeStep == EdgeCopy \/ EdgeLock \/ EdgePixel \/ EdgeRetry

Next == GrayLock \/ GrayStep \/ EdgeStep \/ Kill \/ Restart

Spec == Init /\ [][Next]_vars

\* Threads and processes go on.  Nothing promises the grayscale one the lock: the
\* flag it spins on, or the semaphore, is taken by whoever comes first.
FairSpec == Spec /\ WF_vars(GrayLock) /\ WF_vars(GrayStep) /\ WF_vars(EdgeStep)

-----------------------------------------------------------------------------
(* Properties *)

\* "Create a temporary copy of the input pixels": an edge is never computed from
\* pixels that edge detection has already changed.  And no pixel is skipped or
\* lost between the two: when both are through, every inner pixel is an edge and
\* the frame is gray (or was never filled).
FinalImage ==
    /\ \A c \in Interior : from[c] \subseteq {"raw", "gray"}
    /\ Finished =>
      /\ \A c \in Interior : pixels[c] \in {"edge", "edgegray"}
      /\ \A c \in Cells \ Interior :
           pixels[c] \in {"gray"} \cup (IF program = "processes" THEN {"blank"} ELSE {})

\* Grayscale is passed over for ever: edge detection takes the lock again and
\* again, to find that its pixel is not ready.
Starved == /\ <>[](gray.pc = "wait" /\ gray.n < Pixels)
           /\ []<>(edge.pc = "detect" /\ ~Ready)

\* "PREVENT_ERROR": if nothing is killed, both come to their end, and the only thing
\* that can prevent it is that edge detection starves grayscale at the lock.  It never
\* asks for a position that grayscale does not reach.
EndsUnlessStarved == []<>(Finished \/ killed) \/ Starved
=============================================================================
