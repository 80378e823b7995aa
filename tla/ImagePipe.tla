------------------------------ MODULE ImagePipe ------------------------------
(***************************************************************************)
(* The image pipeline of "Assignment 06/part2_3.cpp": a process that turns *)
(* the image gray and one that detects edges, with a pipe for the header   *)
(* and a pipe for the pixels, and main, which waits for both.              *)
(*                                                                         *)
(* A pixel is named by the cell it belongs to.  A pixel is three bytes and *)
(* written atomically, so that both ends always transfer whole pixels.     *)
(*                                                                         *)
(* Abstracted: arithmetic of colours, the text of the files.  pipe() and   *)
(* fork() succeed.                                                         *)
(***************************************************************************)
EXTENDS ImageOps, Sequences, FiniteSets

CONSTANTS
    Sizes,          \* the sizes <<width, height>> of input images
    Capacity        \* how many pixels a pipe holds

ASSUME SizesAssumption ==
    Sizes # {} /\ \A s \in Sizes : s \in (Nat \ {0}) \X (Nat \ {0})
ASSUME CapacityAssumption == Capacity \in Nat \ {0}

VARIABLES
    size,           \* width and height of the input
    valid,          \* does readPPM accept the input?
    pipe2,          \* the header pipe
    pipe,           \* the pixel pipe
    gray,           \* process T1: where it is, and the next pixel to send
    edge,           \* process T3: where it is, and the next pixel to receive
    received,       \* T3's image: the cells whose pixel it has, and the pixel
    output,         \* the file that T3 has written
    waits           \* how many children main still waits for

vars == <<size, valid, pipe2, pipe, gray, edge, received, output, waits>>

NoFile == <<>>

\* main has forked T1 and T3.
Init ==
    /\ size \in Sizes /\ valid \in BOOLEAN
    /\ pipe2 = <<>> /\ pipe = <<>>
    /\ gray = [pc |-> "header", n |-> 0]
    /\ edge = [pc |-> "header", n |-> 0, size |-> <<0, 0>>]
    /\ received = [c \in {} |-> c]
    /\ output = NoFile
    /\ waits = 2

-----------------------------------------------------------------------------
(* T1 *)

\* fscanf() reads the size of any file, and the header is sent.
SendHeader ==
    /\ gray.pc = "header"
    /\ pipe2' = Append(pipe2, size)
    /\ gray' = [gray EXCEPT !.pc = "send"]
    /\ UNCHANGED <<size, valid, pipe, edge, received, output, waits>>

\* How many pixels readPPM has put into T1's image: none if it gives up.
ImageSize == IF valid THEN Pixels(size) ELSE 0

\* Each pixel has been turned gray before the first one is sent.
SendPixel ==
    /\ gray.pc = "send" /\ gray.n < ImageSize
    /\ Len(pipe) < Capacity
    /\ pipe' = Append(pipe, GrayOf(Cell(size, gray.n)))
    /\ gray' = [gray EXCEPT !.n = @ + 1]
    /\ UNCHANGED <<size, valid, pipe2, edge, received, output, waits>>

\* Mutant: T1 exits when it has filled the pipe.
GrayExitEarly ==
    /\ gray.pc = "send" /\ (gray.n = ImageSize \/ Len(pipe) = Capacity)
    /\ gray' = [gray EXCEPT !.pc = "exited"]
    /\ UNCHANGED <<size, valid, pipe2, pipe, edge, received, output, waits>>

GrayExit ==
    /\ gray.pc = "send" /\ gray.n = ImageSize
    /\ gray' = [gray EXCEPT !.pc = "exited"]
    /\ UNCHANGED <<size, valid, pipe2, pipe, edge, received, output, waits>>

-----------------------------------------------------------------------------
(* T3 *)

ReadHeader ==
    /\ edge.pc = "header" /\ pipe2 # <<>>
    /\ edge' = [edge EXCEPT !.pc = "receive", !.size = Head(pipe2)]
    /\ pipe2' = Tail(pipe2)
    /\ UNCHANGED <<size, valid, pipe, gray, received, output, waits>>

\* read() blocks while the pipe is empty, also when T1 has exited: T3 and main
\* keep the other end of the pipe open.
ReceivePixel ==
    /\ edge.pc = "receive" /\ edge.n < Pixels(edge.size)
    /\ pipe # <<>>
    /\ received' = [c \in DOMAIN received \cup {Cell(edge.size, edge.n)} |->
                      IF c = Cell(edge.size, edge.n) THEN Head(pipe) ELSE received[c]]
    /\ pipe' = Tail(pipe)
    /\ edge' = [edge EXCEPT !.n = @ + 1]
    /\ UNCHANGED <<size, valid, pipe2, gray, output, waits>>

\* Mutant: the file is written from the wrong image.
EdgeExitGray ==
    /\ edge.pc = "receive" /\ edge.n = Pixels(edge.size)
    /\ output' = received
    /\ edge' = [edge EXCEPT !.pc = "exited"]
    /\ UNCHANGED <<size, valid, pipe2, pipe, gray, received, waits>>

\* Edge detection, and the output file.
EdgeExit ==
    /\ edge.pc = "receive" /\ edge.n = Pixels(edge.size)
    /\ output' = Sobel(edge.size, received)
    /\ edge' = [edge EXCEPT !.pc = "exited"]
    /\ UNCHANGED <<size, valid, pipe2, pipe, gray, received, waits>>

-----------------------------------------------------------------------------

Exited == Cardinality({p \in {"gray", "edge"} : \/ p = "gray" /\ gray.pc = "exited"
                                                \/ p = "edge" /\ edge.pc = "exited"})

\* wait(NULL) in main collects a child that has exited.
Wait ==
    /\ waits > 0 /\ Exited > 2 - waits
    /\ waits' = waits - 1
    /\ UNCHANGED <<size, valid, pipe2, pipe, gray, edge, received, output>>

Next ==
    \/ SendHeader \/ SendPixel \/ GrayExit
    \/ ReadHeader \/ ReceivePixel \/ EdgeExit
    \/ Wait

Spec == Init /\ [][Next]_vars

\* Each of the three processes goes on as long as it can.
FairSpec ==
    /\ Spec
    /\ WF_vars(SendHeader \/ SendPixel \/ GrayExit)
    /\ WF_vars(ReadHeader \/ ReceivePixel \/ EdgeExit)
    /\ WF_vars(Wait)

-----------------------------------------------------------------------------
(* Properties *)

\* The two processes produce what the sequential program produces, however their
\* steps interleave and however small the pipe is.
Filter == INSTANCE ImageFilter
ImplementsFilter == Filter!Spec

\* Nobody waits for ever on an image that readPPM accepts: the sender on a full
\* pipe, the receiver on an empty one, main on both.
ProgramEnds == valid ~> waits = 0 /\ pipe = <<>>
=============================================================================
