--------------------------- MODULE ImagePipe_proofs ---------------------------
(***************************************************************************)
(* The pipeline with pipes implements the sequential program, for images   *)
(* of every size and for every capacity of the pipe.                       *)
(***************************************************************************)
EXTENDS ImagePipe, ImageOps_proofs

GrayPixels == {GrayOf(c) : c \in Nat \X Nat}
Positive == (Nat \ {0}) \X (Nat \ {0})

TypeOK ==
    /\ size \in Positive
    /\ pipe2 \in Seq(Positive)
    /\ pipe \in Seq(GrayPixels)
    /\ gray \in [pc : {"header", "send", "exited"}, n : Nat]
    /\ edge \in [pc : {"header", "receive", "exited"}, n : Nat, size : Nat \X Nat]

\* The header pipe holds the size exactly between the steps that send and read it.
HeaderInv ==
    /\ gray.pc = "header" => edge.pc = "header" /\ pipe2 = <<>> /\ gray.n = 0
    /\ gray.pc # "header" /\ edge.pc = "header" => pipe2 = <<size>>
    /\ edge.pc = "header" => edge.n = 0
    /\ edge.pc # "header" => edge.size = size

\* The pixel pipe holds, in order, the pixels sent and not yet received.
PipeInv ==
    /\ Len(pipe) = gray.n - edge.n
    /\ \A i \in 1 .. Len(pipe) : pipe[i] = GrayOf(Cell(size, edge.n + i - 1))

\* T3 has the first edge.n pixels of the gray image, each at its cell.
ReceivedInv ==
    received = [c \in {Cell(size, k) : k \in 0 .. edge.n - 1} |-> GrayOf(c)]

Inv ==
    /\ TypeOK /\ HeaderInv /\ PipeInv /\ ReceivedInv
    /\ edge.pc # "exited" => output = NoFile

\* The invariant holds when the processes have been forked.
LEMMA InitInv == Init => Inv
<1> SUFFICES ASSUME Init PROVE Inv
  OBVIOUS
<1>1. TypeOK
  BY SizesAssumption DEF Init, TypeOK, Positive
<1>2. HeaderInv /\ PipeInv
  BY DEF Init, HeaderInv, PipeInv
<1>3. ReceivedInv
  <2>1. {Cell(size, k) : k \in 0 .. edge.n - 1} = {}
    BY DEF Init
  <2> QED
    BY <2>1 DEF Init, ReceivedInv
<1> QED
  BY <1>1, <1>2, <1>3 DEF Init, Inv

\* The pixels of an image, and a pixel's cell, in terms of numbers.
LEMMA CellType ==
    ASSUME NEW s \in Positive, NEW n \in Nat
    PROVE  Cell(s, n) \in Nat \X Nat /\ Pixels(s) \in Nat
<1>1. PICK w \in Nat \ {0}, h \in Nat \ {0} : w = s[1] /\ h = s[2]
  BY DEF Positive
<1>2. n \div w \in Nat /\ n % w \in Nat
  BY DivModType
<1>3. w * h \in Nat
  BY ProductType
<1> QED
  BY <1>1, <1>2, <1>3 DEF Cell, Pixels

\* Every step keeps it.
LEMMA NextInv == Inv /\ [Next]_vars => Inv'
<1> SUFFICES ASSUME Inv, [Next]_vars PROVE Inv'
  OBVIOUS
<1> USE DEF Inv
<1>1. CASE SendHeader
  <2>1. TypeOK'
    BY <1>1 DEF SendHeader, TypeOK
  <2>2. HeaderInv'
    BY <1>1 DEF SendHeader, TypeOK, HeaderInv
  <2>3. PipeInv' /\ ReceivedInv'
    BY <1>1 DEF SendHeader, TypeOK, PipeInv, ReceivedInv
  <2> QED
    BY <1>1, <2>1, <2>2, <2>3 DEF SendHeader
<1>2. CASE SendPixel
  <2> DEFINE x == GrayOf(Cell(size, gray.n))
  <2>1. pipe' = Append(pipe, x) /\ gray' = [gray EXCEPT !.n = @ + 1]
        /\ UNCHANGED <<size, pipe2, edge, received, output>> /\ gray.pc = "send"
    BY <1>2 DEF SendPixel
  <2>2. x \in GrayPixels
    BY CellType DEF TypeOK, GrayPixels
  <2>3. TypeOK'
    <3>1. pipe' \in Seq(GrayPixels)
      BY <2>1, <2>2 DEF TypeOK
    <3>2. gray' \in [pc : {"header", "send", "exited"}, n : Nat]
      BY <2>1 DEF TypeOK
    <3> QED
      BY <2>1, <3>1, <3>2 DEF TypeOK
  <2>4. HeaderInv'
    BY <2>1 DEF TypeOK, HeaderInv
  <2>5. PipeInv'
    <3>1. Len(pipe') = Len(pipe) + 1 /\ gray'.n = gray.n + 1 /\ edge' = edge /\ size' = size
      BY <2>1 DEF TypeOK
    <3>2. Len(pipe') = gray'.n - edge'.n
      BY <3>1 DEF TypeOK, PipeInv
    <3>3. ASSUME NEW i \in 1 .. Len(pipe')
          PROVE  pipe'[i] = GrayOf(Cell(size, edge.n + i - 1))
      <4>1. CASE i <= Len(pipe)
        BY <2>1, <3>1, <4>1 DEF TypeOK, PipeInv
      <4>2. CASE i = Len(pipe) + 1
        <5>1. edge.n + i - 1 = gray.n
          BY <4>2 DEF TypeOK, PipeInv
        <5> QED
          BY <2>1, <4>2, <5>1 DEF TypeOK
      <4>3. Len(pipe) \in Nat
        BY DEF TypeOK
      <4> QED
        BY <3>1, <4>1, <4>2, <4>3
    <3> QED
      BY <3>1, <3>2, <3>3 DEF PipeInv
  <2>6. ReceivedInv'
    BY <2>1 DEF ReceivedInv
  <2> QED
    BY <2>1, <2>3, <2>4, <2>5, <2>6
<1>3. CASE GrayExit
  BY <1>3 DEF GrayExit, TypeOK, HeaderInv, PipeInv, ReceivedInv
<1>4. CASE ReadHeader
  <2>1. pipe2 = <<size>> /\ edge.n = 0 /\ gray.pc # "header" /\ Head(pipe2) = size
    BY <1>4 DEF ReadHeader, HeaderInv
  <2>2. edge' = [edge EXCEPT !.pc = "receive", !.size = size] /\ pipe2' = Tail(pipe2)
        /\ UNCHANGED <<size, pipe, gray, received, output>>
    BY <1>4, <2>1 DEF ReadHeader
  <2>3. edge'.pc = "receive" /\ edge'.n = edge.n /\ edge'.size = size
    BY <2>2 DEF TypeOK
  <2>4. TypeOK'
    <3>1. pipe2' \in Seq(Positive)
      BY <2>1, <2>2 DEF TypeOK
    <3>2. size \in Nat \X Nat
      BY DEF TypeOK, Positive
    <3>3. edge' \in [pc : {"header", "receive", "exited"}, n : Nat, size : Nat \X Nat]
      BY <2>2, <3>2 DEF TypeOK
    <3> QED
      BY <2>2, <3>1, <3>3 DEF TypeOK
  <2>5. HeaderInv'
    BY <2>1, <2>2, <2>3 DEF HeaderInv
  <2>6. PipeInv' /\ ReceivedInv'
    BY <2>2, <2>3 DEF PipeInv, ReceivedInv
  <2> QED
    BY <1>4, <2>2, <2>4, <2>5, <2>6 DEF ReadHeader
<1>5. CASE ReceivePixel
  <2>1. /\ edge.pc = "receive" /\ edge.size = size /\ pipe # <<>> /\ pipe' = Tail(pipe)
        /\ edge' = [edge EXCEPT !.n = @ + 1] /\ UNCHANGED <<size, pipe2, gray, output>>
    BY <1>5 DEF ReceivePixel, HeaderInv
  <2>2. edge'.pc = "receive" /\ edge'.n = edge.n + 1 /\ edge'.size = size
    BY <2>1 DEF TypeOK
  <2>3. Len(pipe) > 0 /\ Len(pipe') = Len(pipe) - 1 /\ Head(pipe) = pipe[1]
        /\ \A i \in 1 .. Len(pipe') : pipe'[i] = pipe[i + 1]
    BY <2>1 DEF TypeOK
  <2>4. TypeOK'
    <3>1. pipe' \in Seq(GrayPixels)
      BY <2>1 DEF TypeOK
    <3>2. edge' \in [pc : {"header", "receive", "exited"}, n : Nat, size : Nat \X Nat]
      BY <2>1 DEF TypeOK
    <3> QED
      BY <2>1, <3>1, <3>2 DEF TypeOK
  <2>5. HeaderInv'
    BY <2>1, <2>2 DEF HeaderInv
  <2>6. PipeInv'
    <3>1. Len(pipe') = gray'.n - edge'.n
      BY <2>1, <2>2, <2>3 DEF TypeOK, PipeInv
    <3>2. ASSUME NEW i \in 1 .. Len(pipe')
          PROVE  pipe'[i] = GrayOf(Cell(size, edge'.n + i - 1))
      <4>1. i + 1 \in 1 .. Len(pipe) /\ edge.n + (i + 1) - 1 = edge'.n + i - 1
        BY <2>2, <2>3 DEF TypeOK
      <4> QED
        BY <2>3, <4>1 DEF PipeInv
    <3> QED
      BY <2>1, <3>1, <3>2 DEF PipeInv
  <2>7. ReceivedInv'
    <3> DEFINE D == {Cell(size, k) : k \in 0 .. edge.n - 1}
               x == Cell(size, edge.n)
    <3>1. Head(pipe) = GrayOf(x)
      <4>1. 1 \in 1 .. Len(pipe) /\ edge.n + 1 - 1 = edge.n
        BY <2>3 DEF TypeOK
      <4> QED
        BY <2>3, <4>1 DEF PipeInv
    <3>2. {Cell(size, k) : k \in 0 .. edge'.n - 1} = D \cup {x}
      <4>1. edge.n \in Nat /\ edge'.n = edge.n + 1
        BY <2>2 DEF TypeOK
      <4>2. 0 .. edge'.n - 1 = (0 .. edge.n - 1) \cup {edge.n}
        BY <4>1
      <4> QED
        BY <4>2
    <3>3. DOMAIN received = D /\ \A c \in D : received[c] = GrayOf(c)
      BY DEF ReceivedInv
    <3>4. received' = [c \in D \cup {x} |-> IF c = x THEN Head(pipe) ELSE received[c]]
      BY <1>5, <2>1, <3>3 DEF ReceivePixel
    <3> HIDE DEF D, x
    <3>5. received' = [c \in D \cup {x} |-> GrayOf(c)]
      BY <3>1, <3>3, <3>4
    <3> QED
      BY <2>1, <3>2, <3>5 DEF ReceivedInv
  <2> QED
    BY <2>1, <2>4, <2>5, <2>6, <2>7
<1>6. CASE EdgeExit
  <2>1. edge' = [edge EXCEPT !.pc = "exited"] /\ edge.pc = "receive"
        /\ UNCHANGED <<size, pipe2, pipe, gray, received>>
    BY <1>6 DEF EdgeExit
  <2>2. edge'.pc = "exited" /\ edge'.n = edge.n /\ edge'.size = edge.size
    BY <2>1 DEF TypeOK
  <2>3. TypeOK'
    BY <2>1 DEF TypeOK
  <2> QED
    BY <2>1, <2>2, <2>3 DEF HeaderInv, PipeInv, ReceivedInv
<1>7. CASE Wait
  BY <1>7 DEF Wait, TypeOK, HeaderInv, PipeInv, ReceivedInv
<1>8. CASE UNCHANGED vars
  BY <1>8 DEF vars, TypeOK, HeaderInv, PipeInv, ReceivedInv
<1> QED
  BY <1>1, <1>2, <1>3, <1>4, <1>5, <1>6, <1>7, <1>8 DEF Next

-----------------------------------------------------------------------------
(* The refinement *)

\* When T3 has received all pixels, its image is the gray image T1 makes.
LEMMA AllReceived ==
    ASSUME Inv, edge.pc = "receive", edge.n = Pixels(edge.size)
    PROVE  edge.size = size /\ received = Filter!T1(size)
<1>1. edge.size = size
  BY DEF Inv, HeaderInv
<1>2. {Cell(size, k) : k \in 0 .. Pixels(size) - 1} = Cells(size)
  BY CellsEnumerated DEF Inv, TypeOK, Positive
<1>3. received = [c \in Cells(size) |-> GrayOf(c)]
  BY <1>1, <1>2 DEF Inv, ReceivedInv
<1>4. Filter!T1(size) = [c \in Cells(size) |-> GrayOf(c)]
  BY DEF Filter!T1, Filter!Cells, Filter!GrayOf, Cells, GrayOf
<1> QED
  BY <1>1, <1>3, <1>4

\* The edge detection of the two specifications is the same.
LEMMA SameSobel ==
    ASSUME NEW s, NEW image
    PROVE  Filter!Sobel(s, image) = Sobel(s, image)
  BY DEF Filter!Sobel, Filter!Cells, Filter!Inner, Filter!Around, Sobel, Cells, Inner, Around

\* The two processes produce what the sequential program produces: the output is
\* written at most once, from all the pixels, in order, of the gray image.
THEOREM Refinement == Spec => ImplementsFilter
<1>1. Init => Filter!Init
  BY DEF Init, Filter!Init, NoFile, Filter!NoFile
<1>2. Inv /\ [Next]_vars => [Filter!main]_<<size, output>>
  <2> SUFFICES ASSUME Inv, [Next]_vars PROVE Filter!main \/ UNCHANGED <<size, output>>
    OBVIOUS
  <2>1. CASE EdgeExit
    <3>1. edge.size = size /\ received = Filter!T1(size)
      BY <2>1, AllReceived DEF EdgeExit
    <3>2. output = Filter!NoFile
      BY <2>1 DEF EdgeExit, Inv, NoFile, Filter!NoFile
    <3>3. output' = Filter!Sobel(size, Filter!T1(size))
      BY <2>1, <3>1, SameSobel DEF EdgeExit
    <3>4. size' = size
      BY <2>1 DEF EdgeExit
    <3> QED
      BY <3>2, <3>3, <3>4 DEF Filter!main
  <2>2. CASE ~EdgeExit
    BY <2>2 DEF Next, vars, SendHeader, SendPixel, GrayExit, ReadHeader, ReceivePixel, Wait
  <2> QED
    BY <2>1, <2>2
<1> QED
  BY <1>1, <1>2, InitInv, NextInv, PTL DEF Spec, ImplementsFilter, Filter!Spec
=============================================================================
