-------------------------- MODULE ImageShared_proofs --------------------------
(***************************************************************************)
(* Proofs about the pipelines with a shared image, for images of every     *)
(* size, both programs and any number of executions: the final image is    *)
(* right, also after executions that were killed, and the two workers are  *)
(* never in the critical section together.                                 *)
(***************************************************************************)
EXTENDS ImageShared, FiniteSetTheorems, TLAPS

Ops == INSTANCE ImageOps_proofs

-----------------------------------------------------------------------------
(* Rows and columns *)

\* The loop of grayscale visits every cell of the image and no other.
LEMMA CellsVisited ==
    /\ Pixels \in Nat /\ Pixels > 0
    /\ \A k \in 0 .. Pixels - 1 : Cell(k) \in Cells
    /\ \A c \in Cells : \E k \in 0 .. Pixels - 1 : c = Cell(k)
<1> DEFINE s == <<Width, Height>>
<1>1. Pixels = Width * Height
  <2>1. /\ IsFiniteSet(0 .. Height - 1) /\ Cardinality(0 .. Height - 1) = Height
        /\ IsFiniteSet(0 .. Width - 1) /\ Cardinality(0 .. Width - 1) = Width
    BY SizeAssumption, FS_Interval
  <2>2. Cardinality(Cells) = Cardinality(0 .. Height - 1) * Cardinality(0 .. Width - 1)
    BY <2>1, FS_Product, Zenon DEF Cells
  <2> QED
    BY <2>1, <2>2, SizeAssumption DEF Pixels
<1>2. Pixels \in Nat /\ Pixels > 0
  BY <1>1, SizeAssumption
<1>3. s \in (Nat \ {0}) \X (Nat \ {0}) /\ s[1] = Width /\ s[2] = Height
  BY SizeAssumption
<1>4. {Ops!Cell(s, k) : k \in 0 .. Ops!Pixels(s) - 1} = Ops!Cells(s)
  BY <1>3, Ops!CellsEnumerated
<1>5. Ops!Pixels(s) = Pixels /\ Ops!Cells(s) = Cells /\ \A k : Ops!Cell(s, k) = Cell(k)
  BY <1>1, <1>3 DEF Ops!Pixels, Ops!Cells, Ops!Cell, Cells, Cell
<1> HIDE DEF s
<1> QED
  BY <1>2, <1>4, <1>5

\* The loop of edge detection visits every inner cell and no other; there is none
\* in an image of fewer than three rows or columns.
LEMMA InteriorVisited ==
    /\ EdgePixels \in Nat
    /\ \A k \in 0 .. EdgePixels - 1 : EdgeCell(k) \in Interior
    /\ \A c \in Interior : \E k \in 0 .. EdgePixels - 1 : c = EdgeCell(k)
<1>1. CASE ~(Width > 2 /\ Height > 2)
  <2>1. Interior = {}
    BY <1>1, SizeAssumption DEF Interior, Cells
  <2>2. EdgePixels = 0
    BY <2>1, FS_EmptySet DEF EdgePixels
  <2> QED
    BY <2>1, <2>2
<1>2. CASE Width > 2 /\ Height > 2
  <2>1. PICK w \in Nat \ {0}, h \in Nat \ {0} : w = Width - 2 /\ h = Height - 2
    BY <1>2, SizeAssumption
  <2> DEFINE s == <<w, h>>
  <2>2. Interior = (1 .. h) \X (1 .. w)
    BY <2>1, SizeAssumption DEF Interior, Cells
  <2>3. EdgePixels = w * h
    <3>1. /\ IsFiniteSet(1 .. h) /\ Cardinality(1 .. h) = h
          /\ IsFiniteSet(1 .. w) /\ Cardinality(1 .. w) = w
      BY FS_Interval
    <3>2. Cardinality(Interior) = Cardinality(1 .. h) * Cardinality(1 .. w)
      BY <2>2, <3>1, FS_Product, Zenon
    <3> QED
      BY <3>1, <3>2 DEF EdgePixels
  <2>4. EdgePixels \in Nat
    BY <2>3
  <2>5. s \in (Nat \ {0}) \X (Nat \ {0}) /\ s[1] = w /\ s[2] = h
    OBVIOUS
  <2>6. {Ops!Cell(s, k) : k \in 0 .. Ops!Pixels(s) - 1} = Ops!Cells(s)
    BY <2>5, Ops!CellsEnumerated
  <2>7. Ops!Pixels(s) = EdgePixels /\ Ops!Cells(s) = (0 .. h - 1) \X (0 .. w - 1)
    BY <2>3, <2>5 DEF Ops!Pixels, Ops!Cells
  <2>8. \A k : EdgeCell(k) = <<1 + Ops!Cell(s, k)[1], 1 + Ops!Cell(s, k)[2]>>
    BY <2>1, <2>5 DEF Ops!Cell, EdgeCell
  <2> HIDE DEF s
  <2>9. ASSUME NEW k \in 0 .. EdgePixels - 1
        PROVE  EdgeCell(k) \in Interior
    <3>1. Ops!Cell(s, k) \in (0 .. h - 1) \X (0 .. w - 1)
      BY <2>6, <2>7
    <3> QED
      BY <2>2, <2>8, <3>1
  <2>10. ASSUME NEW c \in Interior
         PROVE  \E k \in 0 .. EdgePixels - 1 : c = EdgeCell(k)
    <3>1. c[1] \in 1 .. h /\ c[2] \in 1 .. w /\ c = <<c[1], c[2]>>
      BY <2>2
    <3>2. <<c[1] - 1, c[2] - 1>> \in Ops!Cells(s)
      BY <2>7, <3>1
    <3>3. PICK k \in 0 .. EdgePixels - 1 : <<c[1] - 1, c[2] - 1>> = Ops!Cell(s, k)
      BY <2>6, <2>7, <3>2
    <3>4. Ops!Cell(s, k)[1] = c[1] - 1 /\ Ops!Cell(s, k)[2] = c[2] - 1
      BY <3>3
    <3>5. c = EdgeCell(k)
      BY <2>8, <3>1, <3>4
    <3> QED
      BY <3>5
  <2> QED
    BY <2>4, <2>9, <2>10
<1> QED
  BY <1>1, <1>2

-----------------------------------------------------------------------------
(* The inductive invariant *)

TypeOK ==
    /\ program \in {"threads", "processes"}
    /\ pixels \in [Cells -> Kinds]
    /\ tempPixels \in [Cells -> {"raw", "gray"}]
    /\ gray \in [pc : {"wait", "convert", "publish", "dead"}, n : Nat]
    /\ edge \in [pc : {"copy", "wait", "detect", "dead"}, n : Nat]
    /\ from \in [Interior -> SUBSET {"raw", "gray"}]

\* No loop runs past its last pixel, and only a thread makes its own copy.
LoopInv ==
    /\ gray.pc = "wait" => gray.n <= Pixels
    /\ gray.pc \in {"convert", "publish"} => gray.n < Pixels
    /\ edge.pc = "copy" => edge.n < Pixels /\ program = "threads"
    /\ edge.pc = "detect" => edge.n < EdgePixels
    /\ edge.pc = "wait" => edge.n <= EdgePixels

\* While the copy is made there are no edges to copy.
CopyInv == edge.pc = "copy" => \A c \in Cells : pixels[c] \in {"raw", "gray"}

\* The pixels that grayscale has passed are raw no more.
Converted == IF gray.pc = "publish" THEN gray.n + 1 ELSE gray.n
GrayInv == gray.pc # "dead" => \A k \in 0 .. Converted - 1 : pixels[Cell(k)] # "raw"

\* Edge detection does not touch the frame.
FrameKinds == {"raw", "gray"} \cup (IF program = "processes" THEN {"blank"} ELSE {})
FrameInv == \A c \in Cells \ Interior : pixels[c] \in FrameKinds

\* The pixels that edge detection has passed are edges.
EdgeInv == edge.pc \in {"wait", "detect"} =>
             \A k \in 0 .. edge.n - 1 : pixels[EdgeCell(k)] \in {"edge", "edgegray"}

Inv == TypeOK /\ LoopInv /\ CopyInv /\ GrayInv /\ FrameInv /\ EdgeInv

\* An inner cell is a cell.
LEMMA InteriorCells == Interior \subseteq Cells
  BY DEF Interior

\* A pixel that was turned gray is not raw, an edge stays one, and a pixel of the
\* frame stays one.
LEMMA GrayKinds ==
    /\ \A k \in Kinds : Gray(k) \in Kinds /\ Gray(k) # "raw"
    /\ \A k \in {"raw", "gray"} : Gray(k) \in {"raw", "gray"}
    /\ \A k \in {"edge", "edgegray"} : Gray(k) \in {"edge", "edgegray"}
    /\ Gray("blank") = "blank"
  BY DEF Gray, Kinds

\* The invariant holds when the workers start.
LEMMA InitInv == Init => Inv
<1> SUFFICES ASSUME Init PROVE Inv
  OBVIOUS
<1> USE CellsVisited, InteriorVisited
<1>1. TypeOK
  BY InteriorCells DEF Init, TypeOK, AllRaw, readPPM, NothingDetected, Kinds
<1>2. LoopInv
  BY DEF Init, LoopInv
<1>3. CopyInv
  BY DEF Init, CopyInv, AllRaw
<1>4. GrayInv
  BY DEF Init, GrayInv, Converted
<1>5. FrameInv
  BY DEF Init, FrameInv, FrameKinds, AllRaw, readPPM
<1>6. EdgeInv
  BY DEF Init, EdgeInv
<1> QED
  BY <1>1, <1>2, <1>3, <1>4, <1>5, <1>6 DEF Inv

\* Every step keeps the invariant.
LEMMA NextInv == Inv /\ [Next]_vars => Inv'
<1> SUFFICES ASSUME Inv, [Next]_vars PROVE Inv'
  OBVIOUS
<1> USE DEF Inv
<1>a. /\ Pixels \in Nat /\ Pixels > 0 /\ EdgePixels \in Nat
      /\ gray.n \in Nat /\ edge.n \in Nat
  BY CellsVisited, InteriorVisited DEF TypeOK
<1>1. CASE GrayLock
  <2>1. gray' = [gray EXCEPT !.pc = "convert"] /\ gray.pc = "wait" /\ gray.n < Pixels
        /\ UNCHANGED <<program, pixels, tempPixels, edge, from>>
    BY <1>1 DEF GrayLock, memory
  <2>2. gray'.pc = "convert" /\ gray'.n = gray.n
    BY <2>1 DEF TypeOK
  <2> QED
    BY <2>1, <2>2, <1>a DEF TypeOK, LoopInv, CopyInv, GrayInv, Converted, FrameInv, FrameKinds, EdgeInv
<1>2. CASE GrayPixel
  <2> DEFINE x == Cell(gray.n)
  <2>1. /\ gray.pc = "convert" /\ gray' = [gray EXCEPT !.pc = "publish"]
        /\ pixels' = [pixels EXCEPT ![x] = Gray(pixels[x])]
        /\ UNCHANGED <<program, tempPixels, edge, from>>
    BY <1>2 DEF GrayPixel, memory
  <2>2. gray'.pc = "publish" /\ gray'.n = gray.n /\ gray.n < Pixels
    BY <2>1 DEF TypeOK, LoopInv
  <2>3. x \in Cells
    BY <1>a, <2>2, CellsVisited
  <2>4. \A c \in Cells : pixels'[c] = IF c = x THEN Gray(pixels[c]) ELSE pixels[c]
    BY <2>1 DEF TypeOK
  <2>5. pixels[x] \in Kinds /\ Gray(pixels[x]) \in Kinds /\ pixels' \in [Cells -> Kinds]
    BY <2>1, <2>3, GrayKinds DEF TypeOK
  <2>6. TypeOK'
    BY <2>1, <2>5 DEF TypeOK
  <2>7. LoopInv'
    BY <2>1, <2>2 DEF LoopInv
  <2>8. CopyInv'
    BY <2>1, <2>4, GrayKinds DEF CopyInv
  <2>9. GrayInv'
    <3> SUFFICES ASSUME NEW k \in 0 .. gray.n PROVE pixels'[Cell(k)] # "raw"
      BY <1>a, <2>2 DEF GrayInv, Converted
    <3>1. Cell(k) \in Cells
      BY <1>a, <2>2, CellsVisited
    <3>2. CASE Cell(k) = x
      BY <2>4, <2>5, <3>1, <3>2, GrayKinds
    <3>3. CASE Cell(k) # x
      <4>1. k \in 0 .. Converted - 1
        BY <1>a, <2>1, <3>3 DEF Converted
      <4> QED
        BY <2>1, <2>4, <3>1, <3>3, <4>1 DEF GrayInv
    <3> QED
      BY <3>2, <3>3
  <2>10. FrameInv'
    <3> SUFFICES ASSUME NEW c \in Cells \ Interior PROVE pixels'[c] \in FrameKinds
      BY <2>1 DEF FrameInv, FrameKinds
    <3>1. pixels[c] \in FrameKinds
      BY DEF FrameInv
    <3>2. Gray(pixels[c]) \in FrameKinds
      BY <3>1, GrayKinds DEF FrameKinds
    <3> QED
      BY <2>4, <3>1, <3>2
  <2>11. EdgeInv'
    <3> SUFFICES ASSUME edge.pc \in {"wait", "detect"}, NEW k \in 0 .. edge.n - 1
                 PROVE  pixels'[EdgeCell(k)] \in {"edge", "edgegray"}
      BY <2>1 DEF EdgeInv
    <3>1. k \in 0 .. EdgePixels - 1
      BY <1>a DEF LoopInv
    <3>2. EdgeCell(k) \in Cells
      BY <3>1, InteriorVisited, InteriorCells
    <3>3. pixels[EdgeCell(k)] \in {"edge", "edgegray"}
      BY DEF EdgeInv
    <3> QED
      BY <2>4, <3>2, <3>3, GrayKinds
  <2> QED
    BY <2>6, <2>7, <2>8, <2>9, <2>10, <2>11
<1>3. CASE GrayPublish
  <2>1. gray' = [pc |-> "wait", n |-> gray.n + 1] /\ gray.pc = "publish"
        /\ UNCHANGED <<program, pixels, tempPixels, edge, from>>
    BY <1>3 DEF GrayPublish, memory
  <2>2. gray'.pc = "wait" /\ gray'.n = gray.n + 1 /\ gray.n < Pixels
    BY <2>1 DEF LoopInv
  <2>3. GrayInv'
    BY <2>1, <2>2 DEF GrayInv, Converted
  <2> QED
    BY <1>a, <2>1, <2>2, <2>3 DEF TypeOK, LoopInv, CopyInv, FrameInv, FrameKinds, EdgeInv
<1>4. CASE EdgeCopy
  <2> DEFINE x == Cell(edge.n)
  <2>1. /\ edge.pc = "copy" /\ tempPixels' = [tempPixels EXCEPT ![x] = pixels[x]]
        /\ edge' = IF edge.n + 1 = Pixels THEN [pc |-> "wait", n |-> 0]
                   ELSE [edge EXCEPT !.n = @ + 1]
        /\ UNCHANGED <<program, pixels, gray, from>>
    BY <1>4 DEF EdgeCopy, memory
  <2>2. edge.n < Pixels /\ program = "threads"
    BY <2>1 DEF LoopInv
  <2>3. x \in Cells
    BY <1>a, <2>2, CellsVisited
  <2>4. tempPixels' \in [Cells -> {"raw", "gray"}]
    BY <2>1, <2>3 DEF TypeOK, CopyInv
  <2>5. \/ edge'.pc = "wait" /\ edge'.n = 0
        \/ edge'.pc = "copy" /\ edge'.n = edge.n + 1 /\ edge'.n # Pixels
    BY <2>1 DEF TypeOK
  <2>6. edge' \in [pc : {"copy", "wait", "detect", "dead"}, n : Nat]
    BY <2>1 DEF TypeOK
  <2>7. TypeOK'
    BY <2>1, <2>4, <2>6 DEF TypeOK
  <2>8. LoopInv'
    BY <1>a, <2>1, <2>2, <2>5 DEF LoopInv
  <2>9. EdgeInv'
    BY <2>5 DEF EdgeInv
  <2> QED
    BY <2>1, <2>7, <2>8, <2>9 DEF CopyInv, GrayInv, Converted, FrameInv, FrameKinds
<1>5. CASE EdgeLock
  <2>1. edge' = [edge EXCEPT !.pc = "detect"] /\ edge.pc = "wait" /\ edge.n < EdgePixels
        /\ UNCHANGED <<program, pixels, tempPixels, gray, from>>
    BY <1>5 DEF EdgeLock, memory
  <2>2. edge'.pc = "detect" /\ edge'.n = edge.n
    BY <2>1 DEF TypeOK
  <2> QED
    BY <2>1, <2>2 DEF TypeOK, LoopInv, CopyInv, GrayInv, Converted, FrameInv, FrameKinds, EdgeInv
<1>6. CASE EdgePixel
  <2> DEFINE x == EdgeCell(edge.n)
  <2>1. /\ edge.pc = "detect" /\ edge' = [pc |-> "wait", n |-> edge.n + 1]
        /\ from' = [from EXCEPT ![x] = {tempPixels[d] : d \in Neighbours(x)}]
        /\ pixels' = [pixels EXCEPT ![x] = "edge"]
        /\ UNCHANGED <<program, tempPixels, gray>>
    BY <1>6 DEF EdgePixel, memory
  <2>2. edge.n < EdgePixels /\ edge'.pc = "wait" /\ edge'.n = edge.n + 1
    BY <2>1 DEF LoopInv
  <2>3. x \in Interior /\ x \in Cells
    BY <1>a, <2>2, InteriorVisited, InteriorCells
  <2>4. \A c \in Cells : pixels'[c] = IF c = x THEN "edge" ELSE pixels[c]
    BY <2>1 DEF TypeOK
  <2>5. TypeOK'
    <3>1. {tempPixels[d] : d \in Neighbours(x)} \subseteq {"raw", "gray"}
      BY DEF TypeOK, Neighbours
    <3>2. from' \in [Interior -> SUBSET {"raw", "gray"}]
      BY <2>1, <3>1 DEF TypeOK
    <3>3. pixels' \in [Cells -> Kinds]
      BY <2>1 DEF TypeOK, Kinds
    <3> QED
      BY <1>a, <2>1, <3>2, <3>3 DEF TypeOK
  <2>6. LoopInv'
    BY <1>a, <2>1, <2>2 DEF LoopInv
  <2>7. CopyInv'
    BY <2>2 DEF CopyInv
  <2>8. GrayInv'
    <3> SUFFICES ASSUME gray.pc # "dead", NEW k \in 0 .. Converted - 1
                 PROVE  pixels'[Cell(k)] # "raw"
      BY <2>1 DEF GrayInv, Converted
    <3>1. k \in 0 .. Pixels - 1
      BY <1>a DEF LoopInv, Converted, TypeOK
    <3>2. Cell(k) \in Cells
      BY <3>1, CellsVisited
    <3> QED
      BY <2>4, <3>2 DEF GrayInv
  <2>9. FrameInv'
    BY <2>1, <2>3, <2>4 DEF FrameInv, FrameKinds
  <2>10. EdgeInv'
    <3> SUFFICES ASSUME NEW k \in 0 .. edge.n
                 PROVE  pixels'[EdgeCell(k)] \in {"edge", "edgegray"}
      BY <1>a, <2>2 DEF EdgeInv
    <3>1. EdgeCell(k) \in Cells
      BY <1>a, <2>2, InteriorVisited, InteriorCells
    <3>2. EdgeCell(k) # x => k \in 0 .. edge.n - 1
      BY <1>a
    <3> QED
      BY <2>1, <2>4, <3>1, <3>2 DEF EdgeInv
  <2> QED
    BY <2>5, <2>6, <2>7, <2>8, <2>9, <2>10
<1>7. CASE EdgeRetry
  <2>1. edge' = [edge EXCEPT !.pc = "wait"] /\ edge.pc = "detect"
        /\ UNCHANGED <<program, pixels, tempPixels, gray, from>>
    BY <1>7 DEF EdgeRetry, memory
  <2>2. edge'.pc = "wait" /\ edge'.n = edge.n
    BY <2>1 DEF TypeOK
  <2> QED
    BY <1>a, <2>1, <2>2 DEF TypeOK, LoopInv, CopyInv, GrayInv, Converted, FrameInv, FrameKinds, EdgeInv
<1>8. CASE Kill
  <2>1. gray' = [gray EXCEPT !.pc = "dead"] /\ edge' = [edge EXCEPT !.pc = "dead"]
        /\ UNCHANGED <<program, pixels, tempPixels, from>>
    BY <1>8 DEF Kill
  <2>2. gray'.pc = "dead" /\ edge'.pc = "dead"
    BY <2>1 DEF TypeOK
  <2> QED
    BY <2>1, <2>2 DEF TypeOK, LoopInv, CopyInv, GrayInv, FrameInv, FrameKinds, EdgeInv
<1>9. CASE Restart
  <2>1. /\ program = "processes" /\ pixels' = readPPM(pixels) /\ from' = NothingDetected
        /\ gray' = [pc |-> "wait", n |-> 0] /\ edge' = [pc |-> "wait", n |-> 0]
        /\ UNCHANGED <<program, tempPixels>>
    BY <1>9 DEF Restart
  <2>2. TypeOK'
    BY <2>1 DEF TypeOK, readPPM, NothingDetected, Kinds
  <2>3. FrameInv'
    BY <2>1 DEF TypeOK, FrameInv, FrameKinds, readPPM
  <2> QED
    BY <1>a, <2>1, <2>2, <2>3 DEF LoopInv, CopyInv, GrayInv, Converted, EdgeInv
<1>10. CASE UNCHANGED vars
  BY <1>10 DEF vars, TypeOK, LoopInv, CopyInv, GrayInv, Converted, FrameInv, FrameKinds, EdgeInv
<1> QED
  BY <1>1, <1>2, <1>3, <1>4, <1>5, <1>6, <1>7, <1>8, <1>9, <1>10 DEF Next, GrayStep, EdgeStep

\* The final image is right whatever the interleaving, however often the readiness
\* test lets edge detection go ahead of grayscale, and after killed executions.
THEOREM ImageCorrect == Spec => []FinalImage
<1>1. Inv => FinalImage
  <2> SUFFICES ASSUME Inv PROVE FinalImage
    OBVIOUS
  <2>1. \A c \in Interior : from[c] \subseteq {"raw", "gray"}
    BY DEF Inv, TypeOK
  <2>2. ASSUME Finished, NEW c \in Interior
        PROVE  pixels[c] \in {"edge", "edgegray"}
    BY <2>2, InteriorVisited DEF Inv, EdgeInv, Finished
  <2>3. ASSUME Finished, NEW c \in Cells \ Interior
        PROVE  pixels[c] \in {"gray"} \cup (IF program = "processes" THEN {"blank"} ELSE {})
    <3>1. pixels[c] \in FrameKinds
      BY DEF Inv, FrameInv
    <3>2. PICK k \in 0 .. Pixels - 1 : c = Cell(k)
      BY CellsVisited
    <3>3. pixels[c] # "raw"
      BY <2>3, <3>2 DEF Inv, GrayInv, Converted, Finished
    <3> QED
      BY <3>1, <3>3 DEF FrameKinds
  <2> QED
    BY <2>1, <2>2, <2>3 DEF FinalImage
<1> QED
  BY <1>1, InitInv, NextInv, PTL DEF Spec

-----------------------------------------------------------------------------
(* Mutual exclusion *)

\* Pixel and position are changed by one worker at a time.
Exclusion == ~(gray.pc \in {"convert", "publish"} /\ edge.pc = "detect")

\* A worker in the critical section holds the lock.
LockInv ==
    /\ Exclusion
    /\ gray.pc \in {"convert", "publish"} \/ edge.pc = "detect" => lock = 0

\* Grayscale and edge detection are never in their critical sections together,
\* also in an execution that finds the semaphore as a killed one left it.
THEOREM ExclusionCorrect == Spec => []Exclusion
<1>1. Init => LockInv
  BY DEF Init, LockInv, Exclusion
<1>2. TypeOK /\ LockInv /\ [Next]_vars => LockInv'
  <2> SUFFICES ASSUME TypeOK, LockInv, [Next]_vars PROVE LockInv'
    OBVIOUS
  <2> USE DEF TypeOK, LockInv, Exclusion
  <2>1. CASE GrayLock
    BY <2>1 DEF GrayLock
  <2>2. CASE GrayPixel
    BY <2>2 DEF GrayPixel
  <2>3. CASE GrayPublish
    BY <2>3 DEF GrayPublish
  <2>4. CASE EdgeCopy
    BY <2>4 DEF EdgeCopy
  <2>5. CASE EdgeLock
    BY <2>5 DEF EdgeLock
  <2>6. CASE EdgePixel
    BY <2>6 DEF EdgePixel
  <2>7. CASE EdgeRetry
    BY <2>7 DEF EdgeRetry
  <2>8. CASE Kill
    BY <2>8 DEF Kill
  <2>9. CASE Restart
    BY <2>9 DEF Restart
  <2>10. CASE UNCHANGED vars
    BY <2>10 DEF vars
  <2> QED
    BY <2>1, <2>2, <2>3, <2>4, <2>5, <2>6, <2>7, <2>8, <2>9, <2>10
    DEF Next, GrayStep, EdgeStep
<1>3. LockInv => Exclusion
  BY DEF LockInv
<1>4. Inv => TypeOK
  BY DEF Inv
<1> QED
  BY <1>1, <1>2, <1>3, <1>4, InitInv, NextInv, PTL DEF Spec
=============================================================================
