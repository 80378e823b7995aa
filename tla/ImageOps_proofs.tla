---------------------------- MODULE ImageOps_proofs ----------------------------
(***************************************************************************)
(* Numbering the pixels of an image row by row: the facts of division and  *)
(* multiplication, and that a loop over rows and columns visits every cell *)
(* of an image of any size.                                                *)
(***************************************************************************)
EXTENDS ImageOps, TLAPS

\* Quotient and remainder are natural numbers.
LEMMA DivModType ==
    ASSUME NEW w \in Nat \ {0}, NEW n \in Nat
    PROVE  n \div w \in Nat /\ n % w \in 0 .. w - 1
  OBVIOUS

\* So is a product.
LEMMA ProductType ==
    ASSUME NEW a \in Nat, NEW b \in Nat
    PROVE  a * b \in Nat
  OBVIOUS

\* Division with remainder.
LEMMA DivMod ==
    ASSUME NEW w \in Nat \ {0}, NEW n \in Nat
    PROVE  /\ n \div w \in Nat /\ n % w \in 0 .. w - 1
           /\ n = (n \div w) * w + (n % w)
<1>1. n \div w \in Nat /\ n % w \in 0 .. w - 1
  BY DivModType
<1>2. n = (n \div w) * w + (n % w)
  OBVIOUS
<1> QED
  BY <1>1, <1>2

\* A row and a column determine the number of a pixel, and it them.
LEMMA DivModUnique ==
    ASSUME NEW w \in Nat \ {0}, NEW r \in Nat, NEW c \in 0 .. w - 1
    PROVE  (r * w + c) \div w = r /\ (r * w + c) % w = c
  OBVIOUS

\* A pixel is in the image exactly if its row is.
LEMMA RowBound ==
    ASSUME NEW w \in Nat \ {0}, NEW h \in Nat, NEW r \in Nat, NEW c \in 0 .. w - 1
    PROVE  r * w + c < w * h <=> r < h
<1>1. r < h => r * w + c < w * h
  OBVIOUS
<1>2. r * w + c < w * h => r < h
  OBVIOUS
<1> QED
  BY <1>1, <1>2

\* The loop over rows and columns visits the cells of the image and no other.
LEMMA CellsEnumerated ==
    ASSUME NEW s \in (Nat \ {0}) \X (Nat \ {0})
    PROVE  {Cell(s, k) : k \in 0 .. Pixels(s) - 1} = Cells(s)
<1>1. PICK w \in Nat \ {0}, h \in Nat \ {0} : w = s[1] /\ h = s[2]
  OBVIOUS
<1>2. w * h \in Nat /\ Pixels(s) = w * h
  BY <1>1 DEF Pixels
<1>3. ASSUME NEW k \in 0 .. w * h - 1
      PROVE  Cell(s, k) \in Cells(s)
  <2>1. k \in Nat /\ k < w * h
    BY <1>2
  <2>2. PICK r \in Nat, c \in 0 .. w - 1 : r = k \div w /\ c = k % w /\ k = r * w + c
    <3>1. k \div w \in Nat /\ k % w \in 0 .. w - 1 /\ k = (k \div w) * w + (k % w)
      BY <2>1, DivMod
    <3> QED
      BY <3>1, Zenon
  <2>3. r * w + c < w * h
    BY <2>1, <2>2
  <2>4. r < h
    BY <2>3, RowBound
  <2> QED
    BY <1>1, <2>2, <2>4 DEF Cell, Cells
<1>4. ASSUME NEW c \in Cells(s)
      PROVE  \E k \in 0 .. w * h - 1 : c = Cell(s, k)
  <2>1. PICK x \in 0 .. h - 1, y \in 0 .. w - 1 : c = <<x, y>>
    BY <1>1 DEF Cells
  <2>2. PICK k \in Nat : k = x * w + y
    OBVIOUS
  <2>3. k < w * h
    BY <2>2, RowBound
  <2>4. k \div w = x /\ k % w = y
    BY <2>2, DivModUnique
  <2>5. k \in 0 .. w * h - 1 /\ c = Cell(s, k)
    BY <1>1, <1>2, <2>1, <2>3, <2>4 DEF Cell
  <2> QED
    BY <2>5
<1> QED
  BY <1>2, <1>3, <1>4
==============================================================================
