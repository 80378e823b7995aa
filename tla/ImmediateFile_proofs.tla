------------------------- MODULE ImmediateFile_proofs -------------------------
(***************************************************************************)
(* Immediate files, for every size of inode, block, file and device: no    *)
(* zone is lost, reads and writes are exact, and where processes use the   *)
(* file in the ways that Ordinary lists it is an ordinary file.            *)
(***************************************************************************)
EXTENDS ImmediateFile, FiniteSetTheorems, SequenceTheorems, WellFoundedInduction, TLAPS

FileModes == {"free", "I_IMMEDIATE", "I_REGULAR"}
Maps == [BlockNrs -> Data \cup {NO_BLOCK}]

TypeOK ==
    /\ workload \in Workloads
    /\ linked \in BOOLEAN
    /\ i_mode \in FileModes /\ i_size \in Positions
    /\ i_zone \in [0 .. IMM - 1 -> Byte]
    /\ blocks \in Maps
    /\ free_zones \in Nat /\ lost \in Nat
    /\ vnode \in [v_mode : FileModes, v_size : Nat]
    /\ filp \in [Files -> [open : BOOLEAN, pos : Nat, append : BOOLEAN]]

\* The inode lives as long as the name or an open file, the vnode as long as an
\* open file.
LinksOk ==
    /\ vnode = NoVnode <=> \A f \in Files : ~filp[f].open
    /\ vnode.v_mode = "free" <=> vnode = NoVnode
    /\ i_mode = "free" <=> ~linked /\ vnode = NoVnode
    /\ i_mode = "free" => i_size = 0

\* Only a regular file has blocks, and VFS takes a file for regular only if it is.
ModesOk ==
    /\ i_mode # "I_REGULAR" => blocks = NoBlocks
    /\ vnode.v_mode = "I_REGULAR" => i_mode = "I_REGULAR"
    /\ i_mode = "I_IMMEDIATE" /\ "I_IMMEDIATE" \notin workload.uses => i_size <= IMM

\* What lies behind the end of the file in its blocks is zero.
ZeroBehind(blks, size) ==
    \A b \in BlockNrs : \A o \in 0 .. BLOCK_SIZE - 1 :
      blks[b] # NO_BLOCK /\ b * BLOCK_SIZE + o >= size => blks[b][o] = 0

\* A conversion that failed in the copy from the caller leaves the old bytes in the
\* only block of a file without bytes.
LeftBehind == "fault" \in workload.uses /\ i_size = 0 /\ MappedIn(blocks) = {0}

TailOk ==
    "I_IMMEDIATE" \notin workload.uses /\ ~({"fault", "sparse"} \subseteq workload.uses) =>
      /\ i_mode = "I_REGULAR" => ZeroBehind(blocks, i_size) \/ LeftBehind
      /\ i_mode = "I_IMMEDIATE" /\ "truncate" \notin workload.uses =>
           \A k \in 0 .. IMM - 1 : k >= i_size => i_zone[k] = 0

\* VFS knows the size of what it takes for a regular file, in workloads where
\* it depends on that; nobody appends who does not rely on the end.
VnodeOk ==
    /\ posix /\ "I_REGULAR" \in workload.uses /\ vnode.v_mode = "I_REGULAR" =>
         vnode.v_size = i_size
    /\ "end" \notin workload.uses => \A f \in Files : ~filp[f].append

Inv == TypeOK /\ LinksOk /\ ModesOk /\ TailOk /\ VnodeOk /\ ZonesAccounted

-----------------------------------------------------------------------------
(* Numbers: blocks and positions.                                            *)

\* Quotient and remainder are natural numbers.
LEMMA DivModType ==
    ASSUME NEW w \in Nat \ {0}, NEW n \in Nat
    PROVE  n \div w \in Nat /\ n % w \in 0 .. w - 1
  OBVIOUS

\* Division with remainder.
LEMMA DivMod ==
    ASSUME NEW w \in Nat \ {0}, NEW n \in Nat
    PROVE  /\ n \div w \in Nat /\ n % w \in 0 .. w - 1
           /\ n = (n \div w) * w + (n % w)
<1>1. n \div w \in Nat /\ n % w \in 0 .. w - 1
  BY DivModType
<1>2. n = (n \div w) * w + (n % w)
  OBVIOUS
<1> QED
  BY <1>1, <1>2

\* A multiple of the block size, and the next.
LEMMA Multiples ==
    ASSUME NEW w \in Nat \ {0}, NEW a \in Nat, NEW b \in Nat
    PROVE  /\ a * w \in Nat /\ (a + 1) * w = a * w + w
           /\ a <= b => a * w <= b * w
           /\ a < b => a * w + w <= b * w
<1>1. a * w \in Nat /\ b * w \in Nat
  OBVIOUS
<1>2. (a + 1) * w = a * w + w
  OBVIOUS
<1>3. a <= b => a * w <= b * w
  OBVIOUS
<1>4. a < b => a * w + w <= b * w
  OBVIOUS
<1> QED
  BY <1>1, <1>2, <1>3, <1>4

\* What is below a number is below every greater one.
LEMMA Below ==
    ASSUME NEW t \in Nat, NEW m \in Nat, t <= m, NEW k, k \in 0 .. t - 1
    PROVE  k \in Nat /\ k < t /\ k < m /\ k \in 0 .. m /\ k \in 0 .. m - 1
  OBVIOUS

\* Sizes are natural numbers.
LEMMA Sizes ==
    /\ BLOCK_SIZE \in Nat \ {0} /\ IMM \in Nat \ {0} /\ MaxSize \in Nat
    /\ IMM < BLOCK_SIZE /\ IMM < MaxSize
  BY SizesAssumption

\* The first position of a block.
LEMMA Starts ==
    ASSUME NEW a \in Nat, NEW b \in Nat
    PROVE  /\ a * BLOCK_SIZE \in Nat /\ (a + 1) * BLOCK_SIZE = a * BLOCK_SIZE + BLOCK_SIZE
           /\ a <= b => a * BLOCK_SIZE <= b * BLOCK_SIZE
           /\ a < b => a * BLOCK_SIZE + BLOCK_SIZE <= b * BLOCK_SIZE
  BY Sizes, Multiples

\* The block of a position, and the place in it.
LEMMA Places ==
    ASSUME NEW k \in Nat
    PROVE  /\ k \div BLOCK_SIZE \in Nat /\ k % BLOCK_SIZE \in 0 .. BLOCK_SIZE - 1
           /\ k = (k \div BLOCK_SIZE) * BLOCK_SIZE + (k % BLOCK_SIZE)
  BY Sizes, DivMod

\* A position is in the block between whose ends it lies.
LEMMA InBlock ==
    ASSUME NEW k \in Nat, NEW b \in Nat
    PROVE  /\ k < b * BLOCK_SIZE + BLOCK_SIZE => k \div BLOCK_SIZE <= b
           /\ b * BLOCK_SIZE <= k => b <= k \div BLOCK_SIZE
<1> DEFINE q == k \div BLOCK_SIZE
           r == k % BLOCK_SIZE
<1>1. q \in Nat /\ r \in 0 .. BLOCK_SIZE - 1 /\ k = q * BLOCK_SIZE + r
  BY Places
<1> HIDE DEF q, r
<1>2. /\ q * BLOCK_SIZE \in Nat /\ b * BLOCK_SIZE \in Nat
      /\ b < q => b * BLOCK_SIZE + BLOCK_SIZE <= q * BLOCK_SIZE
      /\ q < b => q * BLOCK_SIZE + BLOCK_SIZE <= b * BLOCK_SIZE
  BY <1>1, Starts
<1>3. q <= b \/ b < q
  BY <1>1
<1>4. b <= q \/ q < b
  BY <1>1
<1> QED
  BY <1>1, <1>2, <1>3, <1>4, Sizes DEF q

\* Where block b lies when place o of it is position k.
LEMMA PlaceOf ==
    ASSUME NEW b \in Nat, NEW o \in 0 .. BLOCK_SIZE - 1
    PROVE  LET k == b * BLOCK_SIZE + o
           IN  k \in Nat /\ k \div BLOCK_SIZE = b /\ k % BLOCK_SIZE = o
<1> DEFINE k == b * BLOCK_SIZE + o
<1>1. b * BLOCK_SIZE \in Nat /\ k \in Nat
  BY Starts, Sizes
<1>2. k < b * BLOCK_SIZE + BLOCK_SIZE /\ b * BLOCK_SIZE <= k
  BY <1>1, Sizes
<1> HIDE DEF k
<1>3. k \div BLOCK_SIZE <= b /\ b <= k \div BLOCK_SIZE /\ k \div BLOCK_SIZE \in Nat
  BY <1>1, <1>2, InBlock, Places
<1>4. k \div BLOCK_SIZE = b
  BY <1>3
<1>5. k = b * BLOCK_SIZE + (k % BLOCK_SIZE) /\ k % BLOCK_SIZE \in 0 .. BLOCK_SIZE - 1
  BY <1>1, <1>4, Places
<1>6. k % BLOCK_SIZE = o
  BY <1>1, <1>5, Sizes DEF k
<1> QED
  BY <1>1, <1>4, <1>6 DEF k

\* The positions of a file are in its blocks.
LEMMA PositionsInBlocks ==
    /\ BlockNrs \subseteq Nat /\ IsFiniteSet(BlockNrs) /\ 0 \in BlockNrs
    /\ \A k \in Positions : k \in Nat /\ k \div BLOCK_SIZE \in BlockNrs
<1>1. MaxSize \div BLOCK_SIZE \in Nat /\ MaxSize \in Nat
  BY Places, Sizes
<1>2. BlockNrs \subseteq Nat /\ IsFiniteSet(BlockNrs) /\ 0 \in BlockNrs
  BY <1>1, FS_Interval DEF BlockNrs
<1>3. ASSUME NEW k \in Positions PROVE k \in Nat /\ k \div BLOCK_SIZE \in BlockNrs
  <2> DEFINE q == k \div BLOCK_SIZE
             m == MaxSize \div BLOCK_SIZE
  <2>1. k \in Nat /\ k <= MaxSize
    BY <1>1 DEF Positions
  <2>2. q \in Nat /\ q * BLOCK_SIZE <= k
    BY <2>1, Places, Starts, Sizes
  <2> HIDE DEF q
  <2>3. q * BLOCK_SIZE <= MaxSize
    BY <2>1, <2>2, <1>1, Starts
  <2>4. q <= m
    BY <2>2, <2>3, <1>1, InBlock
  <2> QED
    BY <1>1, <2>1, <2>2, <2>4 DEF BlockNrs, q
<1> QED
  BY <1>2, <1>3

\* Every set of natural numbers has a least element.
LEMMA LeastExists ==
    ASSUME NEW K \in SUBSET Nat, K # {}
    PROVE  Least(K) \in K /\ \A j \in K : Least(K) <= j
<1> DEFINE R == OpToRel(<, Nat)
<1>1. \A x, y \in Nat : <<y, x>> \in R <=> y < x
  BY DEF OpToRel
<1>2. \E x \in K : \A y \in K : ~(<<y, x>> \in R)
  BY WFMin, NatLessThanWellFounded
<1> HIDE DEF R
<1>3. PICK x \in K : \A y \in K : ~(<<y, x>> \in R)
  BY <1>2
<1>4. \A y \in K : ~(y < x)
  BY <1>1, <1>3
<1>5. \A y \in K : x <= y
  BY <1>4
<1> QED
  BY <1>5 DEF Least

\* Every set of natural numbers with a bound has a greatest one.
LEMMA GreatestExists ==
    ASSUME NEW K \in SUBSET Nat, K # {}, NEW m \in Nat, \A j \in K : j <= m
    PROVE  \E x \in K : \A j \in K : j <= x
<1> DEFINE F == {d \in Nat : m - d \in K}
<1>1. PICK j \in K : TRUE
  OBVIOUS
<1>2. m - j \in F
  OBVIOUS
<1>3. F \in SUBSET Nat /\ F # {}
  BY <1>2
<1> HIDE DEF F
<1>4. Least(F) \in F /\ \A d \in F : Least(F) <= d
  BY <1>3, LeastExists
<1>5. PICK d \in F : \A e \in F : d <= e
  BY <1>4
<1>6. m - d \in K /\ d \in Nat
  BY <1>5 DEF F
<1>7. ASSUME NEW x \in K PROVE x <= m - d
  <2>1. m - x \in F
    BY DEF F
  <2>2. d <= m - x
    BY <2>1, <1>5
  <2> QED
    BY <2>2, <1>6
<1> QED
  BY <1>6, <1>7

-----------------------------------------------------------------------------
(* Blocks: what a write into them does.                                      *)

\* What place o of block b reads as, and byte k of a file in blocks.
At(blks, b, o) == IF blks[b] = NO_BLOCK THEN 0 ELSE blks[b][o]
ByteOf(blks, k) == At(blks, k \div BLOCK_SIZE, k % BLOCK_SIZE)
Place(b, o) == b * BLOCK_SIZE + o

\* The places that are not in [pos, end) and behind 'size' are zero.
ZeroFrom(blks, size) ==
    \A b \in BlockNrs : \A o \in 0 .. BLOCK_SIZE - 1 :
      Place(b, o) >= size => At(blks, b, o) = 0

\* A block is not the sign that there is none.
LEMMA DataIsSomething ==
    ASSUME NEW d \in Data
    PROVE  d # NO_BLOCK
<1>1. 0 \in DOMAIN d
  BY Sizes DEF Data
<1>2. DOMAIN NO_BLOCK = 1 .. 0
  BY DEF NO_BLOCK
<1> QED
  BY <1>1, <1>2

\* A place is a byte, and a position of the file.
LEMMA AtType ==
    ASSUME NEW blks \in Maps, NEW b \in BlockNrs, NEW o \in 0 .. BLOCK_SIZE - 1
    PROVE  At(blks, b, o) \in Byte /\ Place(b, o) \in Nat
<1>1. blks[b] # NO_BLOCK => blks[b] \in Data
  BY DEF Maps
<1>2. Place(b, o) \in Nat
  BY PlaceOf, PositionsInBlocks DEF Place
<1> QED
  BY <1>1, <1>2 DEF At, Data, Byte

\* The same set of zero places, in two ways.
LEMMA ZeroSame ==
    ASSUME NEW blks, NEW size
    PROVE  ZeroFrom(blks, size) <=> ZeroBehind(blks, size)
  BY DEF ZeroFrom, ZeroBehind, At, Place

\* No blocks are a map of blocks, all of them zero.
LEMMA NoBlocksFacts ==
    /\ NoBlocks \in Maps /\ MappedIn(NoBlocks) = {}
    /\ \A size : ZeroFrom(NoBlocks, size)
  BY DEF NoBlocks, Maps, MappedIn, ZeroFrom, At

\* The mapped blocks are finitely many.
LEMMA MappedFinite ==
    ASSUME NEW blks
    PROVE  /\ MappedIn(blks) \in SUBSET BlockNrs
           /\ IsFiniteSet(MappedIn(blks)) /\ Cardinality(MappedIn(blks)) \in Nat
<1>1. MappedIn(blks) \in SUBSET BlockNrs
  BY DEF MappedIn
<1> QED
  BY <1>1, PositionsInBlocks, FS_Subset, FS_CardinalityType

\* The blocks that a transfer of [pos, end) touches.
Touched(pos, end) ==
    {b \in BlockNrs : pos < end /\ pos < Place(b + 1, 0) /\ Place(b, 0) < end}

\* W is blks, but for bytes v in [pos, end).
Overlaid(W, blks, pos, end, v) ==
    \A b \in BlockNrs, o \in 0 .. BLOCK_SIZE - 1 :
      At(W, b, o) = IF pos <= Place(b, o) /\ Place(b, o) < end THEN v ELSE At(blks, b, o)

\* The loop of fs_readwrite: the blocks touched are mapped, the bytes of [pos, end)
\* are v, and all others are as before, if what lies behind both the end of the
\* file and the end of the transfer is zero.
LEMMA WrittenFacts ==
    ASSUME NEW blks \in Maps, NEW pos \in Nat, NEW end \in Nat, NEW size \in Nat,
           NEW v \in Byte
    PROVE  LET W == Written(blks, pos, end, size, v)
           IN  /\ W \in Maps
               /\ MappedIn(W) = MappedIn(blks) \cup Touched(pos, end)
               /\ ZeroFrom(blks, size) \/ ZeroFrom(blks, end) => Overlaid(W, blks, pos, end, v)
<1> DEFINE W == Written(blks, pos, end, size, v)
           B == BLOCK_SIZE
           new(b) == [o \in 0 .. B - 1 |->
                        IF pos <= b * B + o /\ b * B + o < end THEN v
                        ELSE ChunkBase(blks, b, pos, end, size)[o]]
<1>1. \A b \in BlockNrs : /\ b \in Nat /\ b * B \in Nat /\ (b + 1) * B = b * B + B
                          /\ Place(b, 0) = b * B /\ Place(b + 1, 0) = b * B + B
  <2> TAKE b \in BlockNrs
  <2>1. b \in Nat
    BY PositionsInBlocks
  <2>2. b * B \in Nat /\ (b + 1) * B = b * B + B
    BY <2>1, Starts
  <2> QED
    BY <2>1, <2>2, Sizes DEF Place
<1>2. \A b \in BlockNrs :
        /\ b \in Touched(pos, end) => W[b] = new(b)
        /\ b \notin Touched(pos, end) => W[b] = blks[b]
  <2> TAKE b \in BlockNrs
  <2>1. b \in Touched(pos, end) <=> ~(end <= pos \/ (b + 1) * B <= pos \/ b * B >= end)
    BY <1>1, Sizes DEF Touched
  <2> QED
    BY <2>1 DEF Written
<1>3. \A b \in BlockNrs : ChunkBase(blks, b, pos, end, size) \in Data
  <2> TAKE b \in BlockNrs
  <2>1. [o \in 0 .. B - 1 |-> 0] \in Data
    BY DEF Data, Byte
  <2>2. blks[b] # NO_BLOCK => blks[b] \in Data
    BY DEF Maps
  <2> QED
    BY <2>1, <2>2 DEF ChunkBase
<1>4. \A b \in BlockNrs : new(b) \in Data
  BY <1>3 DEF Data
<1>5. DOMAIN W = BlockNrs /\ W = [b \in BlockNrs |-> W[b]]
  BY DEF Written
<1>6. W \in Maps
  <2>1. \A b \in BlockNrs : W[b] \in Data \cup {NO_BLOCK}
    BY <1>2, <1>4 DEF Maps
  <2> HIDE DEF W
  <2> QED
    BY <1>5, <2>1 DEF Maps
<1>7. MappedIn(W) = MappedIn(blks) \cup Touched(pos, end)
  <2>1. \A b \in BlockNrs : new(b) # NO_BLOCK
    BY <1>4, DataIsSomething
  <2>2. Touched(pos, end) \subseteq BlockNrs
    BY DEF Touched
  <2> HIDE DEF W, new
  <2> QED
    BY <1>2, <2>1, <2>2 DEF MappedIn
<1>8. ASSUME ZeroFrom(blks, size) \/ ZeroFrom(blks, end),
             NEW b \in BlockNrs, NEW o \in 0 .. B - 1
      PROVE  At(W, b, o) = IF pos <= Place(b, o) /\ Place(b, o) < end THEN v
                           ELSE At(blks, b, o)
  <2>1. o \in Nat /\ o < B /\ B \in Nat /\ Place(b, o) = b * B + o
    BY Sizes DEF Place
  <2>2. CASE b \notin Touched(pos, end)
    <3>1. ~(pos <= Place(b, o) /\ Place(b, o) < end)
      BY <1>1, <2>1, <2>2 DEF Touched
    <3>2. W[b] = blks[b]
      BY <1>2, <2>2
    <3> QED
      BY <3>1, <3>2 DEF At
  <2>3. CASE b \in Touched(pos, end)
    <3>1. W[b] = new(b) /\ new(b) # NO_BLOCK
      BY <1>2, <1>4, <2>3, DataIsSomething
    <3>2. At(W, b, o) = new(b)[o]
      BY <3>1 DEF At
    <3>3. CASE pos <= b * B + o /\ b * B + o < end
      BY <2>1, <3>2, <3>3
    <3>4. CASE ~(pos <= b * B + o /\ b * B + o < end)
      <4>1. At(W, b, o) = ChunkBase(blks, b, pos, end, size)[o]
        BY <3>2, <3>4
      <4>2. CASE blks[b] = NO_BLOCK
        BY <2>1, <3>4, <4>1, <4>2 DEF ChunkBase, At
      <4>3. CASE blks[b] # NO_BLOCK /\ b * B >= pos /\ b * B >= size /\ end < b * B + B
        <5>1. At(W, b, o) = 0
          BY <4>1, <4>3 DEF ChunkBase
        <5>2. Place(b, o) >= size /\ Place(b, o) >= end
          BY <1>1, <2>1, <3>4, <4>3
        <5>3. At(blks, b, o) = 0
          BY <1>8, <5>2 DEF ZeroFrom
        <5> QED
          BY <2>1, <3>4, <5>1, <5>3
      <4>4. CASE blks[b] # NO_BLOCK /\ ~(b * B >= pos /\ b * B >= size /\ end < b * B + B)
        <5>1. At(W, b, o) = blks[b][o]
          BY <4>1, <4>4 DEF ChunkBase
        <5> QED
          BY <2>1, <3>4, <4>4, <5>1 DEF At
      <4> QED
        BY <4>2, <4>3, <4>4
    <3> QED
      BY <3>3, <3>4
  <2> QED
    BY <2>2, <2>3
<1>9. ZeroFrom(blks, size) \/ ZeroFrom(blks, end) => Overlaid(W, blks, pos, end, v)
  BY <1>8 DEF Overlaid
<1> QED
  BY <1>6, <1>7, <1>9

-----------------------------------------------------------------------------
(* How far a write comes, and the zones that it takes.                       *)

\* A transfer ends where it should, or at the first block that is refused.
LEMMA WriteEndFacts ==
    ASSUME NEW blks \in Maps, NEW pos \in Nat, NEW n \in Nat \ {0}, NEW zones \in Nat,
           pos + n <= MaxSize
    PROVE  LET end == WriteEnd(blks, pos, n, zones)
               refused == Refused(blks, pos, n, zones)
           IN  /\ end \in pos .. pos + n /\ end \in Positions
               /\ refused = {} => end = pos + n
               /\ refused # {} => /\ end < pos + n
                                  /\ \E r \in refused : /\ end = Bigger(pos, r * BLOCK_SIZE)
                                                        /\ \A q \in refused : r <= q
               /\ refused \in SUBSET Missing(blks, pos, n)
               /\ Missing(blks, pos, n) \in SUBSET BlockNrs
               /\ Missing(blks, pos, n) \cap MappedIn(blks) = {}
<1> DEFINE end == WriteEnd(blks, pos, n, zones)
           refused == Refused(blks, pos, n, zones)
           first == pos \div BLOCK_SIZE
           last == (pos + n - 1) \div BLOCK_SIZE
<1>1. pos \in Positions /\ pos + n - 1 \in Positions /\ pos + n \in Positions
  BY Sizes DEF Positions
<1>2. first \in Nat /\ last \in BlockNrs /\ last * BLOCK_SIZE <= pos + n - 1
  <2>1. last \in Nat /\ pos + n - 1 = last * BLOCK_SIZE + ((pos + n - 1) % BLOCK_SIZE)
         /\ (pos + n - 1) % BLOCK_SIZE \in 0 .. BLOCK_SIZE - 1
    BY <1>1, Places, PositionsInBlocks
  <2>2. last * BLOCK_SIZE \in Nat
    BY <2>1, Starts
  <2> QED
    BY <1>1, <2>1, <2>2, Places, PositionsInBlocks, Sizes
<1> HIDE DEF first, last
<1>3. Missing(blks, pos, n) \in SUBSET BlockNrs /\ \A b \in Missing(blks, pos, n) : b <= last
  <2>1. MaxSize \div BLOCK_SIZE \in Nat /\ MaxSize \in Nat
    BY Places, Sizes
  <2>2. Missing(blks, pos, n) = {b \in first .. last : blks[b] = NO_BLOCK}
    BY DEF Missing, first, last
  <2> QED
    BY <1>2, <2>1, <2>2 DEF BlockNrs
<1>4. refused \in SUBSET Missing(blks, pos, n)
  BY DEF Refused
<1>5. Missing(blks, pos, n) \cap MappedIn(blks) = {}
  BY <1>3 DEF Missing, MappedIn
<1>6. CASE refused = {}
  <2>1. end = pos + n
    BY <1>6 DEF WriteEnd
  <2> QED
    BY <1>1, <1>3, <1>4, <1>5, <1>6, <2>1
<1>7. CASE refused # {}
  <2>1. refused \in SUBSET Nat
    BY <1>3, <1>4, PositionsInBlocks
  <2>2. PICK r \in refused : r = Least(refused) /\ \A q \in refused : r <= q
    BY <1>7, <2>1, LeastExists
  <2>3. end = Bigger(pos, r * BLOCK_SIZE)
    BY <1>7, <2>2 DEF WriteEnd
  <2>4. r * BLOCK_SIZE \in Nat /\ r * BLOCK_SIZE <= last * BLOCK_SIZE /\ last * BLOCK_SIZE \in Nat
    BY <1>2, <1>3, <1>4, <2>1, <2>2, Starts, PositionsInBlocks
  <2>5. end \in pos .. pos + n - 1
    BY <1>2, <2>3, <2>4 DEF Bigger
  <2>6. end \in Positions
    BY <1>1, <2>5, Sizes DEF Positions
  <2> QED
    BY <1>3, <1>4, <1>5, <1>7, <2>2, <2>3, <2>5, <2>6
<1> QED
  BY <1>6, <1>7

\* A transfer takes no more zones than there are: if it took more, the last block
\* that it took would have been refused.
LEMMA ZonesSuffice ==
    ASSUME NEW blks \in Maps, NEW pos \in Nat, NEW n \in Nat \ {0}, NEW zones \in Nat,
           NEW size \in Nat, NEW v \in Byte, pos + n <= MaxSize
    PROVE  LET end == WriteEnd(blks, pos, n, zones)
               W == Written(blks, pos, end, size, v)
           IN  Cardinality(MappedIn(W)) - Cardinality(MappedIn(blks)) \in 0 .. zones
<1> DEFINE end == WriteEnd(blks, pos, n, zones)
           W == Written(blks, pos, end, size, v)
           M == MappedIn(blks)
           N == Touched(pos, end) \ M
           refused == Refused(blks, pos, n, zones)
           missing == Missing(blks, pos, n)
<1>1. /\ end \in pos .. pos + n
      /\ refused = {} => end = pos + n
      /\ refused # {} => \E r \in refused : /\ end = Bigger(pos, r * BLOCK_SIZE)
                                            /\ \A q \in refused : r <= q
      /\ missing \in SUBSET BlockNrs
  BY WriteEndFacts
<1>2. end \in Nat
  BY <1>1
<1> HIDE DEF end
<1>3. MappedIn(W) = M \cup Touched(pos, end)
  BY <1>2, WrittenFacts
<1> HIDE DEF W, refused, missing
<1>4. N \in SUBSET missing /\ \A b \in N : b * BLOCK_SIZE < end /\ pos < end /\ b \in BlockNrs
  <2> SUFFICES ASSUME NEW b \in N
               PROVE  b \in missing /\ b * BLOCK_SIZE < end /\ pos < end /\ b \in BlockNrs
    OBVIOUS
  <2>1. b \in BlockNrs /\ b \in Nat /\ b \notin M /\ blks[b] = NO_BLOCK
    BY PositionsInBlocks DEF Touched, MappedIn
  <2>2. b * BLOCK_SIZE \in Nat /\ (b + 1) * BLOCK_SIZE = b * BLOCK_SIZE + BLOCK_SIZE
    BY <2>1, Starts
  <2>3. pos < end /\ pos < b * BLOCK_SIZE + BLOCK_SIZE /\ b * BLOCK_SIZE < end
    BY <2>1, <2>2, Sizes DEF Touched, Place
  <2>4. pos \div BLOCK_SIZE <= b
    BY <2>1, <2>3, InBlock
  <2>5. pos + n - 1 \in Nat /\ b * BLOCK_SIZE <= pos + n - 1
    BY <1>1, <2>2, <2>3
  <2>6. b <= (pos + n - 1) \div BLOCK_SIZE
    BY <2>1, <2>5, InBlock
  <2>7. b \in missing
    BY <2>1, <2>4, <2>5, <2>6, Places DEF missing, Missing
  <2> QED
    BY <2>1, <2>3, <2>7
<1>5. IsFiniteSet(M) /\ IsFiniteSet(BlockNrs) /\ Cardinality(M) \in Nat
  BY MappedFinite, PositionsInBlocks
<1>6. IsFiniteSet(N) /\ IsFiniteSet(missing) /\ Cardinality(N) \in Nat
  BY <1>1, <1>4, <1>5, FS_Subset, FS_CardinalityType
<1>7. Cardinality(N) <= zones
  <2> SUFFICES ASSUME Cardinality(N) > zones PROVE FALSE
    BY <1>6
  <2>1. N # {}
    BY <1>6, FS_EmptySet
  <2>2. N \in SUBSET Nat /\ \A j \in N : j <= MaxSize \div BLOCK_SIZE
    BY <1>4, PositionsInBlocks DEF BlockNrs
  <2>3. PICK m \in N : \A j \in N : j <= m
    <3>1. MaxSize \div BLOCK_SIZE \in Nat
      BY Places, Sizes
    <3> QED
      BY <2>1, <2>2, <3>1, GreatestExists
  <2> DEFINE upto == {c \in missing : c <= m}
  <2>4. N \in SUBSET upto /\ IsFiniteSet(upto)
    BY <1>4, <1>6, <2>3, FS_Subset
  <2>5. Cardinality(N) <= Cardinality(upto) /\ Cardinality(upto) \in Nat
    BY <2>4, FS_Subset, FS_CardinalityType
  <2>6. m \in refused
    BY <1>4, <1>6, <2>3, <2>5 DEF refused, Refused, missing
  <2>7. PICK r \in refused : end = Bigger(pos, r * BLOCK_SIZE) /\ \A q \in refused : r <= q
    BY <1>1, <2>6
  <2>8. r \in Nat /\ m \in Nat /\ r <= m
    <3>1. refused \in SUBSET missing
      BY DEF refused, Refused, missing
    <3> QED
      BY <1>1, <2>2, <2>3, <2>6, <2>7, <3>1, PositionsInBlocks
  <2>9. r * BLOCK_SIZE \in Nat /\ m * BLOCK_SIZE \in Nat /\ r * BLOCK_SIZE <= m * BLOCK_SIZE
    BY <2>8, Starts
  <2>10. m * BLOCK_SIZE < end /\ pos < end
    BY <1>4, <2>3
  <2> QED
    BY <2>7, <2>9, <2>10 DEF Bigger
<1>8. M \cup Touched(pos, end) = M \cup N /\ M \cap N = {}
  OBVIOUS
<1> HIDE DEF M, N
<1>9. Cardinality(MappedIn(W)) = Cardinality(M) + Cardinality(N)
  <2>1. Cardinality(M \cup N) = Cardinality(M) + Cardinality(N) - Cardinality(M \cap N)
    BY <1>5, <1>6, FS_Union
  <2>2. Cardinality(M \cap N) = 0
    BY <1>8, FS_EmptySet
  <2>3. MappedIn(W) = M \cup N
    BY <1>3, <1>8
  <2> QED
    BY <1>5, <1>6, <2>1, <2>2, <2>3
<1> QED
  BY <1>5, <1>6, <1>7, <1>9 DEF W, end, M

-----------------------------------------------------------------------------
(* Truncation and deletion give back the zones that they take from the file.  *)

\* The zones given back from a position on, and those kept.
LEMMA FreedFacts ==
    ASSUME TypeOK, ModesOk, NEW from \in Nat
    PROVE  LET kept == {b \in MappedIn(blocks) : Place(b, 0) < from}
           IN  /\ Freed(blocks, from) \in Nat
               /\ Freed(blocks, from) + Cardinality(kept) = Cardinality(MappedIn(blocks))
<1> DEFINE M == MappedIn(blocks)
           kept == {b \in M : Place(b, 0) < from}
           gone == {b \in M : b * BLOCK_SIZE >= from}
<1>1. M \in SUBSET BlockNrs /\ IsFiniteSet(M) /\ Cardinality(M) \in Nat
  BY MappedFinite
<1>2. CASE i_mode = "I_IMMEDIATE"
  <2>1. M = {}
    BY <1>2, NoBlocksFacts DEF ModesOk
  <2> QED
    BY <1>2, <2>1, FS_EmptySet DEF Freed
<1>3. CASE i_mode # "I_IMMEDIATE"
  <2>1. \A b \in M : b * BLOCK_SIZE \in Nat /\ Place(b, 0) = b * BLOCK_SIZE
    <3> TAKE b \in M
    <3>1. b * BLOCK_SIZE \in Nat
      BY <1>1, PositionsInBlocks, Starts
    <3> QED
      BY <3>1 DEF Place
  <2>2. M \cap gone = gone /\ kept = M \ gone
    BY <2>1
  <2>4. gone \in SUBSET M
    OBVIOUS
  <2>5. Cardinality(gone) \in Nat /\ Freed(blocks, from) = Cardinality(gone)
    BY <1>1, <1>3, <2>4, FS_Subset, FS_CardinalityType DEF Freed
  <2> HIDE DEF gone, kept, M
  <2>3. Cardinality(kept) = Cardinality(M) - Cardinality(gone)
    BY <1>1, <2>2, FS_Difference
  <2> QED
    BY <1>1, <2>3, <2>5 DEF M, kept
<1> QED
  BY <1>2, <1>3

\* truncate_inode: the bytes before the new end stay, those behind it are zero.
LEMMA TruncateOk ==
    ASSUME TypeOK, ModesOk, ZonesAccounted, NEW newsize \in Positions,
           truncate_inode(newsize), UNCHANGED <<workload, lost>>
    PROVE  /\ blocks' \in Maps /\ free_zones' \in Nat /\ i_size' = newsize
           /\ UNCHANGED <<i_mode, i_zone>>
           /\ ZonesAccounted'
           /\ i_mode # "I_REGULAR" => blocks' = NoBlocks
           /\ \A b \in BlockNrs, o \in 0 .. BLOCK_SIZE - 1 :
                At(blocks', b, o) = IF Place(b, o) < newsize THEN At(blocks, b, o) ELSE 0
<1> DEFINE cut(b) == [o \in 0 .. BLOCK_SIZE - 1 |->
                        IF b * BLOCK_SIZE + o < newsize THEN blocks[b][o] ELSE 0]
<1>1. /\ i_size' = newsize /\ UNCHANGED <<i_mode, i_zone>>
      /\ free_zones' = free_zones + Freed(blocks, newsize)
      /\ blocks' = [b \in BlockNrs |->
                      IF b * BLOCK_SIZE >= newsize \/ blocks[b] = NO_BLOCK THEN NO_BLOCK ELSE cut(b)]
  BY DEF truncate_inode
<1>2. newsize \in Nat
  BY PositionsInBlocks
<1>3. \A b \in BlockNrs : blocks[b] # NO_BLOCK => blocks[b] \in Data
  BY DEF TypeOK, Maps
<1>4. \A b \in BlockNrs : blocks[b] # NO_BLOCK => cut(b) \in Data /\ cut(b) # NO_BLOCK
  <2> TAKE b \in BlockNrs
  <2>1. blocks[b] # NO_BLOCK => cut(b) \in Data
    BY <1>3 DEF Data, Byte
  <2> QED
    BY <2>1, DataIsSomething
<1>5. blocks' \in Maps
  BY <1>1, <1>4 DEF Maps
<1>6. \A b \in BlockNrs : b * BLOCK_SIZE \in Nat /\ Place(b, 0) = b * BLOCK_SIZE
  BY PositionsInBlocks, Starts, Sizes DEF Place
<1>7. MappedIn(blocks') = {b \in MappedIn(blocks) : Place(b, 0) < newsize}
  BY <1>1, <1>2, <1>4, <1>6 DEF MappedIn
<1>8. free_zones' \in Nat /\ ZonesAccounted'
  <2>1. /\ Freed(blocks, newsize) \in Nat
        /\ Freed(blocks, newsize) + Cardinality(MappedIn(blocks')) = Cardinality(MappedIn(blocks))
    BY <1>2, <1>7, FreedFacts
  <2>2. Cardinality(MappedIn(blocks')) \in Nat /\ Cardinality(MappedIn(blocks)) \in Nat
    BY MappedFinite
  <2>3. /\ free_zones \in Nat /\ lost \in Nat
        /\ free_zones + Cardinality(MappedIn(blocks)) + lost = workload.zones
    BY DEF TypeOK, ZonesAccounted
  <2> QED
    BY <1>1, <2>1, <2>2, <2>3 DEF ZonesAccounted
<1>9. i_mode # "I_REGULAR" => blocks' = NoBlocks
  BY <1>1 DEF ModesOk, NoBlocks
<1>10. ASSUME NEW b \in BlockNrs, NEW o \in 0 .. BLOCK_SIZE - 1
       PROVE  At(blocks', b, o) = IF Place(b, o) < newsize THEN At(blocks, b, o) ELSE 0
  <2>1. Place(b, o) = b * BLOCK_SIZE + o /\ o \in Nat /\ b * BLOCK_SIZE \in Nat
    BY <1>6, Sizes DEF Place
  <2>2. CASE b * BLOCK_SIZE >= newsize \/ blocks[b] = NO_BLOCK
    <3>1. blocks'[b] = NO_BLOCK
      BY <1>1, <2>2
    <3> QED
      BY <1>2, <2>1, <2>2, <3>1 DEF At
  <2>3. CASE ~(b * BLOCK_SIZE >= newsize \/ blocks[b] = NO_BLOCK)
    <3>1. blocks'[b] = cut(b) /\ cut(b) # NO_BLOCK /\ blocks[b] # NO_BLOCK
      BY <1>1, <1>4, <2>3
    <3>2. At(blocks', b, o) = cut(b)[o]
      BY <3>1 DEF At
    <3>3. cut(b)[o] = IF Place(b, o) < newsize THEN blocks[b][o] ELSE 0
      BY <2>1
    <3> QED
      BY <3>1, <3>2, <3>3 DEF At
  <2> QED
    BY <2>2, <2>3
<1> QED
  BY <1>1, <1>5, <1>8, <1>9, <1>10

\* put_inode of a file that is gone: all its zones are free again.
LEMMA ForgetOk ==
    ASSUME TypeOK, ModesOk, ZonesAccounted, Forget, UNCHANGED <<workload, lost>>
    PROVE  /\ i_mode' = "free" /\ i_size' = 0 /\ blocks' = NoBlocks
           /\ i_zone' \in [0 .. IMM - 1 -> Byte] /\ free_zones' \in Nat
           /\ ZonesAccounted'
<1>1. /\ i_mode' = "free" /\ i_size' = 0 /\ blocks' = NoBlocks /\ i_zone' = Zeros
      /\ free_zones' = free_zones + Freed(blocks, 0)
  BY DEF Forget
<1>2. Zeros \in [0 .. IMM - 1 -> Byte]
  BY DEF Zeros, Byte
<1>3. {b \in MappedIn(blocks) : Place(b, 0) < 0} = {}
  <2>1. \A b \in MappedIn(blocks) : Place(b, 0) \in Nat
    BY PlaceOf, PositionsInBlocks, Sizes DEF Place, MappedIn
  <2> QED
    BY <2>1
<1>4. Freed(blocks, 0) \in Nat /\ Freed(blocks, 0) + Cardinality({}) = Cardinality(MappedIn(blocks))
  BY <1>3, FreedFacts
<1>5. Cardinality({}) = 0 /\ Cardinality(MappedIn(blocks)) \in Nat /\ MappedIn(blocks') = {}
  BY <1>1, FS_EmptySet, MappedFinite, NoBlocksFacts
<1>6. /\ free_zones \in Nat /\ lost \in Nat
      /\ free_zones + Cardinality(MappedIn(blocks)) + lost = workload.zones
  BY DEF TypeOK, ZonesAccounted
<1>7. Cardinality(MappedIn(blocks')) = 0
  BY <1>5
<1>8. free_zones' \in Nat /\ free_zones' + lost = workload.zones
  BY <1>1, <1>4, <1>5, <1>6
<1> QED
  BY <1>1, <1>2, <1>6, <1>7, <1>8 DEF ZonesAccounted

-----------------------------------------------------------------------------
(* The invariant holds at the start, and every call preserves it.            *)

\* The file, its map and VFS's copy of it.
file == <<i_mode, i_size, i_zone, blocks, free_zones>>

\* What the invariant says of the file alone, carried over when it is untouched.
LEMMA FileKept ==
    ASSUME Inv, UNCHANGED <<workload, lost, file>>
    PROVE  /\ i_mode' \in FileModes /\ i_size' \in Positions
           /\ i_zone' \in [0 .. IMM - 1 -> Byte] /\ blocks' \in Maps /\ free_zones' \in Nat
           /\ workload' \in Workloads /\ lost' \in Nat
           /\ ZonesAccounted' /\ TailOk'
           /\ i_mode' # "I_REGULAR" => blocks' = NoBlocks
           /\ i_mode' = "I_IMMEDIATE" /\ "I_IMMEDIATE" \notin workload'.uses => i_size' <= IMM
  BY DEF Inv, TypeOK, ModesOk, TailOk, LeftBehind, ZonesAccounted, file

\* There is no file at first.
LEMMA InitOk == Init => Inv
<1> SUFFICES ASSUME Init PROVE Inv
  OBVIOUS
<1>1. /\ workload \in Workloads /\ linked = FALSE /\ i_mode = "free" /\ i_size = 0
      /\ i_zone = Zeros /\ blocks = NoBlocks /\ free_zones = workload.zones
      /\ lost = 0 /\ vnode = NoVnode /\ filp = [f \in Files |-> Closed]
  BY DEF Init
<1>2. workload.zones \in Nat
  BY <1>1, WorkloadsAssumption
<1>3. TypeOK
  <2>1. 0 \in Positions /\ i_zone \in [0 .. IMM - 1 -> Byte]
    BY <1>1, Sizes DEF Positions, Zeros, Byte
  <2>2. vnode \in [v_mode : FileModes, v_size : Nat]
    BY <1>1 DEF NoVnode, FileModes
  <2>3. filp \in [Files -> [open : BOOLEAN, pos : Nat, append : BOOLEAN]]
    <3>1. Closed \in [open : BOOLEAN, pos : Nat, append : BOOLEAN]
      BY DEF Closed
    <3> QED
      BY <1>1, <3>1
  <2> QED
    BY <1>1, <1>2, <2>1, <2>2, <2>3, NoBlocksFacts DEF TypeOK, FileModes
<1>4. LinksOk /\ ModesOk /\ TailOk /\ VnodeOk
  BY <1>1 DEF LinksOk, ModesOk, TailOk, VnodeOk, NoVnode, Closed
<1>5. ZonesAccounted
  BY <1>1, <1>2, NoBlocksFacts, FS_EmptySet DEF ZonesAccounted
<1> QED
  BY <1>3, <1>4, <1>5 DEF Inv

\* What opening does to the table of open files.
LEMMA OpensFacts ==
    ASSUME Inv, NEW f \in Files, NEW append \in BOOLEAN, Opens(f, append), UNCHANGED <<workload, lost>>
    PROVE  /\ filp' \in [Files -> [open : BOOLEAN, pos : Nat, append : BOOLEAN]]
           /\ ~ \A g \in Files : ~filp'[g].open
           /\ "end" \notin workload'.uses => \A g \in Files : ~filp'[g].append
  BY DEF Inv, TypeOK, VnodeOk, Opens, NewFilp

\* A new file.
LEMMA CreateOk ==
    ASSUME Inv, NEW f \in Files, NEW append \in BOOLEAN, Create(f, append), UNCHANGED <<workload, lost>>
    PROVE  Inv'
<1>1. /\ ~linked /\ i_mode = "free" /\ Opens(f, append) /\ linked' = TRUE
      /\ i_mode' = "I_IMMEDIATE" /\ i_size' = 0 /\ i_zone' = Zeros
      /\ vnode' = [v_mode |-> "I_IMMEDIATE", v_size |-> 0]
      /\ blocks' = blocks /\ free_zones' = free_zones
  BY DEF Create
<1>2. blocks = NoBlocks /\ TypeOK /\ ZonesAccounted
  BY <1>1 DEF Inv, ModesOk
<1>3. TypeOK'
  BY <1>1, <1>2, OpensFacts, Sizes DEF TypeOK, FileModes, Positions, Zeros, Byte
<1>4. LinksOk'
  BY <1>1, OpensFacts DEF LinksOk, NoVnode
<1>5. ModesOk' /\ VnodeOk'
  BY <1>1, <1>2, OpensFacts, Sizes DEF ModesOk, VnodeOk
<1>6. TailOk'
  BY <1>1 DEF TailOk, Zeros
<1>7. ZonesAccounted'
  BY <1>1, <1>2 DEF ZonesAccounted
<1> QED
  BY <1>3, <1>4, <1>5, <1>6, <1>7 DEF Inv

\* Another open file.
LEMMA OpenAgainOk ==
    ASSUME Inv, NEW f \in Files, NEW append \in BOOLEAN, OpenAgain(f, append), UNCHANGED <<workload, lost>>
    PROVE  Inv'
<1>1. /\ linked /\ Opens(f, append) /\ UNCHANGED <<linked, file>>
      /\ vnode' = IF vnode # NoVnode THEN vnode ELSE [v_mode |-> i_mode, v_size |-> i_size]
  BY DEF OpenAgain, file
<1>2. TypeOK /\ LinksOk /\ ModesOk /\ VnodeOk
  BY DEF Inv
<1>3. i_mode # "free" /\ i_size \in Nat
  BY <1>1, <1>2, PositionsInBlocks DEF LinksOk, TypeOK
<1>4. TypeOK'
  BY <1>1, <1>2, <1>3, OpensFacts, FileKept DEF TypeOK, file
<1>5. LinksOk'
  BY <1>1, <1>2, <1>3, OpensFacts DEF LinksOk, NoVnode, file
<1>6. ModesOk'
  BY <1>1, <1>2, FileKept DEF ModesOk, file
<1>7. VnodeOk'
  BY <1>1, <1>2, OpensFacts DEF VnodeOk, posix, file
<1> QED
  BY <1>1, <1>4, <1>5, <1>6, <1>7, FileKept DEF Inv

\* An open file more, and none of the bytes.
LEMMA OpenTruncOk ==
    ASSUME Inv, NEW f \in Files, NEW append \in BOOLEAN, OpenTrunc(f, append), UNCHANGED <<workload, lost>>
    PROVE  Inv'
<1>1. /\ "truncate" \in workload.uses /\ linked /\ Opens(f, append) /\ truncate_inode(0)
      /\ linked' = linked
      /\ vnode' = [v_mode |-> IF vnode # NoVnode THEN vnode.v_mode ELSE i_mode, v_size |-> 0]
  BY DEF OpenTrunc
<1>2. TypeOK /\ LinksOk /\ ModesOk /\ VnodeOk /\ ZonesAccounted
  BY DEF Inv
<1>3. i_mode # "free" /\ (vnode # NoVnode => vnode.v_mode # "free")
  BY <1>1, <1>2 DEF LinksOk
<1>4. 0 \in Positions
  BY Sizes DEF Positions
<1>5. /\ blocks' \in Maps /\ free_zones' \in Nat /\ i_size' = 0 /\ i_mode' = i_mode
      /\ i_zone' = i_zone /\ ZonesAccounted'
      /\ i_mode # "I_REGULAR" => blocks' = NoBlocks
      /\ \A b \in BlockNrs, o \in 0 .. BLOCK_SIZE - 1 :
           At(blocks', b, o) = IF Place(b, o) < 0 THEN At(blocks, b, o) ELSE 0
  BY <1>1, <1>2, <1>4, TruncateOk
<1>6. TypeOK'
  BY <1>1, <1>2, <1>4, <1>5, OpensFacts DEF TypeOK
<1>7. LinksOk'
  BY <1>1, <1>2, <1>3, <1>5, OpensFacts DEF LinksOk, NoVnode
<1>8. ModesOk'
  BY <1>1, <1>2, <1>5, Sizes DEF ModesOk
<1>9. VnodeOk'
  BY <1>1, <1>5, OpensFacts DEF VnodeOk
<1>10. TailOk'
  <2>1. ZeroFrom(blocks', 0)
    BY <1>5, AtType, PlaceOf, PositionsInBlocks DEF ZeroFrom, Place
  <2> QED
    BY <1>1, <1>5, <2>1, ZeroSame DEF TailOk
<1> QED
  BY <1>5, <1>6, <1>7, <1>8, <1>9, <1>10 DEF Inv

\* The last close takes the vnode, and a file without a name.
LEMMA CloseOk ==
    ASSUME Inv, NEW f \in Files, Close(f), UNCHANGED <<workload, lost>>
    PROVE  Inv'
<1> DEFINE shared == \E g \in Files \ {f} : filp[g].open
<1>1. /\ filp[f].open /\ filp' = [filp EXCEPT ![f] = Closed] /\ linked' = linked
      /\ shared => UNCHANGED <<file, vnode>>
      /\ ~shared => vnode' = NoVnode
      /\ ~shared /\ linked => UNCHANGED file
      /\ ~shared /\ ~linked => Forget
  BY DEF Close, file
<1>2. TypeOK /\ LinksOk /\ ModesOk /\ VnodeOk /\ ZonesAccounted
  BY DEF Inv
<1>3. /\ filp' \in [Files -> [open : BOOLEAN, pos : Nat, append : BOOLEAN]]
      /\ shared <=> ~ \A g \in Files : ~filp'[g].open
      /\ \A g \in Files : filp'[g].append => filp[g].append
  <2>1. Closed \in [open : BOOLEAN, pos : Nat, append : BOOLEAN] /\ ~Closed.open /\ ~Closed.append
    BY DEF Closed
  <2>2. filp' \in [Files -> [open : BOOLEAN, pos : Nat, append : BOOLEAN]]
    BY <1>1, <1>2, <2>1 DEF TypeOK
  <2>3. \A g \in Files : filp'[g] = IF g = f THEN Closed ELSE filp[g]
    BY <1>1, <1>2 DEF TypeOK
  <2> QED
    BY <2>1, <2>2, <2>3
<1> HIDE DEF shared
<1>4. vnode # NoVnode
  BY <1>1, <1>2 DEF LinksOk
<1>5. vnode' \in [v_mode : FileModes, v_size : Nat] /\ NoVnode.v_mode = "free"
  BY <1>1, <1>2 DEF TypeOK, NoVnode, FileModes
<1>6. CASE UNCHANGED file
  <2>1. TypeOK'
    BY <1>1, <1>2, <1>3, <1>5, <1>6, FileKept DEF TypeOK
  <2>2. LinksOk'
    BY <1>1, <1>2, <1>3, <1>4, <1>5, <1>6 DEF LinksOk, Forget, file
  <2>3. ModesOk' /\ VnodeOk'
    BY <1>1, <1>2, <1>3, <1>5, <1>6, FileKept DEF ModesOk, VnodeOk, posix, file
  <2> QED
    BY <1>6, <2>1, <2>2, <2>3, FileKept DEF Inv
<1>7. CASE ~shared /\ ~linked
  <2>1. /\ i_mode' = "free" /\ i_size' = 0 /\ blocks' = NoBlocks
        /\ i_zone' \in [0 .. IMM - 1 -> Byte] /\ free_zones' \in Nat /\ ZonesAccounted'
    BY <1>1, <1>2, <1>7, ForgetOk
  <2>2. TypeOK'
    BY <1>1, <1>2, <1>3, <1>5, <2>1, NoBlocksFacts, Sizes DEF TypeOK, FileModes, Positions
  <2>3. LinksOk'
    BY <1>1, <1>3, <1>5, <1>7, <2>1 DEF LinksOk
  <2>4. ModesOk' /\ VnodeOk' /\ TailOk'
    BY <1>1, <1>2, <1>3, <1>5, <1>7, <2>1 DEF ModesOk, VnodeOk, TailOk
  <2> QED
    BY <2>1, <2>2, <2>3, <2>4 DEF Inv
<1> QED
  BY <1>1, <1>6, <1>7

\* The name goes, and the file with it if nobody has it open.
LEMMA UnlinkOk ==
    ASSUME Inv, Unlink, UNCHANGED <<workload, lost>>
    PROVE  Inv'
<1>1. /\ linked /\ linked' = FALSE /\ vnode' = vnode /\ filp' = filp
      /\ vnode # NoVnode => UNCHANGED file
      /\ vnode = NoVnode => Forget
  BY DEF Unlink, file
<1>2. TypeOK /\ LinksOk /\ ModesOk /\ VnodeOk /\ ZonesAccounted
  BY DEF Inv
<1>3. CASE vnode # NoVnode
  <2>1. TypeOK'
    BY <1>1, <1>2, <1>3, FileKept DEF TypeOK
  <2>2. LinksOk' /\ ModesOk' /\ VnodeOk'
    BY <1>1, <1>2, <1>3, FileKept DEF LinksOk, ModesOk, VnodeOk, posix, file
  <2> QED
    BY <1>1, <1>3, <2>1, <2>2, FileKept DEF Inv
<1>4. CASE vnode = NoVnode
  <2>1. /\ i_mode' = "free" /\ i_size' = 0 /\ blocks' = NoBlocks
        /\ i_zone' \in [0 .. IMM - 1 -> Byte] /\ free_zones' \in Nat /\ ZonesAccounted'
    BY <1>1, <1>2, <1>4, ForgetOk
  <2>4. i_size' \in Positions /\ blocks' \in Maps /\ i_mode' \in FileModes
    BY <2>1, NoBlocksFacts, Sizes DEF Positions, FileModes
  <2>2. TypeOK'
    BY <1>1, <1>2, <2>1, <2>4 DEF TypeOK
  <2>3. LinksOk' /\ ModesOk' /\ VnodeOk' /\ TailOk'
    BY <1>1, <1>2, <1>4, <2>1 DEF LinksOk, ModesOk, VnodeOk, TailOk, NoVnode, posix
  <2> QED
    BY <2>1, <2>2, <2>3 DEF Inv
<1> QED
  BY <1>3, <1>4

\* What resizing does to the file, unless VFS finds that it has that length.
LEMMA ResizeFacts ==
    ASSUME Inv, NEW length \in Positions, Truncate(length), UNCHANGED <<workload, lost>>
    PROVE  /\ i_mode # "free" /\ UNCHANGED <<linked, filp>>
           /\ i_mode \in workload.uses
           /\ vnode' = IF vnode # NoVnode THEN [vnode EXCEPT !.v_size = length] ELSE NoVnode
           /\ reply' = [op |-> "resized", length |-> length]
           /\ \/ truncate_inode(length)
              \/ /\ UNCHANGED file /\ i_mode = "I_REGULAR"
                 /\ posix => i_size = length
<1> DEFINE v == IF vnode # NoVnode THEN vnode ELSE [v_mode |-> i_mode, v_size |-> i_size]
<1>1. /\ linked \/ vnode # NoVnode
      /\ i_mode \in workload.uses
      /\ vnode' = IF vnode # NoVnode THEN [v EXCEPT !.v_size = length] ELSE NoVnode
      /\ UNCHANGED <<linked, filp>> /\ reply' = [op |-> "resized", length |-> length]
      /\ IF v.v_mode = "I_REGULAR" /\ v.v_size = length THEN UNCHANGED file
         ELSE truncate_inode(length)
  BY DEF Truncate, file
<1>2. LinksOk /\ ModesOk /\ VnodeOk
  BY DEF Inv
<1>3. i_mode # "free"
  BY <1>1, <1>2 DEF LinksOk
<1>4. v.v_mode = "I_REGULAR" => i_mode = "I_REGULAR"
  BY <1>2 DEF ModesOk
<1>5. posix /\ v.v_mode = "I_REGULAR" => v.v_size = i_size
  BY <1>1, <1>2, <1>4 DEF VnodeOk
<1> HIDE DEF v
<1>6. CASE v.v_mode = "I_REGULAR" /\ v.v_size = length
  BY <1>1, <1>3, <1>4, <1>5, <1>6 DEF v
<1>7. CASE ~(v.v_mode = "I_REGULAR" /\ v.v_size = length)
  BY <1>1, <1>3, <1>7 DEF v
<1> QED
  BY <1>6, <1>7

\* A file of another length.
LEMMA TruncateCallOk ==
    ASSUME Inv, NEW length \in Positions, Truncate(length), UNCHANGED <<workload, lost>>
    PROVE  Inv'
<1>1. /\ i_mode # "free" /\ UNCHANGED <<linked, filp>>
      /\ i_mode \in workload.uses
      /\ vnode' = IF vnode # NoVnode THEN [vnode EXCEPT !.v_size = length] ELSE NoVnode
      /\ \/ truncate_inode(length)
         \/ UNCHANGED file /\ i_mode = "I_REGULAR" /\ (posix => i_size = length)
  BY ResizeFacts
<1>2. TypeOK /\ LinksOk /\ ModesOk /\ TailOk /\ VnodeOk /\ ZonesAccounted
  BY DEF Inv
<1>3. /\ vnode' \in [v_mode : FileModes, v_size : Nat] /\ vnode'.v_mode = vnode.v_mode
      /\ vnode' = NoVnode <=> vnode = NoVnode
      /\ vnode # NoVnode => vnode'.v_size = length
  <2>1. length \in Nat /\ vnode \in [v_mode : FileModes, v_size : Nat]
    BY <1>2, PositionsInBlocks DEF TypeOK
  <2>2. vnode # NoVnode => vnode.v_mode # "free"
    BY <1>2 DEF LinksOk
  <2> QED
    BY <1>1, <2>1, <2>2 DEF NoVnode
<1>4. vnode = NoVnode => vnode.v_mode = "free"
  BY DEF NoVnode
<1>5. CASE truncate_inode(length)
  <2>1. /\ blocks' \in Maps /\ free_zones' \in Nat /\ i_size' = length /\ i_mode' = i_mode
        /\ i_zone' = i_zone /\ ZonesAccounted'
        /\ i_mode # "I_REGULAR" => blocks' = NoBlocks
        /\ \A b \in BlockNrs, o \in 0 .. BLOCK_SIZE - 1 :
             At(blocks', b, o) = IF Place(b, o) < length THEN At(blocks, b, o) ELSE 0
    BY <1>2, <1>5, TruncateOk
  <2>2. TypeOK'
    BY <1>1, <1>2, <1>3, <2>1 DEF TypeOK
  <2>3. LinksOk'
    BY <1>1, <1>2, <1>3, <2>1 DEF LinksOk
  <2>4. ModesOk'
    BY <1>1, <1>2, <1>3, <2>1 DEF ModesOk
  <2>5. VnodeOk'
    BY <1>1, <1>2, <1>3, <1>4, <2>1 DEF VnodeOk
  <2>6. TailOk'
    <3>1. ZeroFrom(blocks', length)
      <4>1. length \in Nat
        BY PositionsInBlocks
      <4> QED
        BY <2>1, <4>1, AtType DEF ZeroFrom
    <3> QED
      BY <1>1, <2>1, <3>1, ZeroSame DEF TailOk
  <2> QED
    BY <2>1, <2>2, <2>3, <2>4, <2>5, <2>6 DEF Inv
<1>6. CASE UNCHANGED file /\ i_mode = "I_REGULAR" /\ (posix => i_size = length)
  <2>1. TypeOK'
    BY <1>1, <1>2, <1>3, <1>6, FileKept DEF TypeOK
  <2>2. LinksOk' /\ ModesOk'
    BY <1>1, <1>2, <1>3, <1>6, FileKept DEF LinksOk, ModesOk, file
  <2>3. VnodeOk'
    BY <1>1, <1>2, <1>3, <1>4, <1>6 DEF VnodeOk, posix, file
  <2> QED
    BY <1>6, <2>1, <2>2, <2>3, FileKept DEF Inv
<1> QED
  BY <1>1, <1>5, <1>6

\* When only positions of open files change, and no file is opened or closed.
LEMMA PositionsOk ==
    ASSUME Inv, UNCHANGED <<workload, lost, linked, file, vnode>>,
           NEW f \in Files, NEW p \in Nat, filp' = [filp EXCEPT ![f].pos = p]
    PROVE  Inv'
<1>1. TypeOK /\ LinksOk /\ ModesOk /\ VnodeOk
  BY DEF Inv
<1>2. /\ filp' \in [Files -> [open : BOOLEAN, pos : Nat, append : BOOLEAN]]
      /\ \A g \in Files : filp'[g].open = filp[g].open /\ filp'[g].append = filp[g].append
  BY <1>1 DEF TypeOK
<1>3. TypeOK'
  BY <1>1, <1>2, FileKept DEF TypeOK
<1>4. LinksOk' /\ ModesOk' /\ VnodeOk'
  BY <1>1, <1>2, FileKept DEF LinksOk, ModesOk, VnodeOk, posix, file
<1> QED
  BY <1>3, <1>4, FileKept DEF Inv

\* A file position is set.
LEMMA LseekOk ==
    ASSUME Inv, NEW f \in Files, NEW newpos \in Positions, Lseek(f, newpos), UNCHANGED <<workload, lost>>
    PROVE  Inv'
  BY PositionsOk, PositionsInBlocks DEF Lseek, file

\* What a read returns: as many bytes as the file has from there on, unless it
\* reads a part of an immediate file, and they are the bytes of the file.
LEMMA ReadFacts ==
    ASSUME Inv, NEW pos \in Nat, NEW n \in Nat \ {0}, NEW data \in ReadData(pos, n)
    PROVE  /\ Cardinality(DOMAIN data) \in Nat
           /\ (i_mode = "I_REGULAR" \/ pos >= i_size \/ (pos = 0 /\ n >= i_size)) =>
                /\ Cardinality(DOMAIN data) = IF pos >= i_size THEN 0
                                              ELSE IF n < i_size - pos THEN n ELSE i_size - pos
                /\ DOMAIN data = 0 .. Cardinality(DOMAIN data) - 1
                /\ \A i \in 0 .. Cardinality(DOMAIN data) - 1 : data[i] = Held(pos + i)
                /\ pos < i_size => data = [i \in DOMAIN data |-> data[i]]
<1> DEFINE k == Smaller(n, i_size - pos)
<1>1. i_size \in Nat
  BY PositionsInBlocks DEF Inv, TypeOK
<1>2. ASSUME NEW m \in Nat, DOMAIN data = 0 .. m - 1
      PROVE  Cardinality(DOMAIN data) = m
  <2>1. Cardinality(0 .. m - 1) = m
    <3>1. Cardinality(0 .. m - 1) = IF 0 > m - 1 THEN 0 ELSE (m - 1) - 0 + 1
      BY FS_Interval
    <3> QED
      BY <3>1
  <2> QED
    BY <1>2, <2>1
<1>3. CASE pos >= i_size
  <2>1. data = << >>
    BY <1>3 DEF ReadData
  <2>2. DOMAIN data = 1 .. 0
    BY <2>1
  <2>3. DOMAIN data = 0 .. 0 - 1
    BY <2>2
  <2>4. Cardinality(DOMAIN data) = 0
    BY <1>2, <2>3
  <2> QED
    BY <1>1, <1>3, <2>2, <2>4
<1>4. CASE pos < i_size /\ i_mode = "I_IMMEDIATE" /\ n >= i_size
  <2>1. data = [j \in 0 .. i_size - 1 |-> Held(j)]
    BY <1>1, <1>4 DEF ReadData, Contents
  <2>2. DOMAIN data = 0 .. i_size - 1 /\ \A i \in 0 .. i_size - 1 : data[i] = Held(i)
    BY <2>1
  <2>3. Cardinality(DOMAIN data) = i_size
    BY <1>1, <1>2, <2>2
  <2>4. data = [i \in DOMAIN data |-> data[i]]
    BY <2>1
  <2>5. pos = 0 => \A i \in 0 .. i_size - 1 : data[i] = Held(pos + i)
    BY <1>1, <2>2
  <2>6. i_mode # "I_REGULAR" /\ ~(pos >= i_size)
    BY <1>1, <1>4
  <2>7. pos = 0 => i_size = IF pos >= i_size THEN 0
                            ELSE IF n < i_size - pos THEN n ELSE i_size - pos
    BY <1>1, <1>4
  <2> QED
    BY <1>1, <2>2, <2>3, <2>4, <2>5, <2>6, <2>7
<1>5. CASE pos < i_size /\ i_mode = "I_IMMEDIATE" /\ n < i_size
  <2>1. k \in Nat
    BY <1>1, <1>5 DEF Smaller
  <2>2. data \in GarbageRead(pos, n)
    BY <1>1, <1>5 DEF ReadData
  <2> HIDE DEF k
  <2>3. GarbageRead(pos, n) = IF i_zone[0] = 0 THEN {[i \in 0 .. k - 1 |-> 0]} ELSE [0 .. k - 1 -> Byte]
    BY DEF GarbageRead, k
  <2>4. DOMAIN data = 0 .. k - 1
    BY <2>2, <2>3
  <2>5. Cardinality(DOMAIN data) = k
    BY <1>2, <2>1, <2>4
  <2> QED
    BY <1>1, <1>5, <2>1, <2>5
<1>6. CASE pos < i_size /\ i_mode # "I_IMMEDIATE"
  <2>1. k \in Nat /\ k = IF n < i_size - pos THEN n ELSE i_size - pos
    BY <1>1, <1>6 DEF Smaller
  <2>2. data = [i \in 0 .. k - 1 |-> Held(pos + i)]
    BY <1>1, <1>6 DEF ReadData
  <2> HIDE DEF k
  <2>3. DOMAIN data = 0 .. k - 1 /\ \A i \in 0 .. k - 1 : data[i] = Held(pos + i)
    BY <2>2
  <2>4. Cardinality(DOMAIN data) = k
    BY <1>2, <2>1, <2>3
  <2>5. data = [i \in DOMAIN data |-> data[i]]
    BY <2>2
  <2> QED
    BY <1>1, <1>6, <2>1, <2>3, <2>4, <2>5
<1> QED
  BY <1>1, <1>3, <1>4, <1>5, <1>6

\* The effect of a read: the file stays, and the position moves by what was read.
LEMMA ReadEffect ==
    ASSUME Inv, NEW f \in Files, NEW n \in Nat \ {0}, Read(f, n)
    PROVE  \E data \in ReadData(filp[f].pos, n) :
             /\ filp[f].open /\ filp[f].pos \in Nat
             /\ Cardinality(DOMAIN data) \in Nat
             /\ filp' = [filp EXCEPT ![f].pos = @ + Cardinality(DOMAIN data)]
             /\ reply' = [op |-> "read", pos |-> filp[f].pos, n |-> n,
                          count |-> Cardinality(DOMAIN data), data |-> data]
             /\ UNCHANGED <<linked, file, vnode>>
             /\ \/ "part" \in workload.uses \/ i_mode = "I_REGULAR"
                \/ filp[f].pos >= i_size \/ (filp[f].pos = 0 /\ n >= i_size)
<1>1. PICK data \in ReadData(filp[f].pos, n) :
             /\ filp' = [filp EXCEPT ![f].pos = @ + Cardinality(DOMAIN data)]
             /\ reply' = [op |-> "read", pos |-> filp[f].pos, n |-> n,
                          count |-> Cardinality(DOMAIN data), data |-> data]
  BY DEF Read
<1>2. /\ filp[f].open /\ UNCHANGED <<linked, file, vnode>>
      /\ \/ "part" \in workload.uses \/ i_mode = "I_REGULAR"
         \/ filp[f].pos >= i_size \/ (filp[f].pos = 0 /\ n >= i_size)
  BY DEF Read, file
<1>3. filp[f].pos \in Nat
  BY DEF Inv, TypeOK
<1>4. Cardinality(DOMAIN data) \in Nat
  BY <1>3, ReadFacts
<1> QED
  BY <1>1, <1>2, <1>3, <1>4

\* A read leaves the file as it is.
LEMMA ReadOk ==
    ASSUME Inv, NEW f \in Files, NEW n \in Nat \ {0}, Read(f, n), UNCHANGED <<workload, lost>>
    PROVE  Inv'
<1>1. PICK data \in ReadData(filp[f].pos, n) :
        /\ filp[f].pos \in Nat /\ Cardinality(DOMAIN data) \in Nat
        /\ filp' = [filp EXCEPT ![f].pos = @ + Cardinality(DOMAIN data)]
        /\ UNCHANGED <<linked, file, vnode>>
  BY ReadEffect
<1>2. filp' = [filp EXCEPT ![f].pos = filp[f].pos + Cardinality(DOMAIN data)]
  BY <1>1
<1>3. filp[f].pos + Cardinality(DOMAIN data) \in Nat
  BY <1>1
<1> QED
  BY <1>1, <1>2, <1>3, PositionsOk

\* A read into a buffer that is not there changes nothing.
LEMMA ReadFaultOk ==
    ASSUME Inv, NEW f \in Files, ReadFault(f), UNCHANGED <<workload, lost>>
    PROVE  Inv'
<1>1. UNCHANGED <<linked, file, vnode, filp>>
  BY DEF ReadFault, file
<1>2. TypeOK' /\ LinksOk' /\ ModesOk' /\ VnodeOk'
  BY <1>1, FileKept DEF Inv, TypeOK, LinksOk, ModesOk, VnodeOk, posix, file
<1> QED
  BY <1>1, <1>2, FileKept DEF Inv

-----------------------------------------------------------------------------
(* What a write does to the file: which bytes change, and that the zones     *)
(* suffice.                                                                  *)

\* A byte of a file in blocks.
LEMMA HeldInBlocks ==
    ASSUME i_mode # "I_IMMEDIATE", NEW k
    PROVE  Held(k) = ByteOf(blocks, k)
  BY DEF Held, ByteOf, At

\* A zero byte behind the end.
LEMMA ZeroByte ==
    ASSUME NEW blks, NEW size \in Nat, ZeroFrom(blks, size), NEW k \in Positions, k >= size
    PROVE  ByteOf(blks, k) = 0
<1> DEFINE b == k \div BLOCK_SIZE
           o == k % BLOCK_SIZE
<1>1. b \in BlockNrs /\ o \in 0 .. BLOCK_SIZE - 1 /\ Place(b, o) = k
  BY PositionsInBlocks, Places DEF Place
<1> HIDE DEF b, o
<1> QED
  BY <1>1 DEF ByteOf, ZeroFrom, b, o

\* The first block of a file that was immediate: its bytes, and nothing else.
LEMMA ConvertedFacts ==
    ASSUME TypeOK, i_mode = "I_IMMEDIATE"
    PROVE  /\ Converted \in Maps /\ MappedIn(Converted) = {0}
           /\ i_size <= IMM =>
                /\ ZeroFrom(Converted, i_size)
                /\ \A k \in 0 .. i_size - 1 : ByteOf(Converted, k) = Held(k)
<1> DEFINE first == [o \in 0 .. BLOCK_SIZE - 1 |-> IF o < i_size THEN Held(o) ELSE 0]
<1>1. i_size \in Nat
  BY PositionsInBlocks DEF TypeOK
<1>2. \A o \in 0 .. BLOCK_SIZE - 1 : Held(o) \in Byte
  <2> TAKE o \in 0 .. BLOCK_SIZE - 1
  <2>1. o < IMM => o \in 0 .. IMM - 1
    BY Sizes
  <2>2. 0 \in Byte
    BY DEF Byte
  <2> QED
    BY <2>1, <2>2 DEF Held, TypeOK
<1>3. first \in Data /\ first # NO_BLOCK
  BY <1>2, DataIsSomething DEF Data, Byte
<1>4. /\ Converted[0] = first /\ Converted \in Maps
      /\ \A b \in BlockNrs : b # 0 => Converted[b] = NO_BLOCK
  BY <1>3, PositionsInBlocks DEF Converted, NoBlocks, Maps
<1>5. MappedIn(Converted) = {0}
  BY <1>3, <1>4, PositionsInBlocks DEF MappedIn
<1>6. \A b \in BlockNrs, o \in 0 .. BLOCK_SIZE - 1 :
        At(Converted, b, o) = IF b = 0 /\ o < i_size THEN Held(o) ELSE 0
  BY <1>3, <1>4 DEF At
<1>7. ASSUME i_size <= IMM PROVE ZeroFrom(Converted, i_size)
  <2> SUFFICES ASSUME NEW b \in BlockNrs, NEW o \in 0 .. BLOCK_SIZE - 1, Place(b, o) >= i_size
               PROVE  At(Converted, b, o) = 0
    BY DEF ZeroFrom
  <2>1. b = 0 => Place(b, o) = o
    BY Sizes DEF Place
  <2> QED
    BY <1>1, <1>6, <2>1
<1>8. ASSUME i_size <= IMM, NEW k \in 0 .. i_size - 1 PROVE ByteOf(Converted, k) = Held(k)
  <2>1. k \in Nat /\ k < BLOCK_SIZE /\ k \in 0 .. BLOCK_SIZE - 1
    BY <1>1, <1>8, Sizes
  <2>2. 0 * BLOCK_SIZE + k = k
    BY <2>1, Sizes
  <2>3. k \div BLOCK_SIZE = 0 /\ k % BLOCK_SIZE = k
    BY <2>1, <2>2, PlaceOf
  <2> QED
    BY <1>1, <1>6, <1>8, <2>1, <2>3, PositionsInBlocks DEF ByteOf
<1> QED
  BY <1>4, <1>5, <1>7, <1>8

\* What the chunk loop stores, in types and zones.
LEMMA StoredOk ==
    ASSUME NEW blks \in Maps, NEW new \in Maps, i_size \in Positions, NEW size \in Positions,
           NEW zones \in Nat, NEW end \in Positions,
           Cardinality(MappedIn(new)) - Cardinality(MappedIn(blks)) \in 0 .. zones,
           Stored(blks, new, size, zones, end)
    PROVE  /\ blocks' \in Maps /\ free_zones' \in Nat /\ i_size' \in Positions
           /\ i_mode' = "I_REGULAR" /\ i_zone' \in [0 .. IMM - 1 -> Byte]
           /\ free_zones' + Cardinality(MappedIn(blocks')) = zones + Cardinality(MappedIn(blks))
<1>1. /\ blocks' = new
      /\ free_zones' = zones - (Cardinality(MappedIn(new)) - Cardinality(MappedIn(blks)))
      /\ i_size' = IF end > i_size THEN end ELSE size
      /\ i_mode' = "I_REGULAR" /\ i_zone' = Zeros
  BY DEF Stored
<1>2. Cardinality(MappedIn(new)) \in Nat /\ Cardinality(MappedIn(blks)) \in Nat
  BY MappedFinite
<1>3. /\ free_zones' \in Nat
      /\ free_zones' + Cardinality(MappedIn(blocks')) = zones + Cardinality(MappedIn(blks))
  BY <1>1, <1>2
<1>4. Zeros \in [0 .. IMM - 1 -> Byte]
  BY DEF Zeros, Byte
<1> QED
  BY <1>1, <1>3, <1>4

\* A write into blocks has zones enough, and loses none.
LEMMA WriteBlocksOk ==
    ASSUME NEW blks \in Maps, i_size \in Positions, NEW size \in Positions, NEW zones \in Nat,
           NEW pos \in Nat, NEW n \in Nat \ {0}, NEW v \in Byte, pos + n <= MaxSize,
           WriteBlocks(blks, size, zones, pos, n, v)
    PROVE  /\ blocks' \in Maps /\ free_zones' \in Nat /\ i_size' \in Positions
           /\ i_mode' = "I_REGULAR" /\ i_zone' \in [0 .. IMM - 1 -> Byte]
           /\ free_zones' + Cardinality(MappedIn(blocks')) = zones + Cardinality(MappedIn(blks))
<1> DEFINE end == WriteEnd(blks, pos, n, zones)
           W == Written(blks, pos, end, size, v)
<1>1. Stored(blks, W, size, zones, end)
  BY DEF WriteBlocks
<1>2. end \in pos .. pos + n /\ end \in Positions
  BY WriteEndFacts
<1>3. size \in Nat /\ end \in Nat
  BY <1>2, PositionsInBlocks
<1>4. Cardinality(MappedIn(W)) - Cardinality(MappedIn(blks)) \in 0 .. zones
  BY <1>3, ZonesSuffice
<1> HIDE DEF end
<1>5. W \in Maps
  BY <1>3, WrittenFacts
<1> HIDE DEF W
<1> QED
  BY <1>1, <1>2, <1>4, <1>5, StoredOk

\* The bytes of a file in whose blocks bytes v were put at [pos, end).
LEMMA StoredBytes ==
    ASSUME NEW blks \in Maps, NEW new \in Maps, i_size \in Positions, NEW size \in Positions,
           NEW zones, NEW pos \in Nat, NEW end \in Nat, NEW v \in Byte,
           Stored(blks, new, size, zones, end),
           Overlaid(new, blks, pos, end, v),
           ZeroFrom(blks, i_size), size = i_size \/ end > i_size
    PROVE  /\ i_size' = Bigger(i_size, end)
           /\ ZeroFrom(blocks', i_size')
           /\ \A k \in Positions :
                ByteOf(blocks', k) = IF pos <= k /\ k < end THEN v ELSE ByteOf(blks, k)
<1>1. /\ blocks' = new
      /\ i_size' = IF end > i_size THEN end ELSE size
  BY DEF Stored
<1>2. i_size \in Nat
  BY PositionsInBlocks
<1>3. i_size' = Bigger(i_size, end) /\ i_size' \in Nat /\ i_size' >= i_size /\ i_size' >= end
  BY <1>1, <1>2 DEF Bigger
<1>4. ASSUME NEW k \in Positions
      PROVE  ByteOf(new, k) = IF pos <= k /\ k < end THEN v ELSE ByteOf(blks, k)
  <2> DEFINE b == k \div BLOCK_SIZE
             o == k % BLOCK_SIZE
  <2>1. b \in BlockNrs /\ o \in 0 .. BLOCK_SIZE - 1 /\ Place(b, o) = k
    BY PositionsInBlocks, Places DEF Place
  <2> HIDE DEF b, o
  <2>2. ASSUME NEW c \in BlockNrs, NEW p \in 0 .. BLOCK_SIZE - 1, Place(c, p) = k
        PROVE  At(new, c, p) = IF pos <= k /\ k < end THEN v ELSE At(blks, c, p)
    BY <2>2 DEF Overlaid
  <2> QED
    BY <2>1, <2>2 DEF ByteOf, b, o
<1>5. ZeroFrom(new, i_size')
  <2> SUFFICES ASSUME NEW b \in BlockNrs, NEW o \in 0 .. BLOCK_SIZE - 1, Place(b, o) >= i_size'
               PROVE  At(new, b, o) = 0
    BY DEF ZeroFrom
  <2>1. Place(b, o) \in Nat
    BY AtType
  <2>2. Place(b, o) >= i_size /\ ~(Place(b, o) < end)
    BY <1>2, <1>3, <2>1
  <2>3. At(new, b, o) = IF pos <= Place(b, o) /\ Place(b, o) < end THEN v ELSE At(blks, b, o)
    BY DEF Overlaid
  <2>4. At(blks, b, o) = 0
    BY <2>2 DEF ZeroFrom
  <2> QED
    BY <2>2, <2>3, <2>4
<1> QED
  BY <1>1, <1>3, <1>4, <1>5

\* What is zero from a position on is so from every later one.
LEMMA ZeroLater ==
    ASSUME NEW blks \in Maps, NEW size \in Nat, NEW end \in Nat, end >= size,
           ZeroFrom(blks, size)
    PROVE  ZeroFrom(blks, end)
<1> SUFFICES ASSUME NEW b \in BlockNrs, NEW o \in 0 .. BLOCK_SIZE - 1, Place(b, o) >= end
             PROVE  At(blks, b, o) = 0
  BY DEF ZeroFrom
<1>1. Place(b, o) \in Nat
  BY AtType
<1> QED
  BY <1>1 DEF ZeroFrom

\* The bytes of a file that is written in blocks.
LEMMA WriteBlocksBytes ==
    ASSUME NEW blks \in Maps, i_size \in Positions, NEW size \in Positions, NEW zones \in Nat,
           NEW pos \in Nat, NEW n \in Nat \ {0}, NEW v \in Byte, pos + n <= MaxSize,
           WriteBlocks(blks, size, zones, pos, n, v),
           ZeroFrom(blks, i_size),
           size = i_size \/ WriteEnd(blks, pos, n, zones) > i_size
    PROVE  LET end == WriteEnd(blks, pos, n, zones)
           IN  /\ i_size' = Bigger(i_size, end)
               /\ ZeroFrom(blocks', i_size')
               /\ \A k \in Positions :
                    ByteOf(blocks', k) = IF pos <= k /\ k < end THEN v ELSE ByteOf(blks, k)
<1> DEFINE end == WriteEnd(blks, pos, n, zones)
           W == Written(blks, pos, end, size, v)
<1>1. Stored(blks, W, size, zones, end)
  BY DEF WriteBlocks
<1>2. end \in pos .. pos + n
  BY WriteEndFacts
<1>3. size \in Nat /\ end \in Nat /\ i_size \in Nat
  BY <1>2, PositionsInBlocks
<1>4. size = i_size \/ end > i_size
  OBVIOUS
<1> HIDE DEF end
<1>6. ZeroFrom(blks, size) \/ ZeroFrom(blks, end)
  BY <1>3, <1>4, ZeroLater
<1>7. W \in Maps /\ Overlaid(W, blks, pos, end, v)
  BY <1>3, <1>6, WrittenFacts
<1> HIDE DEF W
<1>8. /\ i_size' = Bigger(i_size, end)
      /\ ZeroFrom(blocks', i_size')
      /\ \A k \in Positions :
           ByteOf(blocks', k) = IF pos <= k /\ k < end THEN v ELSE ByteOf(blks, k)
  BY <1>1, <1>3, <1>4, <1>7, StoredBytes
<1> QED
  BY <1>8 DEF end

\* The conversion of a file whose inode is too small for a write finds no zone.
ConversionFails(pos, n) == i_mode = "I_IMMEDIATE" /\ pos + n > IMM /\ free_zones = 0

\* fs_readwrite, WRITING, takes one of four ways.
LEMMA MfsWriteCases ==
    ASSUME Inv, NEW pos \in Nat, NEW n \in Nat \ {0}, NEW v, i_mode # "free",
           MfsWrite(pos, n, v)
    PROVE  \/ /\ i_mode = "I_REGULAR" /\ WriteBlocks(blocks, i_size, free_zones, pos, n, v)
              /\ ~ConversionFails(pos, n)
              /\ MfsWriteOK(pos, n) <=> Refused(blocks, pos, n, free_zones) = {}
           \/ /\ i_mode = "I_IMMEDIATE" /\ pos + n <= IMM /\ WriteInode(pos, n, v)
              /\ ~ConversionFails(pos, n) /\ MfsWriteOK(pos, n)
           \/ /\ i_mode = "I_IMMEDIATE" /\ pos + n > IMM /\ ConvertFails
              /\ ConversionFails(pos, n) /\ ~MfsWriteOK(pos, n)
           \/ /\ i_mode = "I_IMMEDIATE" /\ pos + n > IMM /\ free_zones - 1 \in Nat
              /\ WriteBlocks(Converted, 0, free_zones - 1, pos, n, v)
              /\ ~ConversionFails(pos, n)
              /\ MfsWriteOK(pos, n) <=> Refused(Converted, pos, n, free_zones - 1) = {}
<1>1. i_mode \in {"I_IMMEDIATE", "I_REGULAR"} /\ free_zones \in Nat
  BY DEF Inv, TypeOK, FileModes
<1>2. CASE i_mode = "I_REGULAR"
  BY <1>2 DEF MfsWrite, MfsWriteOK, ConversionFails
<1>3. CASE i_mode = "I_IMMEDIATE" /\ pos + n <= IMM
  BY <1>3, Sizes DEF MfsWrite, MfsWriteOK, ConversionFails
<1>4. CASE i_mode = "I_IMMEDIATE" /\ pos + n > IMM
  <2>1. i_mode # "I_REGULAR" /\ ~(pos + n <= IMM)
    BY <1>4, Sizes
  <2>2. CASE free_zones = 0
    BY <1>1, <1>4, <2>1, <2>2 DEF MfsWrite, MfsWriteOK, ConversionFails
  <2>3. CASE free_zones # 0
    BY <1>1, <1>4, <2>1, <2>3 DEF MfsWrite, MfsWriteOK, ConversionFails
  <2> QED
    BY <2>2, <2>3
<1>5. pos + n <= IMM \/ pos + n > IMM
  BY Sizes
<1> QED
  BY <1>1, <1>2, <1>3, <1>4, <1>5

\* What every write leaves in order, whatever becomes of it.
FileWritten ==
    /\ blocks' \in Maps /\ free_zones' \in Nat /\ lost' \in Nat /\ i_size' \in Positions
    /\ i_mode' \in {"I_IMMEDIATE", "I_REGULAR"} /\ i_zone' \in [0 .. IMM - 1 -> Byte]
    /\ ZonesAccounted'
    /\ i_mode = "I_REGULAR" => i_mode' = "I_REGULAR"
    /\ i_mode' = "I_IMMEDIATE" => /\ blocks' = NoBlocks
                                  /\ i_size <= IMM => i_size' <= IMM

\* The zones of a file that is still immediate are free or lost.
LEMMA NoneMapped ==
    ASSUME Inv, i_mode = "I_IMMEDIATE"
    PROVE  blocks = NoBlocks /\ Cardinality(MappedIn(blocks)) = 0
  BY NoBlocksFacts, FS_EmptySet DEF Inv, ModesOk

\* Types, modes and zones after a write from a buffer that is there.
LEMMA MfsWriteOk ==
    ASSUME Inv, NEW pos \in Nat, NEW n \in Nat \ {0}, NEW v \in Byte, i_mode # "free",
           pos + n <= MaxSize, MfsWrite(pos, n, v), UNCHANGED <<workload, lost>>
    PROVE  FileWritten
<1>1. TypeOK /\ ZonesAccounted /\ ModesOk
  BY DEF Inv
<1>2. /\ workload.zones \in Nat /\ free_zones \in Nat /\ lost \in Nat /\ i_size \in Nat
      /\ blocks \in Maps /\ free_zones + Cardinality(MappedIn(blocks)) + lost = workload.zones
      /\ "fault" \notin workload.uses => lost = 0
  BY <1>1, WorkloadsAssumption, PositionsInBlocks DEF TypeOK, ZonesAccounted
<1>3. 0 \in Positions /\ i_size \in Positions
  BY <1>1, Sizes DEF Positions, TypeOK
<1>4. i_mode = "I_IMMEDIATE" => blocks = NoBlocks /\ Cardinality(MappedIn(blocks)) = 0
  BY NoneMapped
<1>9. Cardinality(MappedIn(blocks)) \in Nat /\ Cardinality(MappedIn(blocks')) \in Nat
  BY MappedFinite
<1>5. CASE i_mode = "I_REGULAR" /\ WriteBlocks(blocks, i_size, free_zones, pos, n, v)
  <2>1. /\ blocks' \in Maps /\ free_zones' \in Nat /\ i_size' \in Positions
        /\ i_mode' = "I_REGULAR" /\ i_zone' \in [0 .. IMM - 1 -> Byte]
        /\ free_zones' + Cardinality(MappedIn(blocks'))
             = free_zones + Cardinality(MappedIn(blocks))
    BY <1>2, <1>3, <1>5, WriteBlocksOk
  <2>2. ZonesAccounted'
    BY <1>2, <1>9, <2>1 DEF ZonesAccounted
  <2> QED
    BY <1>2, <2>1, <2>2 DEF FileWritten
<1>6. CASE i_mode = "I_IMMEDIATE" /\ pos + n <= IMM /\ WriteInode(pos, n, v)
  <2>1. /\ i_zone' = [k \in 0 .. IMM - 1 |-> IF pos <= k /\ k < pos + n THEN v ELSE i_zone[k]]
        /\ i_size' = Bigger(i_size, pos + n)
        /\ UNCHANGED <<i_mode, blocks, free_zones>>
    BY <1>6 DEF WriteInode
  <2>2. i_zone' \in [0 .. IMM - 1 -> Byte]
    BY <1>1, <2>1 DEF TypeOK
  <2>3. i_size' \in Positions /\ (i_size <= IMM => i_size' <= IMM)
    BY <1>2, <1>3, <1>6, <2>1, Sizes DEF Bigger, Positions
  <2> QED
    BY <1>1, <1>2, <1>4, <1>6, <2>1, <2>2, <2>3 DEF FileWritten, ZonesAccounted
<1>7. CASE i_mode = "I_IMMEDIATE" /\ ConvertFails
  <2>1. i_mode' = "I_REGULAR" /\ i_size' = 0 /\ i_zone' = Zeros /\ UNCHANGED <<blocks, free_zones>>
    BY <1>7 DEF ConvertFails
  <2>2. Zeros \in [0 .. IMM - 1 -> Byte]
    BY DEF Zeros, Byte
  <2> QED
    BY <1>1, <1>2, <1>3, <1>7, <2>1, <2>2 DEF FileWritten, ZonesAccounted
<1>8. CASE /\ i_mode = "I_IMMEDIATE" /\ free_zones - 1 \in Nat
           /\ WriteBlocks(Converted, 0, free_zones - 1, pos, n, v)
  <2>1. Converted \in Maps /\ MappedIn(Converted) = {0}
    BY <1>1, <1>8, ConvertedFacts
  <2>2. Cardinality(MappedIn(Converted)) = 1
    BY <2>1, FS_Singleton
  <2>4. /\ blocks' \in Maps /\ free_zones' \in Nat /\ i_size' \in Positions
        /\ i_mode' = "I_REGULAR" /\ i_zone' \in [0 .. IMM - 1 -> Byte]
        /\ free_zones' + Cardinality(MappedIn(blocks'))
             = (free_zones - 1) + Cardinality(MappedIn(Converted))
    BY <1>2, <1>3, <1>8, <2>1, WriteBlocksOk
  <2>5. ZonesAccounted'
    BY <1>2, <1>4, <1>8, <1>9, <2>2, <2>4 DEF ZonesAccounted
  <2> QED
    BY <1>2, <1>8, <2>4, <2>5 DEF FileWritten
<1> QED
  BY <1>5, <1>6, <1>7, <1>8, MfsWriteCases

-----------------------------------------------------------------------------
(* A write from a buffer that has only its first bytes.                      *)

\* The block whose chunk cannot be copied, where the bytes end that could, and what
\* the blocks are then.
BadBlock(pos, good) == (pos + good) \div BLOCK_SIZE
FaultEnd(pos, good) == Bigger(pos, BadBlock(pos, good) * BLOCK_SIZE)
FaultNew(blks, size, pos, n, v, good) ==
    [Written(blks, pos, FaultEnd(pos, good), size, v) EXCEPT
       ![BadBlock(pos, good)] = ChunkBase(blks, BadBlock(pos, good), pos, pos + n, size)]

\* Where the bad block is.
LEMMA BadBlockFacts ==
    ASSUME NEW pos \in Nat, NEW good \in Nat, pos + good <= MaxSize
    PROVE  LET bad == BadBlock(pos, good)
               end == FaultEnd(pos, good)
           IN  /\ bad \in BlockNrs /\ bad \in Nat /\ bad * BLOCK_SIZE \in Nat
               /\ bad * BLOCK_SIZE <= pos + good /\ pos + good < bad * BLOCK_SIZE + BLOCK_SIZE
               /\ end \in pos .. pos + good /\ end \in Nat /\ end \in Positions
               /\ end = pos \/ end = bad * BLOCK_SIZE
               /\ end >= bad * BLOCK_SIZE
<1> DEFINE bad == BadBlock(pos, good)
           end == FaultEnd(pos, good)
<1>1. pos + good \in Nat /\ pos + good \in Positions
  BY Sizes DEF Positions
<1>2. /\ bad \in BlockNrs /\ bad \in Nat
      /\ (pos + good) % BLOCK_SIZE \in 0 .. BLOCK_SIZE - 1
      /\ pos + good = bad * BLOCK_SIZE + ((pos + good) % BLOCK_SIZE)
  BY <1>1, Places, PositionsInBlocks DEF BadBlock
<1>3. end = Bigger(pos, bad * BLOCK_SIZE)
  BY DEF FaultEnd
<1> HIDE DEF bad, end
<1>4. bad * BLOCK_SIZE \in Nat
  BY <1>2, Starts
<1>5. bad * BLOCK_SIZE <= pos + good /\ pos + good < bad * BLOCK_SIZE + BLOCK_SIZE
  BY <1>1, <1>2, <1>4, Sizes
<1>6. /\ end \in pos .. pos + good /\ end \in Nat
      /\ end = pos \/ end = bad * BLOCK_SIZE
      /\ end >= bad * BLOCK_SIZE
  BY <1>1, <1>3, <1>4, <1>5 DEF Bigger
<1>7. end \in Positions
  BY <1>6, Sizes DEF Positions
<1> QED
  BY <1>2, <1>4, <1>5, <1>6, <1>7 DEF bad, end

\* A chunk of a block that is zero behind 'size' holds what the block held.
LEMMA BaseAt ==
    ASSUME NEW blks \in Maps, NEW b \in BlockNrs, NEW pos \in Nat, NEW end \in Nat,
           NEW size \in Nat, ZeroFrom(blks, size) \/ blks[b] = NO_BLOCK,
           NEW o \in 0 .. BLOCK_SIZE - 1
    PROVE  ChunkBase(blks, b, pos, end, size)[o] = At(blks, b, o)
<1>1. b \in Nat /\ b * BLOCK_SIZE \in Nat /\ o \in Nat
  BY PositionsInBlocks, Starts
<1>2. CASE blks[b] = NO_BLOCK
  BY <1>2 DEF ChunkBase, At
<1>3. CASE blks[b] # NO_BLOCK /\ b * BLOCK_SIZE >= size
  <2>1. At(blks, b, o) = 0
    BY <1>1, <1>3 DEF ZeroFrom, Place
  <2> QED
    BY <1>3, <2>1 DEF ChunkBase, At
<1>4. CASE blks[b] # NO_BLOCK /\ ~(b * BLOCK_SIZE >= size)
  BY <1>4 DEF ChunkBase, At
<1> QED
  BY <1>2, <1>3, <1>4

\* A chunk before the new bytes go in is a block.
LEMMA BaseType ==
    ASSUME NEW blks \in Maps, NEW b \in BlockNrs, NEW pos, NEW end, NEW size
    PROVE  ChunkBase(blks, b, pos, end, size) \in Data
<1>1. [o \in 0 .. BLOCK_SIZE - 1 |-> 0] \in Data
  BY DEF Data, Byte
<1>2. blks[b] # NO_BLOCK => blks[b] \in Data
  BY DEF Maps
<1> QED
  BY <1>1, <1>2 DEF ChunkBase

\* The blocks after the loop stopped at the bad one: that is mapped too, and if the
\* file is zero behind its end only the bytes before the bad chunk are new.
LEMMA FaultNewFacts ==
    ASSUME NEW blks \in Maps, NEW pos \in Nat, NEW n \in Nat \ {0}, NEW size \in Nat,
           NEW v \in Byte, NEW good \in 0 .. n - 1, pos + n <= MaxSize
    PROVE  LET bad == BadBlock(pos, good)
               end == FaultEnd(pos, good)
               new == FaultNew(blks, size, pos, n, v, good)
           IN  /\ new \in Maps
               /\ MappedIn(new) = MappedIn(blks) \cup Touched(pos, end) \cup {bad}
               /\ ZeroFrom(blks, size) \/ (ZeroFrom(blks, end) /\ blks[bad] = NO_BLOCK) =>
                    Overlaid(new, blks, pos, end, v)
<1> DEFINE bad == BadBlock(pos, good)
           end == FaultEnd(pos, good)
           new == FaultNew(blks, size, pos, n, v, good)
           W == Written(blks, pos, end, size, v)
           base == ChunkBase(blks, bad, pos, pos + n, size)
<1>1. /\ bad \in BlockNrs /\ bad \in Nat /\ bad * BLOCK_SIZE \in Nat
      /\ end = pos \/ end = bad * BLOCK_SIZE
      /\ end \in Nat
  <2>1. good \in Nat /\ pos + good <= MaxSize
    BY Sizes
  <2> QED
    BY <2>1, BadBlockFacts
<1>2. new = [W EXCEPT ![bad] = base]
  BY DEF FaultNew
<1> HIDE DEF bad, end, new
<1>3. /\ W \in Maps
      /\ MappedIn(W) = MappedIn(blks) \cup Touched(pos, end)
      /\ ZeroFrom(blks, size) \/ ZeroFrom(blks, end) => Overlaid(W, blks, pos, end, v)
  BY <1>1, WrittenFacts
<1>4. base \in Data /\ base # NO_BLOCK
  BY <1>1, BaseType, DataIsSomething
<1>5. ASSUME ZeroFrom(blks, size) \/ blks[bad] = NO_BLOCK, NEW o \in 0 .. BLOCK_SIZE - 1
      PROVE  base[o] = At(blks, bad, o)
  <2>1. pos + n \in Nat
    OBVIOUS
  <2> QED
    BY <1>1, <1>5, <2>1, BaseAt
<1> HIDE DEF W, base
<1>6. new \in Maps
  BY <1>2, <1>3, <1>4 DEF Maps
<1>7. new[bad] = base /\ \A b \in BlockNrs : b # bad => new[b] = W[b]
  BY <1>1, <1>2, <1>3 DEF Maps
<1>8. MappedIn(new) = MappedIn(blks) \cup Touched(pos, end) \cup {bad}
  <2>1. MappedIn(new) = MappedIn(W) \cup {bad}
    BY <1>1, <1>4, <1>7 DEF MappedIn
  <2> QED
    BY <1>3, <2>1
<1>9. ASSUME ZeroFrom(blks, size) \/ (ZeroFrom(blks, end) /\ blks[bad] = NO_BLOCK)
      PROVE  Overlaid(new, blks, pos, end, v)
  <2> SUFFICES ASSUME NEW b \in BlockNrs, NEW o \in 0 .. BLOCK_SIZE - 1
               PROVE  At(new, b, o) = IF pos <= Place(b, o) /\ Place(b, o) < end THEN v
                                      ELSE At(blks, b, o)
    BY DEF Overlaid
  <2>1. CASE b # bad
    <3>1. At(new, b, o) = At(W, b, o)
      BY <1>7, <2>1 DEF At
    <3> QED
      BY <1>3, <1>9, <3>1 DEF Overlaid
  <2>2. CASE b = bad
    <3>1. At(new, b, o) = At(blks, b, o)
      BY <1>4, <1>5, <1>7, <1>9, <2>2 DEF At
    <3>2. ~(pos <= Place(b, o) /\ Place(b, o) < end)
      BY <1>1, <2>2 DEF Place
    <3> QED
      BY <3>1, <3>2
  <2> QED
    BY <2>1, <2>2
<1> QED
  BY <1>6, <1>8, <1>9 DEF new, bad, end

\* The bad block takes its zone as any other does.
LEMMA FaultZones ==
    ASSUME NEW blks \in Maps, NEW pos \in Nat, NEW n \in Nat \ {0}, NEW zones \in Nat,
           NEW size \in Nat, NEW v \in Byte, NEW good \in 0 .. n - 1, pos + n <= MaxSize,
           Refused(blks, pos, good + 1, zones) = {}
    PROVE  Cardinality(MappedIn(FaultNew(blks, size, pos, n, v, good)))
             - Cardinality(MappedIn(blks)) \in 0 .. zones
<1> DEFINE bad == BadBlock(pos, good)
           end == FaultEnd(pos, good)
           new == FaultNew(blks, size, pos, n, v, good)
           whole == pos + (good + 1)
           W == Written(blks, pos, whole, size, v)
<1>1. /\ good \in Nat /\ pos + good <= MaxSize /\ good + 1 \in Nat \ {0}
      /\ pos + (good + 1) <= MaxSize /\ whole \in Nat /\ whole = pos + good + 1
  BY Sizes
<1>2. /\ bad \in BlockNrs /\ bad \in Nat /\ bad * BLOCK_SIZE \in Nat
      /\ bad * BLOCK_SIZE <= pos + good /\ pos + good < bad * BLOCK_SIZE + BLOCK_SIZE
      /\ end \in pos .. pos + good
  BY <1>1, BadBlockFacts
<1>3. MappedIn(new) = MappedIn(blks) \cup Touched(pos, end) \cup {bad}
  BY FaultNewFacts
<1>4. WriteEnd(blks, pos, good + 1, zones) = whole
  BY DEF WriteEnd
<1>5. Cardinality(MappedIn(W)) - Cardinality(MappedIn(blks)) \in 0 .. zones
  BY <1>1, <1>4, ZonesSuffice
<1>6. MappedIn(W) = MappedIn(blks) \cup Touched(pos, whole)
  BY <1>1, WrittenFacts
<1> HIDE DEF bad, end, new, whole, W
<1>7. bad \in Touched(pos, whole)
  <2>1. (bad + 1) * BLOCK_SIZE = bad * BLOCK_SIZE + BLOCK_SIZE
    BY <1>2, Starts
  <2> QED
    BY <1>1, <1>2, <2>1, Sizes DEF Touched, Place
<1>8. Touched(pos, end) \subseteq Touched(pos, whole)
  <2> SUFFICES ASSUME NEW b \in Touched(pos, end) PROVE b \in Touched(pos, whole)
    OBVIOUS
  <2>1. b \in BlockNrs /\ Place(b, 0) \in Nat
    BY PlaceOf, PositionsInBlocks, Sizes DEF Place, Touched
  <2> QED
    BY <1>1, <1>2, <2>1 DEF Touched
<1>9. MappedIn(blks) \subseteq MappedIn(new) /\ MappedIn(new) \subseteq MappedIn(W)
  BY <1>3, <1>6, <1>7, <1>8
<1>10. /\ IsFiniteSet(MappedIn(new)) /\ IsFiniteSet(MappedIn(W))
       /\ Cardinality(MappedIn(new)) \in Nat /\ Cardinality(MappedIn(W)) \in Nat
       /\ Cardinality(MappedIn(blks)) \in Nat
  BY MappedFinite
<1>11. /\ Cardinality(MappedIn(blks)) <= Cardinality(MappedIn(new))
       /\ Cardinality(MappedIn(new)) <= Cardinality(MappedIn(W))
  BY <1>9, <1>10, FS_Subset
<1> QED
  BY <1>5, <1>10, <1>11 DEF new

\* Its blocks.
LEMMA FaultNewMapped ==
    ASSUME NEW blks \in Maps, NEW pos \in Nat, NEW n \in Nat \ {0}, NEW size \in Nat,
           NEW v \in Byte, NEW good \in 0 .. n - 1, pos + n <= MaxSize
    PROVE  MappedIn(FaultNew(blks, size, pos, n, v, good))
             = MappedIn(blks) \cup Touched(pos, FaultEnd(pos, good)) \cup {BadBlock(pos, good)}
  BY FaultNewFacts

\* Such a write meets a block for which there is no zone, or comes to the bad chunk.
LEMMA FaultCases ==
    ASSUME NEW blks, NEW size, NEW zones, NEW pos, NEW n, NEW v, NEW good,
           FaultBlocks(blks, size, zones, pos, n, v, good)
    PROVE  \/ /\ Refused(blks, pos, good + 1, zones) # {}
              /\ WriteBlocks(blks, size, zones, pos, good + 1, v)
           \/ /\ Refused(blks, pos, good + 1, zones) = {}
              /\ Stored(blks, FaultNew(blks, size, pos, n, v, good), size, zones,
                        FaultEnd(pos, good))
<1>1. CASE Refused(blks, pos, good + 1, zones) # {}
  BY <1>1 DEF FaultBlocks
<1>2. CASE Refused(blks, pos, good + 1, zones) = {}
  BY <1>2 DEF FaultBlocks, FaultNew, FaultEnd, BadBlock
<1> QED
  BY <1>1, <1>2

\* It has zones enough, and loses none.
LEMMA FaultBlocksOk ==
    ASSUME NEW blks \in Maps, i_size \in Positions, NEW size \in Positions, NEW zones \in Nat,
           NEW pos \in Nat, NEW n \in Nat \ {0}, NEW v \in Byte, pos + n <= MaxSize,
           NEW good \in 0 .. n - 1, FaultBlocks(blks, size, zones, pos, n, v, good)
    PROVE  /\ blocks' \in Maps /\ free_zones' \in Nat /\ i_size' \in Positions
           /\ i_mode' = "I_REGULAR" /\ i_zone' \in [0 .. IMM - 1 -> Byte]
           /\ free_zones' + Cardinality(MappedIn(blocks')) = zones + Cardinality(MappedIn(blks))
<1>1. /\ good \in Nat /\ pos + good <= MaxSize /\ good + 1 \in Nat \ {0}
      /\ pos + (good + 1) <= MaxSize /\ size \in Nat
  BY Sizes, PositionsInBlocks
<1>2. CASE WriteBlocks(blks, size, zones, pos, good + 1, v)
  BY <1>1, <1>2, WriteBlocksOk
<1>3. CASE /\ Refused(blks, pos, good + 1, zones) = {}
           /\ Stored(blks, FaultNew(blks, size, pos, n, v, good), size, zones,
                     FaultEnd(pos, good))
  <2>1. FaultEnd(pos, good) \in Positions
    BY <1>1, BadBlockFacts
  <2>2. FaultNew(blks, size, pos, n, v, good) \in Maps
    BY <1>1, FaultNewFacts
  <2>3. Cardinality(MappedIn(FaultNew(blks, size, pos, n, v, good)))
          - Cardinality(MappedIn(blks)) \in 0 .. zones
    BY <1>1, <1>3, FaultZones
  <2> QED
    BY <1>3, <2>1, <2>2, <2>3, StoredOk
<1> QED
  BY <1>2, <1>3, FaultCases

\* Types, modes and zones after a write from a buffer that is not there in whole: the
\* copy into the inode may lose a zone.
LEMMA MfsFaultOk ==
    ASSUME Inv, NEW pos \in Nat, NEW n \in Nat \ {0}, NEW v \in Byte, i_mode # "free",
           pos + n <= MaxSize, NEW good \in 0 .. n - 1, MfsWriteFault(pos, n, v, good),
           "fault" \in workload.uses, UNCHANGED workload
    PROVE  FileWritten
<1>1. TypeOK /\ ZonesAccounted /\ ModesOk
  BY DEF Inv
<1>2. /\ workload.zones \in Nat /\ free_zones \in Nat /\ lost \in Nat /\ i_size \in Nat
      /\ blocks \in Maps /\ free_zones + Cardinality(MappedIn(blocks)) + lost = workload.zones
  BY <1>1, WorkloadsAssumption, PositionsInBlocks DEF TypeOK, ZonesAccounted
<1>3. 0 \in Positions /\ i_size \in Positions
  BY <1>1, Sizes DEF Positions, TypeOK
<1>4. i_mode = "I_IMMEDIATE" => blocks = NoBlocks /\ Cardinality(MappedIn(blocks)) = 0
  BY NoneMapped
<1>5. Cardinality(MappedIn(blocks)) \in Nat /\ Cardinality(MappedIn(blocks')) \in Nat
  BY MappedFinite
<1>6. CASE i_mode = "I_IMMEDIATE" /\ pos + n <= IMM /\ LoseZone(pos)
  <2>1. /\ i_size' = Bigger(i_size, pos) /\ UNCHANGED <<i_mode, i_zone, blocks>>
        /\ \/ free_zones > 0 /\ free_zones' = free_zones - 1 /\ lost' = lost + 1
           \/ free_zones' = free_zones /\ lost' = lost
    BY <1>6 DEF LoseZone
  <2>2. free_zones' \in Nat /\ lost' \in Nat /\ free_zones' + lost' = free_zones + lost
    BY <1>2, <2>1
  <2>3. i_size' \in Positions /\ (i_size <= IMM => i_size' <= IMM)
    BY <1>2, <1>3, <1>6, <2>1, Sizes DEF Bigger, Positions
  <2>4. ZonesAccounted'
    BY <1>2, <1>5, <2>1, <2>2 DEF ZonesAccounted
  <2>5. i_zone' \in [0 .. IMM - 1 -> Byte]
    BY <1>1, <2>1 DEF TypeOK
  <2> QED
    BY <1>2, <1>4, <1>6, <2>1, <2>2, <2>3, <2>4, <2>5 DEF FileWritten
<1>7. CASE i_mode = "I_IMMEDIATE" /\ UNCHANGED lost /\ ConvertFails
  <2>1. i_mode' = "I_REGULAR" /\ i_size' = 0 /\ i_zone' = Zeros /\ UNCHANGED <<blocks, free_zones>>
    BY <1>7 DEF ConvertFails
  <2>2. Zeros \in [0 .. IMM - 1 -> Byte]
    BY DEF Zeros, Byte
  <2> QED
    BY <1>1, <1>2, <1>3, <1>7, <2>1, <2>2 DEF FileWritten, ZonesAccounted
<1>8. CASE /\ i_mode = "I_IMMEDIATE" /\ UNCHANGED lost /\ free_zones # 0
           /\ FaultBlocks(Converted, 0, free_zones - 1, pos, n, v, good)
  <2>1. Converted \in Maps /\ MappedIn(Converted) = {0}
    BY <1>1, <1>8, ConvertedFacts
  <2>2. Cardinality(MappedIn(Converted)) = 1
    BY <2>1, FS_Singleton
  <2>5. free_zones - 1 \in Nat
    BY <1>2, <1>8
  <2>3. /\ blocks' \in Maps /\ free_zones' \in Nat /\ i_size' \in Positions
        /\ i_mode' = "I_REGULAR" /\ i_zone' \in [0 .. IMM - 1 -> Byte]
        /\ free_zones' + Cardinality(MappedIn(blocks'))
             = (free_zones - 1) + Cardinality(MappedIn(Converted))
    BY <1>3, <1>8, <2>1, <2>5, FaultBlocksOk
  <2>6. free_zones' + Cardinality(MappedIn(blocks')) = free_zones /\ free_zones + lost = workload.zones
    BY <1>2, <1>4, <1>8, <2>2, <2>3, <2>5
  <2>4. ZonesAccounted'
    BY <1>2, <1>5, <1>8, <2>3, <2>6 DEF ZonesAccounted
  <2> QED
    BY <1>2, <1>8, <2>3, <2>4 DEF FileWritten
<1>9. CASE /\ i_mode = "I_REGULAR" /\ UNCHANGED lost
           /\ FaultBlocks(blocks, i_size, free_zones, pos, n, v, good)
  <2>1. /\ blocks' \in Maps /\ free_zones' \in Nat /\ i_size' \in Positions
        /\ i_mode' = "I_REGULAR" /\ i_zone' \in [0 .. IMM - 1 -> Byte]
        /\ free_zones' + Cardinality(MappedIn(blocks'))
             = free_zones + Cardinality(MappedIn(blocks))
    BY <1>2, <1>3, <1>9, FaultBlocksOk
  <2>2. ZonesAccounted'
    BY <1>2, <1>5, <1>9, <2>1 DEF ZonesAccounted
  <2> QED
    BY <1>2, <1>9, <2>1, <2>2 DEF FileWritten
<1> QED
  BY <1>6, <1>7, <1>8, <1>9 DEF MfsWriteFault

-----------------------------------------------------------------------------
(* The bytes of a file after a write.                                        *)

\* Bytes v in [pos, end), the bytes of the file elsewhere, and zeros in a gap
\* between the two.
BytesWritten(pos, end, v) ==
    /\ i_size' = Bigger(i_size, end)
    /\ \A k \in 0 .. i_size' - 1 :
         /\ pos <= k /\ k < end => Held(k)' = v
         /\ ~(pos <= k /\ k < end) /\ k < i_size => Held(k)' = Held(k)
         /\ ~(pos <= k /\ k < end) /\ ~(k < i_size) => Held(k)' = 0

\* What becomes of a write: it is exact as far as it comes, or a conversion fails.
WriteDone(pos, n, v, ok) ==
    \/ \E end \in pos .. pos + n : BytesWritten(pos, end, v) /\ (ok <=> end = pos + n)
    \/ "fault" \in workload.uses /\ Emptied /\ ~ok

\* The blocks of a regular file are zero behind its end, but for old bytes left there.
Clean == i_mode = "I_REGULAR" => ZeroFrom(blocks, i_size) \/ LeftBehind

\* The bytes of a file by those of its blocks.
LEMMA BytesByBlocks ==
    ASSUME NEW blks \in Maps, i_size \in Positions, NEW pos \in Nat, NEW end \in Nat, NEW v,
           end <= MaxSize, i_mode' = "I_REGULAR", ZeroFrom(blks, i_size),
           \A k \in 0 .. i_size - 1 : ByteOf(blks, k) = Held(k),
           i_size' = Bigger(i_size, end),
           \A k \in Positions :
             ByteOf(blocks', k) = IF pos <= k /\ k < end THEN v ELSE ByteOf(blks, k)
    PROVE  BytesWritten(pos, end, v)
<1>1. i_size \in Nat /\ i_size' \in Nat /\ i_size' <= MaxSize
  BY Sizes DEF Bigger, Positions
<1> SUFFICES ASSUME NEW k, k \in 0 .. i_size' - 1
             PROVE  /\ pos <= k /\ k < end => Held(k)' = v
                    /\ ~(pos <= k /\ k < end) /\ k < i_size => Held(k)' = Held(k)
                    /\ ~(pos <= k /\ k < end) /\ ~(k < i_size) => Held(k)' = 0
  BY DEF BytesWritten
<1>2. k \in Positions /\ k \in Nat
  BY <1>1, Below, Sizes DEF Positions
<1>3. Held(k)' = ByteOf(blocks', k)
  BY DEF Held, ByteOf, At
<1>4. Held(k)' = IF pos <= k /\ k < end THEN v ELSE ByteOf(blks, k)
  BY <1>2, <1>3
<1>5. k < i_size => ByteOf(blks, k) = Held(k)
  BY <1>1, <1>2
<1>6. ~(k < i_size) => ByteOf(blks, k) = 0
  BY <1>1, <1>2, ZeroByte
<1> QED
  BY <1>4, <1>5, <1>6

\* A file without bytes that is written from its start has bytes v, and zeros behind.
Fresh(new, end, v) ==
    \A b \in BlockNrs, o \in 0 .. BLOCK_SIZE - 1 :
      At(new, b, o) = IF Place(b, o) < end THEN v ELSE 0

\* The first write after a failed conversion covers or clears what that left.
LEMMA FreshWritten ==
    ASSUME NEW blks \in Maps, MappedIn(blks) = {0}, NEW end \in Nat \ {0}, NEW v \in Byte
    PROVE  /\ Written(blks, 0, end, 0, v) \in Maps
           /\ Fresh(Written(blks, 0, end, 0, v), end, v)
<1> DEFINE W == Written(blks, 0, end, 0, v)
           B == BLOCK_SIZE
<1>1. W \in Maps
  BY WrittenFacts
<1>2. ASSUME NEW b \in BlockNrs, NEW o \in 0 .. B - 1
      PROVE  At(W, b, o) = IF Place(b, o) < end THEN v ELSE 0
  <2>1. /\ b \in Nat /\ b * B \in Nat /\ (b + 1) * B = b * B + B /\ B \in Nat
        /\ o \in Nat /\ o < B /\ Place(b, o) = b * B + o
        /\ 0 < b => 0 * B + B <= b * B
    BY PositionsInBlocks, Starts, Sizes DEF Place
  <2>2. b # 0 => blks[b] = NO_BLOCK
    BY DEF MappedIn
  <2> DEFINE base == ChunkBase(blks, b, 0, end, 0)
             touched == b * B < end
             new == [p \in 0 .. B - 1 |->
                       IF 0 <= b * B + p /\ b * B + p < end THEN v ELSE base[p]]
  <2>3. W[b] = IF touched THEN new ELSE blks[b]
    <3>1. ~(end <= 0) /\ ~((b + 1) * B <= 0)
      BY <2>1, Sizes
    <3>2. touched <=> ~(b * B >= end)
      BY <2>1
    <3> QED
      BY <3>1, <3>2 DEF Written
  <2>4. CASE touched
    <3>1. base \in Data
      BY BaseType
    <3>2. new \in Data
      BY <3>1 DEF Data
    <3>3. new # NO_BLOCK
      BY <3>2, DataIsSomething
    <3>4. At(W, b, o) = new[o]
      BY <2>3, <2>4, <3>3 DEF At
    <3>5. CASE Place(b, o) < end
      BY <2>1, <3>4, <3>5
    <3>6. CASE ~(Place(b, o) < end)
      <4>1. At(W, b, o) = base[o]
        BY <2>1, <3>4, <3>6
      <4>2. end < b * B + B /\ b * B >= 0
        BY <2>1, <3>6
      <4>3. base = [p \in 0 .. B - 1 |-> 0]
        BY <4>2 DEF ChunkBase
      <4> QED
        BY <3>6, <4>1, <4>3
    <3> QED
      BY <3>5, <3>6
  <2>5. CASE ~touched
    <3>1. b # 0
      BY <2>1, <2>5
    <3>2. At(W, b, o) = 0
      BY <2>2, <2>3, <2>5, <3>1 DEF At
    <3>3. ~(Place(b, o) < end)
      BY <2>1, <2>5
    <3> QED
      BY <3>2, <3>3
  <2> QED
    BY <2>4, <2>5
<1> QED
  BY <1>1, <1>2 DEF Fresh

\* What is fresh is exact, and clean.
LEMMA FreshStored ==
    ASSUME NEW blks, NEW new, NEW zones, NEW end \in Nat, NEW v, end <= MaxSize,
           i_size = 0, Stored(blks, new, 0, zones, end), Fresh(new, end, v)
    PROVE  BytesWritten(0, end, v) /\ ZeroFrom(blocks', i_size')
<1>1. blocks' = new /\ i_size' = end /\ i_mode' = "I_REGULAR"
  BY DEF Stored
<1>2. i_size' = Bigger(i_size, end)
  BY <1>1 DEF Bigger
<1>3. ASSUME NEW k \in 0 .. end - 1 PROVE Held(k)' = v
  <2> DEFINE b == k \div BLOCK_SIZE
             o == k % BLOCK_SIZE
  <2>1. k \in Nat /\ k \in Positions /\ k < end
    BY Sizes DEF Positions
  <2>2. b \in BlockNrs /\ o \in 0 .. BLOCK_SIZE - 1 /\ Place(b, o) = k
    BY <2>1, PositionsInBlocks, Places DEF Place
  <2>3. Held(k)' = At(blocks', b, o)
    BY <1>1 DEF Held, At
  <2> HIDE DEF b, o
  <2> QED
    BY <1>1, <2>1, <2>2, <2>3 DEF Fresh
<1>4. BytesWritten(0, end, v)
  BY <1>1, <1>2, <1>3 DEF BytesWritten
<1>5. ZeroFrom(blocks', i_size')
  <2> SUFFICES ASSUME NEW b \in BlockNrs, NEW o \in 0 .. BLOCK_SIZE - 1, Place(b, o) >= end
               PROVE  At(new, b, o) = 0
    BY <1>1 DEF ZeroFrom
  <2>1. Place(b, o) \in Nat
    BY PlaceOf, PositionsInBlocks DEF Place
  <2>2. ~(Place(b, o) < end)
    BY <2>1
  <2> QED
    BY <2>2 DEF Fresh
<1> QED
  BY <1>4, <1>5

\* A write into a file whose conversion failed: it starts at 0, and comes somewhere.
LEMMA LeftBehindWrite ==
    ASSUME blocks \in Maps, i_size = 0, MappedIn(blocks) = {0}, NEW zones \in Nat,
           NEW n \in Nat \ {0}, NEW v \in Byte, n <= MaxSize,
           WriteBlocks(blocks, 0, zones, 0, n, v)
    PROVE  LET end == WriteEnd(blocks, 0, n, zones)
           IN  /\ end \in 0 .. n
               /\ Refused(blocks, 0, n, zones) = {} <=> end = n
               /\ BytesWritten(0, end, v) /\ ZeroFrom(blocks', i_size')
<1> DEFINE end == WriteEnd(blocks, 0, n, zones)
           refused == Refused(blocks, 0, n, zones)
<1>1. /\ end \in 0 .. n
      /\ refused = {} => end = n
      /\ refused # {} => end < n /\ \E r \in refused : end = Bigger(0, r * BLOCK_SIZE)
      /\ refused \in SUBSET BlockNrs /\ refused \cap {0} = {}
  <2>1. /\ end \in 0 .. 0 + n
        /\ refused = {} => end = 0 + n
        /\ refused # {} => /\ end < 0 + n
                           /\ \E r \in refused : /\ end = Bigger(0, r * BLOCK_SIZE)
                                                 /\ \A q \in refused : r <= q
        /\ refused \in SUBSET Missing(blocks, 0, n)
        /\ Missing(blocks, 0, n) \in SUBSET BlockNrs
        /\ Missing(blocks, 0, n) \cap MappedIn(blocks) = {}
    BY WriteEndFacts
  <2>2. 0 + n = n
    OBVIOUS
  <2> HIDE DEF end, refused
  <2> QED
    BY <2>1, <2>2
<1>2. Stored(blocks, Written(blocks, 0, end, 0, v), 0, zones, end)
  BY DEF WriteBlocks
<1> HIDE DEF end, refused
<1>3. end \in Nat \ {0} /\ end <= MaxSize
  <2>1. CASE refused = {}
    BY <1>1, <2>1
  <2>2. CASE refused # {}
    <3>1. PICK r \in refused : end = Bigger(0, r * BLOCK_SIZE)
      BY <1>1, <2>2
    <3>2. r \in Nat /\ 0 < r
      <4>1. r \in BlockNrs /\ r # 0
        BY <1>1
      <4> QED
        BY <4>1, PositionsInBlocks
    <3>3. r * BLOCK_SIZE \in Nat /\ 0 * BLOCK_SIZE + BLOCK_SIZE <= r * BLOCK_SIZE
      BY <3>2, Starts
    <3> QED
      BY <1>1, <3>1, <3>3, Sizes DEF Bigger
  <2> QED
    BY <2>1, <2>2
<1>4. Fresh(Written(blocks, 0, end, 0, v), end, v)
  BY <1>3, FreshWritten
<1>5. BytesWritten(0, end, v) /\ ZeroFrom(blocks', i_size')
  BY <1>2, <1>3, <1>4, FreshStored, Sizes
<1>6. refused = {} <=> end = n
  BY <1>1
<1> QED
  BY <1>1, <1>5, <1>6 DEF end, refused

\* The write that converts a file comes at least to the end of its first block,
\* and so behind the old end of the file.
LEMMA ConversionEnd ==
    ASSUME TypeOK, i_mode = "I_IMMEDIATE", i_size <= IMM, free_zones - 1 \in Nat,
           NEW pos \in Nat, NEW n \in Nat \ {0}, pos + n <= MaxSize,
           pos + n > IMM \/ Refused(Converted, pos, n, free_zones - 1) # {}
    PROVE  WriteEnd(Converted, pos, n, free_zones - 1) > i_size
<1>0. i_size \in Nat /\ i_size <= IMM /\ i_mode = "I_IMMEDIATE"
  BY PositionsInBlocks DEF TypeOK
<1> DEFINE end == WriteEnd(Converted, pos, n, free_zones - 1)
           refused == Refused(Converted, pos, n, free_zones - 1)
<1>1. /\ Converted \in Maps /\ MappedIn(Converted) = {0} /\ ZeroFrom(Converted, i_size)
      /\ \A k \in 0 .. i_size - 1 : ByteOf(Converted, k) = Held(k)
  BY <1>0, ConvertedFacts
<1>2. /\ refused = {} => end = pos + n
      /\ refused # {} => \E r \in refused : end = Bigger(pos, r * BLOCK_SIZE)
      /\ refused \in SUBSET BlockNrs /\ refused \cap {0} = {}
  <2>1. /\ refused = {} => end = pos + n
        /\ refused # {} => \E r \in refused : /\ end = Bigger(pos, r * BLOCK_SIZE)
                                              /\ \A q \in refused : r <= q
        /\ refused \in SUBSET Missing(Converted, pos, n)
        /\ Missing(Converted, pos, n) \in SUBSET BlockNrs
        /\ Missing(Converted, pos, n) \cap MappedIn(Converted) = {}
    BY <1>0, <1>1, WriteEndFacts
  <2> HIDE DEF end, refused
  <2> QED
    BY <1>1, <2>1
<1>4. pos + n > IMM \/ refused # {}
  OBVIOUS
<1> HIDE DEF refused
<1>3. end > i_size
  <2>1. CASE refused = {}
    BY <1>0, <1>2, <1>4, <2>1, Sizes
  <2>2. CASE refused # {}
    <3>1. PICK r \in refused : end = Bigger(pos, r * BLOCK_SIZE)
      BY <1>2, <2>2
    <3>2. r \in Nat /\ 0 < r
      <4>1. r \in BlockNrs /\ r # 0
        BY <1>2
      <4> QED
        BY <4>1, PositionsInBlocks
    <3>3. r * BLOCK_SIZE \in Nat /\ 0 * BLOCK_SIZE + BLOCK_SIZE <= r * BLOCK_SIZE
      BY <3>2, Starts
    <3>4. r * BLOCK_SIZE >= BLOCK_SIZE
      BY <3>3, Sizes
    <3> QED
      BY <1>0, <3>1, <3>3, <3>4, Sizes DEF Bigger
  <2> QED
    BY <2>1, <2>2
<1> QED
  BY <1>3

\* A write is exact, as far as it comes, unless a conversion fails: what is behind
\* the end of the file was zero, or is covered by the write.
LEMMA MfsWriteBytes ==
    ASSUME Inv, NEW pos \in Nat, NEW n \in Nat \ {0}, NEW v \in Byte, i_mode # "free",
           pos + n <= MaxSize, MfsWrite(pos, n, v), UNCHANGED <<workload, lost>>,
           "I_IMMEDIATE" \notin workload.uses,
           ~({"fault", "sparse"} \subseteq workload.uses),
           pos <= i_size \/ "sparse" \in workload.uses,
           pos <= i_size \/ "truncate" \notin workload.uses,
           ~ConversionFails(pos, n)
    PROVE  /\ \E end \in pos .. pos + n : /\ BytesWritten(pos, end, v)
                                          /\ MfsWriteOK(pos, n) <=> end = pos + n
           /\ i_mode' = "I_REGULAR" => ZeroFrom(blocks', i_size')
<1>1. TypeOK /\ ModesOk /\ TailOk /\ i_size \in Positions /\ i_size \in Nat /\ blocks \in Maps
  BY PositionsInBlocks DEF Inv, TypeOK
<1>2. Clean
  BY <1>1, ZeroSame DEF TailOk, Clean
<1>3. i_mode = "I_IMMEDIATE" => i_size <= IMM
  BY <1>1 DEF ModesOk
<1>4. ASSUME NEW blks \in Maps, NEW zones \in Nat, NEW size \in Positions,
             WriteBlocks(blks, size, zones, pos, n, v),
             ZeroFrom(blks, i_size),
             \A k \in 0 .. i_size - 1 : ByteOf(blks, k) = Held(k),
             size = i_size \/ WriteEnd(blks, pos, n, zones) > i_size,
             MfsWriteOK(pos, n) <=> Refused(blks, pos, n, zones) = {}
      PROVE  /\ \E end \in pos .. pos + n : /\ BytesWritten(pos, end, v)
                                            /\ MfsWriteOK(pos, n) <=> end = pos + n
             /\ ZeroFrom(blocks', i_size')
  <2> DEFINE end == WriteEnd(blks, pos, n, zones)
  <2>1. /\ i_size' = Bigger(i_size, end)
        /\ ZeroFrom(blocks', i_size')
        /\ \A k \in Positions :
             ByteOf(blocks', k) = IF pos <= k /\ k < end THEN v ELSE ByteOf(blks, k)
    BY <1>1, <1>4, WriteBlocksBytes
  <2>2. end \in pos .. pos + n /\ (MfsWriteOK(pos, n) <=> end = pos + n)
    <3>1. /\ end \in pos .. pos + n
          /\ Refused(blks, pos, n, zones) = {} => end = pos + n
          /\ Refused(blks, pos, n, zones) # {} => end < pos + n
      BY WriteEndFacts
    <3> HIDE DEF end
    <3> QED
      BY <1>4, <3>1
  <2>3. i_mode' = "I_REGULAR"
    BY <1>4 DEF WriteBlocks, Stored
  <2> HIDE DEF end
  <2>4. BytesWritten(pos, end, v)
    <3>1. end \in Nat /\ end <= MaxSize
      BY <2>2, Sizes
    <3> QED
      BY <1>1, <1>4, <2>1, <2>3, <3>1, BytesByBlocks
  <2> QED
    BY <2>1, <2>2, <2>4
<1>5. CASE /\ i_mode = "I_REGULAR" /\ WriteBlocks(blocks, i_size, free_zones, pos, n, v)
           /\ MfsWriteOK(pos, n) <=> Refused(blocks, pos, n, free_zones) = {}
  <2>1. free_zones \in Nat
    BY <1>1 DEF TypeOK
  <2>2. \A k \in 0 .. i_size - 1 : ByteOf(blocks, k) = Held(k)
    BY <1>5, HeldInBlocks
  <2>3. CASE ZeroFrom(blocks, i_size)
    BY <1>1, <1>4, <1>5, <2>1, <2>2, <2>3
  <2>4. CASE LeftBehind
    <3>1. i_size = 0 /\ MappedIn(blocks) = {0} /\ pos = 0 /\ n <= MaxSize
      BY <1>1, <2>4 DEF LeftBehind
    <3>2. WriteBlocks(blocks, 0, free_zones, 0, n, v)
      BY <1>5, <3>1
    <3> DEFINE end == WriteEnd(blocks, 0, n, free_zones)
    <3>3. /\ end \in 0 .. n
          /\ Refused(blocks, 0, n, free_zones) = {} <=> end = n
          /\ BytesWritten(0, end, v) /\ ZeroFrom(blocks', i_size')
      BY <1>1, <2>1, <3>1, <3>2, LeftBehindWrite
    <3> HIDE DEF end
    <3>4. end \in pos .. pos + n /\ (end = n <=> end = pos + n)
      BY <3>1, <3>3
    <3> QED
      BY <1>5, <3>1, <3>3, <3>4
  <2> QED
    BY <1>2, <1>5, <2>3, <2>4 DEF Clean
<1>6. CASE /\ i_mode = "I_IMMEDIATE" /\ pos + n <= IMM /\ WriteInode(pos, n, v)
           /\ MfsWriteOK(pos, n)
  <2>1. /\ i_zone' = [k \in 0 .. IMM - 1 |-> IF pos <= k /\ k < pos + n THEN v ELSE i_zone[k]]
        /\ i_size' = Bigger(i_size, pos + n)
        /\ i_mode' = "I_IMMEDIATE"
    BY <1>6 DEF WriteInode
  <2>2. i_size' \in Nat /\ i_size' <= IMM
    BY <1>1, <1>3, <1>6, <2>1, Sizes DEF Bigger
  <2>3. ASSUME NEW k, k \in 0 .. i_size' - 1
        PROVE  /\ pos <= k /\ k < pos + n => Held(k)' = v
               /\ ~(pos <= k /\ k < pos + n) /\ k < i_size => Held(k)' = Held(k)
               /\ ~(pos <= k /\ k < pos + n) /\ ~(k < i_size) => Held(k)' = 0
    <3>1. k \in 0 .. IMM - 1 /\ k \in Nat /\ k < IMM
      BY <2>2, <2>3, Below, Sizes
    <3>2. Held(k)' = i_zone'[k] /\ Held(k) = i_zone[k]
      BY <1>6, <2>1, <3>1 DEF Held
    <3>3. i_zone'[k] = IF pos <= k /\ k < pos + n THEN v ELSE i_zone[k]
      BY <2>1, <3>1
    <3>4. ~(pos <= k /\ k < pos + n) /\ ~(k < i_size) => i_zone[k] = 0
      <4>1. ~(pos <= k /\ k < pos + n) /\ ~(k < i_size) => ~(pos <= i_size)
        <5>1. k < Bigger(i_size, pos + n)
          BY <2>1, <2>2, <2>3, Below
        <5> QED
          BY <1>1, <3>1, <5>1 DEF Bigger
      <4> QED
        BY <1>1, <1>6, <3>1, <4>1 DEF TailOk
    <3> QED
      BY <3>2, <3>3, <3>4
  <2>4. BytesWritten(pos, pos + n, v)
    BY <2>1, <2>3 DEF BytesWritten
  <2> QED
    BY <1>6, <2>1, <2>4
<1>7. CASE /\ i_mode = "I_IMMEDIATE" /\ pos + n > IMM /\ free_zones - 1 \in Nat
           /\ WriteBlocks(Converted, 0, free_zones - 1, pos, n, v)
           /\ MfsWriteOK(pos, n) <=> Refused(Converted, pos, n, free_zones - 1) = {}
  <2>1. /\ Converted \in Maps /\ ZeroFrom(Converted, i_size)
        /\ \A k \in 0 .. i_size - 1 : ByteOf(Converted, k) = Held(k)
    BY <1>1, <1>3, <1>7, ConvertedFacts
  <2>3. WriteEnd(Converted, pos, n, free_zones - 1) > i_size
    BY <1>1, <1>3, <1>7, ConversionEnd
  <2>4. 0 \in Positions
    BY Sizes DEF Positions
  <2> QED
    BY <1>4, <1>7, <2>1, <2>3, <2>4
<1> QED
  BY <1>5, <1>6, <1>7, MfsWriteCases

\* A write that comes to a bad chunk is exact up to there, if the blocks hold the bytes
\* of the file and nothing behind them.
LEMMA FaultBytes ==
    ASSUME NEW blks \in Maps, i_size \in Positions, NEW size \in Positions, NEW zones \in Nat,
           NEW pos \in Nat, NEW n \in Nat \ {0}, NEW v \in Byte, pos + n <= MaxSize,
           NEW good \in 0 .. n - 1, FaultBlocks(blks, size, zones, pos, n, v, good),
           ZeroFrom(blks, i_size), \A k \in 0 .. i_size - 1 : ByteOf(blks, k) = Held(k),
           Refused(blks, pos, good + 1, zones) # {} =>
             size = i_size \/ WriteEnd(blks, pos, good + 1, zones) > i_size,
           Refused(blks, pos, good + 1, zones) = {} =>
             size = i_size \/ (/\ FaultEnd(pos, good) > i_size
                               /\ blks[BadBlock(pos, good)] = NO_BLOCK)
    PROVE  /\ WriteDone(pos, n, v, FALSE)
           /\ i_mode' = "I_REGULAR" /\ ZeroFrom(blocks', i_size')
<1>1. /\ good \in Nat /\ pos + good <= MaxSize /\ good + 1 \in Nat \ {0}
      /\ pos + (good + 1) <= MaxSize /\ size \in Nat /\ i_size \in Nat
      /\ \A end \in pos .. pos + good : /\ end \in Nat /\ end <= MaxSize
                                        /\ end \in pos .. pos + n /\ end # pos + n
  BY Sizes, PositionsInBlocks
<1>2. ASSUME NEW end \in pos .. pos + good,
             i_size' = Bigger(i_size, end), i_mode' = "I_REGULAR",
             \A k \in Positions :
               ByteOf(blocks', k) = IF pos <= k /\ k < end THEN v ELSE ByteOf(blks, k)
      PROVE  WriteDone(pos, n, v, FALSE)
  <2>1. BytesWritten(pos, end, v)
    BY <1>1, <1>2, BytesByBlocks
  <2> QED
    BY <1>1, <2>1 DEF WriteDone
<1>3. CASE /\ Refused(blks, pos, good + 1, zones) # {}
           /\ WriteBlocks(blks, size, zones, pos, good + 1, v)
  <2> DEFINE end == WriteEnd(blks, pos, good + 1, zones)
  <2>1. end \in pos .. pos + (good + 1) /\ end < pos + (good + 1)
    BY <1>1, <1>3, WriteEndFacts
  <2>2. size = i_size \/ end > i_size
    BY <1>3
  <2>3. /\ i_size' = Bigger(i_size, end)
        /\ ZeroFrom(blocks', i_size')
        /\ \A k \in Positions :
             ByteOf(blocks', k) = IF pos <= k /\ k < end THEN v ELSE ByteOf(blks, k)
    BY <1>1, <1>3, <2>2, WriteBlocksBytes
  <2>4. i_mode' = "I_REGULAR"
    BY <1>3 DEF WriteBlocks, Stored
  <2> HIDE DEF end
  <2>5. end \in pos .. pos + good
    BY <1>1, <2>1
  <2> QED
    BY <1>2, <2>3, <2>4, <2>5
<1>4. CASE /\ Refused(blks, pos, good + 1, zones) = {}
           /\ Stored(blks, FaultNew(blks, size, pos, n, v, good), size, zones,
                     FaultEnd(pos, good))
  <2> DEFINE end == FaultEnd(pos, good)
             new == FaultNew(blks, size, pos, n, v, good)
  <2>1. end \in pos .. pos + good /\ end \in Nat
    BY <1>1, BadBlockFacts
  <2>2. size = i_size \/ (end > i_size /\ blks[BadBlock(pos, good)] = NO_BLOCK)
    BY <1>4
  <2>3. ZeroFrom(blks, size) \/ (ZeroFrom(blks, end) /\ blks[BadBlock(pos, good)] = NO_BLOCK)
    BY <1>1, <2>1, <2>2, ZeroLater
  <2>4. new \in Maps /\ Overlaid(new, blks, pos, end, v)
    BY <1>1, <2>3, FaultNewFacts
  <2>5. Stored(blks, new, size, zones, end)
    BY <1>4
  <2>6. i_mode' = "I_REGULAR"
    BY <2>5 DEF Stored
  <2> HIDE DEF end, new
  <2>7. size = i_size \/ end > i_size
    BY <2>2
  <2>8. /\ i_size' = Bigger(i_size, end)
        /\ ZeroFrom(blocks', i_size')
        /\ \A k \in Positions :
             ByteOf(blocks', k) = IF pos <= k /\ k < end THEN v ELSE ByteOf(blks, k)
    BY <2>1, <2>4, <2>5, <2>7, StoredBytes
  <2> QED
    BY <1>2, <2>1, <2>6, <2>8
<1> QED
  BY <1>3, <1>4, FaultCases

\* The same in a file whose conversion failed: what that left is covered or cleared, or
\* it is still there and the file still has no bytes.
LEMMA LeftBehindFault ==
    ASSUME blocks \in Maps, i_size = 0, MappedIn(blocks) = {0}, NEW zones \in Nat,
           NEW n \in Nat \ {0}, NEW v \in Byte, n <= MaxSize,
           NEW good \in 0 .. n - 1, FaultBlocks(blocks, 0, zones, 0, n, v, good),
           "fault" \in workload.uses, UNCHANGED workload
    PROVE  WriteDone(0, n, v, FALSE) /\ Clean'
<1>1. /\ good \in Nat /\ 0 + good <= MaxSize /\ good + 1 \in Nat \ {0}
      /\ good + 1 <= MaxSize /\ 0 + n <= MaxSize /\ 0 + n = n /\ 0 + good = good
      /\ \A end \in 0 .. good : end \in Nat /\ end \in 0 .. n /\ end # n /\ end <= MaxSize
  BY Sizes
<1>2. ASSUME NEW end \in 0 .. good, BytesWritten(0, end, v)
      PROVE  WriteDone(0, n, v, FALSE)
  BY <1>1, <1>2 DEF WriteDone
<1>3. CASE /\ Refused(blocks, 0, good + 1, zones) # {}
           /\ WriteBlocks(blocks, 0, zones, 0, good + 1, v)
  <2> DEFINE end == WriteEnd(blocks, 0, good + 1, zones)
  <2>1. /\ end \in 0 .. good + 1
        /\ Refused(blocks, 0, good + 1, zones) = {} <=> end = good + 1
        /\ BytesWritten(0, end, v) /\ ZeroFrom(blocks', i_size')
    BY <1>1, <1>3, LeftBehindWrite
  <2> HIDE DEF end
  <2>2. end \in 0 .. good
    BY <1>1, <1>3, <2>1
  <2> QED
    BY <1>2, <2>1, <2>2 DEF Clean
<1>4. CASE /\ Refused(blocks, 0, good + 1, zones) = {}
           /\ Stored(blocks, FaultNew(blocks, 0, 0, n, v, good), 0, zones, FaultEnd(0, good))
  <2> DEFINE bad == BadBlock(0, good)
             end == FaultEnd(0, good)
             new == FaultNew(blocks, 0, 0, n, v, good)
  <2>1. /\ bad \in BlockNrs /\ bad \in Nat /\ bad * BLOCK_SIZE \in Nat
        /\ (end = 0 \/ end = bad * BLOCK_SIZE)
        /\ end >= bad * BLOCK_SIZE
        /\ end \in 0 .. good
    <3>1. /\ bad \in BlockNrs /\ bad \in Nat /\ bad * BLOCK_SIZE \in Nat
          /\ end \in 0 .. 0 + good /\ (end = 0 \/ end = bad * BLOCK_SIZE)
          /\ end >= bad * BLOCK_SIZE
      BY <1>1, BadBlockFacts
    <3> HIDE DEF bad, end
    <3> QED
      BY <1>1, <3>1
  <2>2. /\ new \in Maps
        /\ MappedIn(new) = MappedIn(blocks) \cup Touched(0, end) \cup {bad}
    BY <1>1, FaultNewFacts
  <2>3. Stored(blocks, new, 0, zones, end)
    BY <1>4
  <2>4. new = [Written(blocks, 0, end, 0, v) EXCEPT ![bad] = ChunkBase(blocks, bad, 0, 0 + n, 0)]
    BY DEF FaultNew
  <2> HIDE DEF new, end, bad
  <2>5. CASE bad = 0
    <3>1. end = 0
      BY <2>1, <2>5, Sizes
    <3>2. blocks' = new /\ i_size' = 0
      BY <2>3, <3>1 DEF Stored
    <3>3. Touched(0, end) = {}
      BY <3>1 DEF Touched
    <3>4. MappedIn(blocks') = {0}
      BY <2>2, <2>5, <3>2, <3>3
    <3>5. LeftBehind'
      BY <3>2, <3>4 DEF LeftBehind
    <3>6. BytesWritten(0, 0, v)
      BY <3>2 DEF BytesWritten, Bigger
    <3> QED
      BY <1>2, <2>1, <3>1, <3>5, <3>6 DEF Clean
  <2>6. CASE bad # 0
    <3>1. end \in Nat \ {0} /\ end = bad * BLOCK_SIZE
      <4>1. bad * BLOCK_SIZE >= 0 * BLOCK_SIZE + BLOCK_SIZE
        BY <2>1, <2>6, Starts
      <4> QED
        BY <2>1, <4>1, Sizes
    <3>2. blocks[bad] = NO_BLOCK
      BY <2>1, <2>6 DEF MappedIn
    <3>3. Written(blocks, 0, end, 0, v) \in Maps /\ Fresh(Written(blocks, 0, end, 0, v), end, v)
      BY <3>1, FreshWritten
    <3>4. Fresh(new, end, v)
      <4> SUFFICES ASSUME NEW b \in BlockNrs, NEW o \in 0 .. BLOCK_SIZE - 1
                   PROVE  At(new, b, o) = IF Place(b, o) < end THEN v ELSE 0
        BY DEF Fresh
      <4>1. CASE b # bad
        <5>1. new[b] = Written(blocks, 0, end, 0, v)[b]
          BY <2>4, <3>3, <4>1 DEF Maps
        <5>2. At(new, b, o) = At(Written(blocks, 0, end, 0, v), b, o)
          BY <5>1 DEF At
        <5> QED
          BY <3>3, <5>2 DEF Fresh
      <4>2. CASE b = bad
        <5>1. new[b] = ChunkBase(blocks, bad, 0, 0 + n, 0)
          BY <2>1, <2>4, <3>3, <4>2 DEF Maps
        <5>2. ChunkBase(blocks, bad, 0, 0 + n, 0) = [p \in 0 .. BLOCK_SIZE - 1 |-> 0]
          BY <3>2 DEF ChunkBase
        <5>3. At(new, b, o) = 0
          BY <5>1, <5>2 DEF At
        <5>4. ~(Place(b, o) < end)
          BY <2>1, <3>1, <4>2 DEF Place
        <5> QED
          BY <5>3, <5>4
      <4> QED
        BY <4>1, <4>2
    <3>5. BytesWritten(0, end, v) /\ ZeroFrom(blocks', i_size')
      BY <1>1, <2>1, <2>3, <3>4, FreshStored
    <3> QED
      BY <1>2, <2>1, <3>5 DEF Clean
  <2> QED
    BY <2>5, <2>6
<1> QED
  BY <1>3, <1>4, FaultCases

\* A write from a buffer that is not there in whole, where nobody writes behind the end
\* of file: it is exact as far as it comes, or it empties a file that it converts.
LEMMA MfsFaultBytes ==
    ASSUME Inv, NEW pos \in Nat, NEW n \in Nat \ {0}, NEW v \in Byte, i_mode # "free",
           pos + n <= MaxSize, NEW good \in 0 .. n - 1, MfsWriteFault(pos, n, v, good),
           "fault" \in workload.uses, UNCHANGED workload,
           "I_IMMEDIATE" \notin workload.uses, "sparse" \notin workload.uses, pos <= i_size
    PROVE  WriteDone(pos, n, v, FALSE) /\ Clean' /\ TailOk'
<1>1. TypeOK /\ ModesOk /\ TailOk /\ i_size \in Positions /\ i_size \in Nat /\ blocks \in Maps
      /\ free_zones \in Nat
  BY PositionsInBlocks DEF Inv, TypeOK
<1>2. Clean
  BY <1>1, ZeroSame DEF TailOk, Clean
<1>3. i_mode = "I_IMMEDIATE" => i_size <= IMM
  BY <1>1 DEF ModesOk
<1>4. /\ good \in Nat /\ pos + good <= MaxSize /\ good + 1 \in Nat \ {0}
      /\ pos + (good + 1) <= MaxSize /\ 0 \in Positions
  BY Sizes DEF Positions
<1>5. ASSUME i_mode' = "I_REGULAR", Clean' PROVE TailOk'
  BY <1>5, ZeroSame DEF Clean, TailOk
<1>6. CASE i_mode = "I_IMMEDIATE" /\ pos + n <= IMM /\ LoseZone(pos)
  <2>1. i_size' = i_size /\ UNCHANGED <<i_mode, i_zone, blocks>>
    BY <1>1, <1>6 DEF LoseZone, Bigger
  <2>2. \A k : Held(k)' = Held(k)
    BY <2>1 DEF Held
  <2>3. BytesWritten(pos, pos, v)
    BY <1>1, <2>1, <2>2 DEF BytesWritten, Bigger
  <2>4. pos \in pos .. pos + n /\ pos # pos + n
    OBVIOUS
  <2>5. WriteDone(pos, n, v, FALSE)
    BY <2>3, <2>4 DEF WriteDone
  <2>6. Clean' /\ TailOk'
    BY <1>1, <1>6, <2>1 DEF Clean, TailOk
  <2> QED
    BY <2>5, <2>6
<1>7. CASE i_mode = "I_IMMEDIATE" /\ ConvertFails
  <2>1. i_mode' = "I_REGULAR" /\ i_size' = 0 /\ blocks' = NoBlocks
    BY <1>1, <1>7 DEF ConvertFails, ModesOk
  <2>2. Emptied
    BY <1>7, <2>1 DEF Emptied
  <2>3. Clean'
    BY <2>1, NoBlocksFacts DEF Clean
  <2> QED
    BY <1>5, <2>1, <2>2, <2>3 DEF WriteDone
<1>8. CASE /\ i_mode = "I_IMMEDIATE" /\ pos + n > IMM /\ free_zones # 0
           /\ FaultBlocks(Converted, 0, free_zones - 1, pos, n, v, good)
  <2>1. /\ Converted \in Maps /\ MappedIn(Converted) = {0} /\ ZeroFrom(Converted, i_size)
        /\ \A k \in 0 .. i_size - 1 : ByteOf(Converted, k) = Held(k)
        /\ free_zones - 1 \in Nat
    BY <1>1, <1>3, <1>8, ConvertedFacts
  <2>2. Refused(Converted, pos, good + 1, free_zones - 1) # {} =>
          WriteEnd(Converted, pos, good + 1, free_zones - 1) > i_size
    BY <1>1, <1>3, <1>4, <1>8, <2>1, ConversionEnd
  <2> DEFINE bad == BadBlock(pos, good)
             end == FaultEnd(pos, good)
  <2>3. /\ bad \in BlockNrs /\ bad \in Nat /\ bad * BLOCK_SIZE \in Nat
        /\ end \in Nat /\ (end = pos \/ end = bad * BLOCK_SIZE) /\ end >= bad * BLOCK_SIZE
    BY <1>4, BadBlockFacts
  <2>4. CASE bad # 0 \/ Refused(Converted, pos, good + 1, free_zones - 1) # {}
    <3>1. bad # 0 => end > i_size /\ Converted[bad] = NO_BLOCK
      <4> HIDE DEF bad, end
      <4>1. bad # 0 => bad * BLOCK_SIZE >= 0 * BLOCK_SIZE + BLOCK_SIZE
        BY <2>3, Starts
      <4>2. bad # 0 => Converted[bad] = NO_BLOCK
        BY <2>1, <2>3 DEF MappedIn
      <4> QED
        BY <1>1, <1>3, <1>8, <2>3, <4>1, <4>2, Sizes
    <3>2. /\ WriteDone(pos, n, v, FALSE)
          /\ i_mode' = "I_REGULAR" /\ ZeroFrom(blocks', i_size')
      BY <1>1, <1>4, <1>8, <2>1, <2>2, <2>4, <3>1, FaultBytes
    <3> QED
      BY <1>5, <3>2 DEF Clean
  <2>5. CASE bad = 0 /\ Refused(Converted, pos, good + 1, free_zones - 1) = {}
    <3> DEFINE new == FaultNew(Converted, 0, pos, n, v, good)
    <3>1. Stored(Converted, new, 0, free_zones - 1, end)
      BY <1>8, <2>5, FaultCases
    <3>2. MappedIn(new) = MappedIn(Converted) \cup Touched(pos, end) \cup {bad}
      <4>1. 0 \in Nat
        OBVIOUS
      <4> QED
        BY <2>1, <4>1, FaultNewMapped
    <3>3. end = pos
      BY <2>5, Sizes DEF FaultEnd, Bigger
    <3> HIDE DEF new, end, bad
    <3>4. i_mode' = "I_REGULAR" /\ i_size' = 0 /\ blocks' = new
      BY <1>1, <3>1, <3>3 DEF Stored
    <3>5. Touched(pos, end) = {}
      BY <3>3 DEF Touched
    <3>6. MappedIn(blocks') = {0}
      BY <2>1, <2>5, <3>2, <3>4, <3>5
    <3>7. Emptied /\ LeftBehind'
      BY <1>8, <3>4, <3>6 DEF Emptied, LeftBehind
    <3> QED
      BY <1>5, <3>4, <3>7 DEF WriteDone, Clean
  <2> QED
    BY <2>4, <2>5
<1>9. CASE i_mode = "I_REGULAR" /\ FaultBlocks(blocks, i_size, free_zones, pos, n, v, good)
  <2>1. CASE ZeroFrom(blocks, i_size)
    <3>1. \A k \in 0 .. i_size - 1 : ByteOf(blocks, k) = Held(k)
      BY <1>9, HeldInBlocks
    <3>2. /\ WriteDone(pos, n, v, FALSE)
          /\ i_mode' = "I_REGULAR" /\ ZeroFrom(blocks', i_size')
      BY <1>1, <1>4, <1>9, <2>1, <3>1, FaultBytes
    <3> QED
      BY <1>5, <3>2 DEF Clean
  <2>2. CASE LeftBehind
    <3>1. i_size = 0 /\ MappedIn(blocks) = {0} /\ pos = 0 /\ n <= MaxSize
      BY <1>1, <2>2 DEF LeftBehind
    <3>2. FaultBlocks(blocks, 0, free_zones, 0, n, v, good)
      BY <1>9, <3>1
    <3>3. WriteDone(0, n, v, FALSE) /\ Clean'
      BY <1>1, <3>1, <3>2, LeftBehindFault
    <3>4. i_mode' = "I_REGULAR"
      BY <3>2, FaultCases DEF WriteBlocks, Stored
    <3> QED
      BY <1>5, <3>1, <3>3, <3>4
  <2> QED
    BY <1>2, <1>9, <2>1, <2>2 DEF Clean
<1> QED
  BY <1>6, <1>7, <1>8, <1>9 DEF MfsWriteFault

\* Where VFS has to know the size of regular files the device has room for all of
\* them, and no block is refused.
LEMMA NoneRefused ==
    ASSUME Inv, posix, "I_REGULAR" \in workload.uses,
           NEW pos \in Nat, NEW n \in Nat \ {0}, pos + n <= MaxSize
    PROVE  Refused(blocks, pos, n, free_zones) = {}
<1> DEFINE M == MappedIn(blocks)
           missing == Missing(blocks, pos, n)
           last == MaxSize \div BLOCK_SIZE
<1>1. blocks \in Maps /\ free_zones \in Nat /\ workload \in Workloads
  BY DEF Inv, TypeOK
<1>3. workload.zones > last /\ "fault" \notin workload.uses
  BY DEF posix, OrdinaryLoads, Ordinary
<1>2. workload.zones \in Nat /\ free_zones + Cardinality(M) = workload.zones
  <2>1. Cardinality(M) \in Nat
    BY MappedFinite
  <2> HIDE DEF M
  <2>2. workload.zones \in Nat
    BY <1>1, WorkloadsAssumption
  <2>3. free_zones + Cardinality(M) + lost = workload.zones /\ lost = 0
    BY <1>3 DEF Inv, ZonesAccounted, M
  <2> QED
    BY <1>1, <2>1, <2>2, <2>3
<1>4. last \in Nat /\ BlockNrs = 0 .. last
  BY Places, Sizes DEF BlockNrs
<1>5. IsFiniteSet(BlockNrs) /\ M \in SUBSET BlockNrs /\ Cardinality(M) \in Nat
  BY MappedFinite, PositionsInBlocks
<1>6. missing \in SUBSET BlockNrs /\ missing \cap M = {}
  BY <1>1, WriteEndFacts
<1> HIDE DEF M, missing, last
<1>7. Cardinality(BlockNrs) = last + 1
  <2>1. Cardinality(0 .. last) = IF 0 > last THEN 0 ELSE last - 0 + 1
    BY <1>4, FS_Interval
  <2> QED
    BY <1>4, <2>1
<1>8. Cardinality(BlockNrs \ M) = (last + 1) - Cardinality(M)
  <2>1. BlockNrs \cap M = M
    BY <1>5
  <2>2. Cardinality(BlockNrs \ M) = Cardinality(BlockNrs) - Cardinality(BlockNrs \cap M)
    BY <1>5, FS_Difference
  <2> QED
    BY <1>7, <2>1, <2>2
<1>9. ASSUME NEW b \in missing PROVE ~(Cardinality({c \in missing : c <= b}) > free_zones)
  <2> DEFINE C == {c \in missing : c <= b}
  <2>1. C \in SUBSET (BlockNrs \ M) /\ IsFiniteSet(BlockNrs \ M)
    BY <1>5, <1>6, FS_Subset
  <2>2. Cardinality(C) <= Cardinality(BlockNrs \ M) /\ Cardinality(C) \in Nat
    BY <2>1, FS_Subset, FS_CardinalityType
  <2> HIDE DEF C
  <2>3. Cardinality(C) <= free_zones
    BY <1>1, <1>2, <1>3, <1>4, <1>5, <1>8, <2>2
  <2> QED
    BY <1>1, <2>2, <2>3 DEF C
<1> QED
  BY <1>9 DEF Refused, missing

\* What becomes of a write, and where it leaves the file position.
WriteOK(f, n) == WritePos(f) + n <= MaxSize /\ MfsWriteOK(WritePos(f), n)
NextPos(f, n) == IF WriteOK(f, n) THEN WritePos(f) + n ELSE WritePos(f)

\* The effect of a write, in VFS and for its caller.
LEMMA WriteEffect ==
    ASSUME Inv, NEW f \in Files, NEW n \in Nat \ {0}, NEW v, Write(f, n, v)
    PROVE  /\ filp[f].open /\ linked' = linked /\ vnode # NoVnode /\ i_mode # "free"
           /\ WritePos(f) \in Nat /\ NextPos(f, n) \in Nat
           /\ WritePos(f) <= i_size \/ "sparse" \in workload.uses
           /\ WritePos(f) + n <= MaxSize => MfsWrite(WritePos(f), n, v)
           /\ ~(WritePos(f) + n <= MaxSize) => UNCHANGED file
           /\ vnode' = [vnode EXCEPT !.v_size =
                          IF vnode.v_mode = "I_REGULAR" THEN Bigger(vnode.v_size, NextPos(f, n))
                          ELSE vnode.v_size]
           /\ filp' = [filp EXCEPT ![f].pos = NextPos(f, n)]
           /\ reply' = [op |-> IF WriteOK(f, n) THEN "wrote" ELSE "error",
                        pos |-> WritePos(f), v |-> v]
<1>1. filp[f].open /\ linked' = linked
  BY DEF Write, Wrote
<1>2. vnode # NoVnode /\ i_mode # "free"
  BY <1>1 DEF Inv, LinksOk
<1>3. WritePos(f) \in Nat /\ NextPos(f, n) \in Nat
  BY DEF Inv, TypeOK, WritePos, NextPos
<1>4. /\ WritePos(f) <= i_size \/ "sparse" \in workload.uses
      /\ WritePos(f) + n <= MaxSize => MfsWrite(WritePos(f), n, v)
      /\ ~(WritePos(f) + n <= MaxSize) => UNCHANGED file
  BY DEF Write, file
<1>5. vnode' = [vnode EXCEPT !.v_size =
                  IF vnode.v_mode = "I_REGULAR" THEN Bigger(vnode.v_size, NextPos(f, n))
                  ELSE vnode.v_size]
  BY DEF Write, Wrote, WriteOK, NextPos, VfsSize
<1>6. filp' = [filp EXCEPT ![f].pos = NextPos(f, n)]
  BY DEF Write, Wrote, WriteOK, NextPos
<1>7. reply' = [op |-> IF WriteOK(f, n) THEN "wrote" ELSE "error",
                pos |-> WritePos(f), v |-> v]
  BY DEF Write, Wrote, WriteOK
<1> QED
  BY <1>1, <1>2, <1>3, <1>4, <1>5, <1>6, <1>7

\* What VFS does with the outcome of a write keeps the invariant, if the file does.
LEMMA WroteOk ==
    ASSUME Inv, UNCHANGED workload, NEW f \in Files, filp[f].open, FileWritten, TailOk',
           NEW pos \in Nat, NEW n \in Nat, NEW v, NEW ok \in BOOLEAN, Wrote(f, pos, n, v, ok),
           NEW next \in Nat, next = IF ok THEN pos + n ELSE pos,
           posix /\ "I_REGULAR" \in workload.uses /\ vnode.v_mode = "I_REGULAR" =>
             i_size' = Bigger(vnode.v_size, next)
    PROVE  Inv'
<1> DEFINE size == IF vnode.v_mode = "I_REGULAR" THEN Bigger(vnode.v_size, next) ELSE vnode.v_size
<1>1. /\ linked' = linked /\ vnode' = [vnode EXCEPT !.v_size = size]
      /\ filp' = [filp EXCEPT ![f].pos = next]
  BY DEF Wrote, VfsSize
<1>2. TypeOK /\ LinksOk /\ ModesOk /\ VnodeOk
  BY DEF Inv
<1>3. vnode # NoVnode /\ i_mode # "free"
  BY <1>2 DEF LinksOk
<1>4. size \in Nat
  BY <1>2 DEF Bigger, TypeOK
<1>5. /\ vnode' \in [v_mode : FileModes, v_size : Nat] /\ vnode'.v_mode = vnode.v_mode
      /\ vnode'.v_size = size /\ vnode.v_mode # "free" /\ vnode' # NoVnode
  <2>1. vnode.v_mode # "free"
    BY <1>2, <1>3 DEF LinksOk
  <2> HIDE DEF size
  <2> QED
    BY <1>1, <1>2, <1>4, <2>1 DEF TypeOK, NoVnode
<1>6. /\ filp' \in [Files -> [open : BOOLEAN, pos : Nat, append : BOOLEAN]]
      /\ \A g \in Files : filp'[g].open = filp[g].open /\ filp'[g].append = filp[g].append
  BY <1>1, <1>2 DEF TypeOK
<1>7. TypeOK'
  BY <1>1, <1>2, <1>5, <1>6 DEF TypeOK, FileModes, FileWritten
<1>8. LinksOk'
  BY <1>1, <1>2, <1>3, <1>5, <1>6 DEF LinksOk, FileWritten
<1>9. i_mode' = "I_IMMEDIATE" => i_mode = "I_IMMEDIATE"
  BY <1>2, <1>3 DEF TypeOK, FileModes, FileWritten
<1>10. ModesOk'
  BY <1>2, <1>5, <1>9 DEF ModesOk, FileWritten
<1>11. VnodeOk'
  <2>1. posix' = posix
    BY DEF posix
  <2>2. vnode.v_mode = "I_REGULAR" => size = Bigger(vnode.v_size, next)
    OBVIOUS
  <2> HIDE DEF size
  <2> QED
    BY <1>2, <1>5, <1>6, <2>1, <2>2 DEF VnodeOk
<1> QED
  BY <1>7, <1>8, <1>10, <1>11 DEF Inv, FileWritten

\* The bytes behind the end of the file after a write.
LEMMA MfsWriteTail ==
    ASSUME Inv, NEW pos \in Nat, NEW n \in Nat \ {0}, NEW v \in Byte, i_mode # "free",
           pos + n <= MaxSize, MfsWrite(pos, n, v), UNCHANGED <<workload, lost>>,
           pos <= i_size \/ "sparse" \in workload.uses
    PROVE  TailOk'
<1>1. TypeOK /\ ModesOk /\ TailOk /\ i_size \in Nat
  BY PositionsInBlocks DEF Inv, TypeOK
<1> SUFFICES ASSUME "I_IMMEDIATE" \notin workload.uses,
                    ~({"fault", "sparse"} \subseteq workload.uses)
             PROVE  /\ i_mode' = "I_REGULAR" => ZeroFrom(blocks', i_size')
                    /\ i_mode' = "I_IMMEDIATE" /\ "truncate" \notin workload.uses =>
                         \A k \in 0 .. IMM - 1 : k >= i_size' => i_zone'[k] = 0
  BY ZeroSame DEF TailOk
<1>2. CASE i_mode = "I_IMMEDIATE" /\ pos + n > IMM /\ ConvertFails
  <2>1. i_mode' = "I_REGULAR" /\ blocks' = NoBlocks
    BY <1>1, <1>2 DEF ConvertFails, ModesOk
  <2> QED
    BY <2>1, NoBlocksFacts
<1>3. CASE i_mode = "I_IMMEDIATE" /\ pos + n <= IMM /\ WriteInode(pos, n, v)
  <2>1. /\ i_zone' = [k \in 0 .. IMM - 1 |-> IF pos <= k /\ k < pos + n THEN v ELSE i_zone[k]]
        /\ i_size' = Bigger(i_size, pos + n) /\ i_mode' = "I_IMMEDIATE"
    BY <1>3 DEF WriteInode
  <2>2. ASSUME "truncate" \notin workload.uses, NEW k \in 0 .. IMM - 1, k >= i_size'
        PROVE  i_zone'[k] = 0
    <3>1. k >= i_size /\ ~(k < pos + n)
      BY <1>1, <2>1, <2>2, Sizes DEF Bigger
    <3> QED
      BY <1>1, <1>3, <2>1, <2>2, <3>1 DEF TailOk
  <2> QED
    BY <2>1, <2>2
<1>4. CASE WriteBlocks(blocks, i_size, free_zones, pos, n, v) /\ i_mode = "I_REGULAR"
  <2>1. (ZeroFrom(blocks, i_size) \/ LeftBehind) /\ i_mode' = "I_REGULAR"
    BY <1>1, <1>4, ZeroSame DEF TailOk, WriteBlocks, Stored
  <2>2. ASSUME ZeroFrom(blocks, i_size) PROVE ZeroFrom(blocks', i_size')
    BY <1>1, <1>4, <2>2, WriteBlocksBytes DEF TypeOK
  <2>3. ASSUME LeftBehind PROVE ZeroFrom(blocks', i_size')
    <3>1. i_size = 0 /\ MappedIn(blocks) = {0} /\ pos = 0 /\ n <= MaxSize
      BY <1>1, <2>3 DEF LeftBehind
    <3>2. WriteBlocks(blocks, 0, free_zones, 0, n, v)
      BY <1>4, <3>1
    <3> QED
      BY <1>1, <3>1, <3>2, LeftBehindWrite DEF TypeOK
  <2> QED
    BY <2>1, <2>2, <2>3
<1>5. CASE /\ i_mode = "I_IMMEDIATE" /\ pos + n > IMM /\ free_zones - 1 \in Nat
           /\ WriteBlocks(Converted, 0, free_zones - 1, pos, n, v)
  <2>1. i_size <= IMM /\ 0 \in Positions
    BY <1>1, <1>5, Sizes DEF ModesOk, Positions
  <2>2. Converted \in Maps /\ ZeroFrom(Converted, i_size)
    BY <1>1, <1>5, <2>1, ConvertedFacts
  <2>3. WriteEnd(Converted, pos, n, free_zones - 1) > i_size
    BY <1>1, <1>5, <2>1, ConversionEnd
  <2>4. i_mode' = "I_REGULAR"
    BY <1>5 DEF WriteBlocks, Stored
  <2> QED
    BY <1>1, <1>5, <2>1, <2>2, <2>3, <2>4, WriteBlocksBytes DEF TypeOK
<1> QED
  BY <1>2, <1>3, <1>4, <1>5, MfsWriteCases

\* A write from a buffer that is there, whatever becomes of it.
LEMMA WriteOk ==
    ASSUME Inv, NEW f \in Files, NEW n \in Nat \ {0}, NEW v \in Bytes, Write(f, n, v),
           UNCHANGED <<workload, lost>>
    PROVE  Inv'
<1> DEFINE pos == WritePos(f)
           next == NextPos(f, n)
           ok == WriteOK(f, n)
<1>1. /\ filp[f].open /\ vnode # NoVnode /\ i_mode # "free"
      /\ pos \in Nat /\ next \in Nat
      /\ pos <= i_size \/ "sparse" \in workload.uses
      /\ pos + n <= MaxSize => MfsWrite(pos, n, v)
      /\ ~(pos + n <= MaxSize) => UNCHANGED file
  BY WriteEffect
<1>2. TypeOK /\ ModesOk /\ VnodeOk /\ v \in Byte /\ i_size \in Nat
  BY PositionsInBlocks DEF Inv, Byte, TypeOK
<1>3. Wrote(f, pos, n, v, ok) /\ next = IF ok THEN pos + n ELSE pos
  BY DEF Write, WriteOK, NextPos
<1>4. /\ ok <=> pos + n <= MaxSize /\ MfsWriteOK(pos, n)
      /\ ok \in BOOLEAN
  BY DEF WriteOK
<1> HIDE DEF pos, next, ok
<1>5. CASE ~(pos + n <= MaxSize)
  <2>1. FileWritten /\ TailOk'
    BY <1>1, <1>2, <1>5, FileKept DEF FileWritten, file, FileModes, TypeOK
  <2>2. ASSUME posix, "I_REGULAR" \in workload.uses, vnode.v_mode = "I_REGULAR"
        PROVE  i_size' = Bigger(vnode.v_size, next)
    <3>1. next = pos /\ i_size' = i_size
      BY <1>1, <1>3, <1>4, <1>5 DEF file
    <3>2. pos <= i_size /\ vnode.v_size = i_size
      BY <1>1, <1>2, <2>2 DEF posix, OrdinaryLoads, Ordinary, VnodeOk
    <3> QED
      BY <1>1, <1>2, <3>1, <3>2 DEF Bigger
  <2> QED
    BY <1>1, <1>3, <1>4, <2>1, <2>2, WroteOk
<1>6. CASE pos + n <= MaxSize
  <2>1. MfsWrite(pos, n, v)
    BY <1>1, <1>6
  <2>2. FileWritten /\ TailOk'
    BY <1>1, <1>2, <1>6, <2>1, MfsWriteOk, MfsWriteTail
  <2>3. ASSUME posix, "I_REGULAR" \in workload.uses, vnode.v_mode = "I_REGULAR"
        PROVE  i_size' = Bigger(vnode.v_size, next)
    <3>1. i_mode = "I_REGULAR" /\ vnode.v_size = i_size
      BY <1>2, <2>3 DEF ModesOk, VnodeOk
    <3>2. Refused(blocks, pos, n, free_zones) = {}
      BY <1>1, <1>6, <2>3, NoneRefused
    <3>3. MfsWriteOK(pos, n) /\ WriteBlocks(blocks, i_size, free_zones, pos, n, v)
      BY <2>1, <3>1, <3>2 DEF MfsWriteOK, MfsWrite
    <3>4. next = pos + n
      BY <1>3, <1>4, <1>6, <3>3
    <3>5. i_size' = IF pos + n > i_size THEN pos + n ELSE i_size
      BY <3>2, <3>3 DEF WriteBlocks, Stored, WriteEnd
    <3> QED
      BY <1>1, <1>2, <3>1, <3>4, <3>5 DEF Bigger
  <2> QED
    BY <1>1, <1>3, <1>4, <2>2, <2>3, WroteOk
<1> QED
  BY <1>5, <1>6

\* A write from a buffer that is not there in whole.
LEMMA WriteFaultOk ==
    ASSUME Inv, NEW f \in Files, NEW n \in Nat \ {0}, NEW v \in Bytes, NEW good \in 0 .. n - 1,
           WriteFault(f, n, v, good), UNCHANGED workload
    PROVE  Inv'
<1> DEFINE pos == WritePos(f)
<1>1. /\ "fault" \in workload.uses /\ filp[f].open
      /\ pos <= i_size \/ "sparse" \in workload.uses
      /\ pos + n <= MaxSize /\ MfsWriteFault(pos, n, v, good)
      /\ Wrote(f, pos, n, v, FALSE)
  BY DEF WriteFault
<1>2. pos \in Nat
  BY DEF Inv, TypeOK, WritePos
<1>3. i_mode # "free" /\ v \in Byte
  BY <1>1 DEF Inv, LinksOk, Byte
<1> HIDE DEF pos
<1>4. FileWritten
  BY <1>1, <1>2, <1>3, MfsFaultOk
<1>5. TailOk'
  <2>1. CASE "sparse" \in workload.uses \/ "I_IMMEDIATE" \in workload.uses
    BY <1>1, <2>1 DEF TailOk
  <2>2. CASE "sparse" \notin workload.uses /\ "I_IMMEDIATE" \notin workload.uses
    BY <1>1, <1>2, <1>3, <2>2, MfsFaultBytes
  <2> QED
    BY <2>1, <2>2
<1>6. ~posix
  BY <1>1 DEF posix, OrdinaryLoads, Ordinary
<1> QED
  BY <1>1, <1>2, <1>4, <1>5, <1>6, WroteOk

-----------------------------------------------------------------------------
(* No zone is lost.                                                          *)

\* Processes ask for a positive number of bytes.
LEMMA CountsArePositive ==
    ASSUME workload \in Workloads, NEW n \in workload.counts
    PROVE  n \in Nat \ {0} /\ n \in AllCounts
<1>1. workload.counts \in SUBSET (1 .. MaxSize)
  BY WorkloadsAssumption
<1>2. n \in 1 .. MaxSize
  BY <1>1
<1> QED
  BY <1>2, Sizes DEF AllCounts

\* A call whose buffer, if it has one, is there; or a write from one that is not.
LEMMA NextCases ==
    ASSUME Next
    PROVE  /\ UNCHANGED workload
           /\ \/ Calls /\ UNCHANGED lost
              \/ \E f \in Files : \E n \in workload.counts : \E v \in Bytes :
                   \E good \in 0 .. n - 1 : WriteFault(f, n, v, good)
  BY Zenon DEF Next

\* The calls.
LEMMA CallCases ==
    ASSUME Calls
    PROVE  \/ \E f \in Files, append \in BOOLEAN :
                Create(f, append) \/ OpenAgain(f, append) \/ OpenTrunc(f, append)
           \/ Unlink
           \/ \E length \in Positions : Truncate(length)
           \/ \E f \in Files : Close(f)
           \/ \E f \in Files, newpos \in Positions : Lseek(f, newpos)
           \/ \E f \in Files : ReadFault(f)
           \/ \E f \in Files : \E n \in workload.counts : Read(f, n)
           \/ \E f \in Files : \E n \in workload.counts : \E v \in Bytes : Write(f, n, v)
  BY Zenon DEF Calls

\* Every call preserves the invariant.
LEMMA CallsOk ==
    ASSUME Inv, Calls, UNCHANGED <<workload, lost>>
    PROVE  Inv'
<1>1. workload \in Workloads
  BY DEF Inv, TypeOK
<1>2. ASSUME NEW f \in Files, NEW append \in BOOLEAN,
             Create(f, append) \/ OpenAgain(f, append) \/ OpenTrunc(f, append)
      PROVE  Inv'
  BY <1>2, CreateOk, OpenAgainOk, OpenTruncOk
<1>3. ASSUME Unlink PROVE Inv'
  BY <1>3, UnlinkOk
<1>4. ASSUME NEW length \in Positions, Truncate(length) PROVE Inv'
  BY <1>4, TruncateCallOk
<1>5. ASSUME NEW f \in Files, Close(f) PROVE Inv'
  BY <1>5, CloseOk
<1>6. ASSUME NEW f \in Files, NEW newpos \in Positions, Lseek(f, newpos) PROVE Inv'
  BY <1>6, LseekOk
<1>7. ASSUME NEW f \in Files, ReadFault(f) PROVE Inv'
  BY <1>7, ReadFaultOk
<1>8. ASSUME NEW f \in Files, NEW n \in workload.counts, Read(f, n) PROVE Inv'
  BY <1>1, <1>8, ReadOk, CountsArePositive
<1>9. ASSUME NEW f \in Files, NEW n \in workload.counts, NEW v \in Bytes, Write(f, n, v)
      PROVE  Inv'
  BY <1>1, <1>9, WriteOk, CountsArePositive
<1> QED
  BY <1>2, <1>3, <1>4, <1>5, <1>6, <1>7, <1>8, <1>9, CallCases

\* Every step does.
LEMMA NextOk ==
    ASSUME Inv, [Next]_vars
    PROVE  Inv'
<1>1. CASE UNCHANGED vars
  <2>1. UNCHANGED <<workload, lost, linked, file, vnode, filp>>
    BY <1>1 DEF vars, file
  <2>2. TypeOK' /\ LinksOk' /\ ModesOk' /\ VnodeOk'
    BY <2>1, FileKept DEF Inv, TypeOK, LinksOk, ModesOk, VnodeOk, posix, file
  <2> QED
    BY <2>1, <2>2, FileKept DEF Inv
<1>2. CASE Next
  <2>1. UNCHANGED workload /\ workload \in Workloads
    BY <1>2, NextCases DEF Inv, TypeOK
  <2>2. CASE Calls /\ UNCHANGED lost
    BY <2>1, <2>2, CallsOk
  <2>3. ASSUME NEW f \in Files, NEW n \in workload.counts, NEW v \in Bytes,
               NEW good \in 0 .. n - 1, WriteFault(f, n, v, good)
        PROVE  Inv'
    BY <2>1, <2>3, WriteFaultOk, CountsArePositive
  <2> QED
    BY <1>2, <2>2, <2>3, NextCases
<1> QED
  BY <1>1, <1>2

\* The inductive invariant.
THEOREM Invariant == Spec => []Inv
<1>1. Init => Inv
  BY InitOk
<1>2. Inv /\ [Next]_vars => Inv'
  BY NextOk
<1> QED
  BY <1>1, <1>2, PTL DEF Spec

\* Whatever processes do with the file, and on whatever device: each of its zones is
\* free or a block of the file, unless a copy into an immediate inode failed and the
\* zone was lost there, which takes a bad buffer.
THEOREM NoZoneLost == Spec => []ZonesAccounted
<1>1. Inv => ZonesAccounted
  BY DEF Inv
<1> QED
  BY <1>1, Invariant, PTL

-----------------------------------------------------------------------------
(* Reads return the bytes of the file.                                       *)

\* Only a read replies like one, and only a write.
LEMMA OtherReplies ==
    ASSUME Next
    PROVE  \/ \E f \in Files : \E n \in workload.counts : Read(f, n) /\ reply'.op = "read"
           \/ \E f \in Files : \E n \in workload.counts : \E v \in Bytes :
                Write(f, n, v) /\ reply'.op \in {"wrote", "error"}
           \/ \E f \in Files : \E n \in workload.counts : \E v \in Bytes :
                \E good \in 0 .. n - 1 : WriteFault(f, n, v, good) /\ reply'.op = "error"
           \/ reply'.op \in {"none", "resized"}
<1>1. ASSUME NEW f \in Files, NEW append \in BOOLEAN,
             Create(f, append) \/ OpenAgain(f, append) \/ OpenTrunc(f, append)
      PROVE  reply' = NoReply
  <2>1. Opens(f, append) => reply' = NoReply
    BY DEF Opens
  <2> QED
    BY <1>1, <2>1 DEF Create, OpenAgain, OpenTrunc
<1>2. ASSUME Unlink PROVE reply' = NoReply
  BY <1>2 DEF Unlink
<1>3. ASSUME NEW length \in Positions, Truncate(length) PROVE reply'.op = "resized"
  <2>1. reply' = [op |-> "resized", length |-> length]
    BY <1>3 DEF Truncate
  <2> QED
    BY <2>1
<1>4. ASSUME NEW f \in Files, Close(f) PROVE reply' = NoReply
  BY <1>4 DEF Close
<1>5. ASSUME NEW f \in Files, NEW newpos \in Positions, Lseek(f, newpos) PROVE reply' = NoReply
  BY <1>5 DEF Lseek
<1>6. ASSUME NEW f \in Files, NEW n \in workload.counts, NEW v \in Bytes, Write(f, n, v)
      PROVE  reply'.op \in {"wrote", "error"}
  <2>1. reply' = [op |-> IF WriteOK(f, n) THEN "wrote" ELSE "error",
                  pos |-> WritePos(f), v |-> v]
    BY <1>6 DEF Write, Wrote, WriteOK
  <2> QED
    BY <2>1
<1>7. NoReply.op = "none"
  BY DEF NoReply
<1>9. ASSUME NEW f \in Files, ReadFault(f) PROVE reply' = NoReply
  BY <1>9 DEF ReadFault
<1>10. ASSUME NEW f \in Files, NEW n \in workload.counts, NEW v \in Bytes,
              NEW good \in 0 .. n - 1, WriteFault(f, n, v, good)
       PROVE  reply'.op = "error"
  <2>1. reply' = [op |-> "error", pos |-> WritePos(f), v |-> v]
    BY <1>10 DEF WriteFault, Wrote
  <2> QED
    BY <2>1
<1>8. ASSUME NEW f \in Files, NEW n \in workload.counts, Read(f, n) PROVE reply'.op = "read"
  <2>1. PICK data \in ReadData(filp[f].pos, n) :
          reply' = [op |-> "read", pos |-> filp[f].pos, n |-> n,
                    count |-> Cardinality(DOMAIN data), data |-> data]
    BY <1>8 DEF Read
  <2> QED
    BY <2>1
<1> QED
  BY <1>1, <1>2, <1>3, <1>4, <1>5, <1>6, <1>7, <1>8, <1>9, <1>10, NextCases, CallCases

\* A read replies with the bytes of the file, in whole or of a regular file.
LEMMA ReadReply ==
    ASSUME Inv, "part" \notin workload.uses,
           NEW f \in Files, NEW n \in Nat \ {0}, Read(f, n)
    PROVE  ReadIsRight'
<1>1. PICK data \in ReadData(filp[f].pos, n) :
        /\ filp[f].pos \in Nat
        /\ reply' = [op |-> "read", pos |-> filp[f].pos, n |-> n,
                     count |-> Cardinality(DOMAIN data), data |-> data]
        /\ UNCHANGED file
        /\ \/ "part" \in workload.uses \/ i_mode = "I_REGULAR"
           \/ filp[f].pos >= i_size \/ (filp[f].pos = 0 /\ n >= i_size)
  BY ReadEffect
<1> DEFINE pos == filp[f].pos
           count == Cardinality(DOMAIN data)
<1>2. i_size \in Nat
  BY PositionsInBlocks DEF Inv, TypeOK
<1>3. /\ count = IF pos >= i_size THEN 0 ELSE IF n < i_size - pos THEN n ELSE i_size - pos
      /\ \A i \in 0 .. count - 1 : data[i] = Held(pos + i)
  BY <1>1, ReadFacts
<1>4. reply'.pos = pos /\ reply'.n = n /\ reply'.count = count /\ reply'.data = data
  BY <1>1
<1>5. i_size' = i_size /\ \A k : Held(k)' = Held(k)
  BY <1>1 DEF file, Held
<1> HIDE DEF pos, count
<1>6. pos \in Nat
  BY <1>1 DEF pos
<1>7. count = Smaller(n, Bigger(0, i_size - pos))
  BY <1>2, <1>3, <1>6 DEF Smaller, Bigger
<1> QED
  BY <1>3, <1>4, <1>5, <1>7 DEF ReadIsRight

\* Where nobody reads parts of immediate files, a read returns the bytes of the file
\* from its position on, and as many as were asked for or are left.
THEOREM ReadsRight ==
    ASSUME \A w \in Workloads : "part" \notin w.uses
    PROVE  Spec => []ReadIsRight
<1>1. Init => ReadIsRight
  BY DEF Init, ReadIsRight, NoReply
<1>2. Inv /\ ReadIsRight /\ [Next]_vars => ReadIsRight'
  <2> SUFFICES ASSUME Inv, ReadIsRight, [Next]_vars PROVE ReadIsRight'
    OBVIOUS
  <2>1. workload \in Workloads /\ "part" \notin workload.uses
    BY DEF Inv, TypeOK
  <2>2. CASE UNCHANGED vars
    <3>1. i_size' = i_size /\ reply' = reply /\ \A k : Held(k)' = Held(k)
      BY <2>2 DEF vars, Held
    <3> QED
      BY <3>1 DEF ReadIsRight
  <2>3. ASSUME NEW f \in Files, NEW n \in workload.counts, Read(f, n) PROVE ReadIsRight'
    BY <2>1, <2>3, ReadReply, CountsArePositive
  <2>4. CASE Next
    <3>1. CASE reply'.op # "read"
      BY <3>1 DEF ReadIsRight
    <3> QED
      BY <2>3, <2>4, <3>1, OtherReplies
  <2> QED
    BY <2>2, <2>4
<1> QED
  BY <1>1, <1>2, Invariant, PTL DEF Spec

-----------------------------------------------------------------------------
(* Writes change the bytes that they name, and no others.                    *)

\* Workloads in which the bytes of a file are what was written: the device has a
\* zone for the conversion, nobody resizes immediate files, and nobody who may find
\* old bytes behind the end of an emptied file, by O_TRUNC or by a failed conversion,
\* leaves a gap there.
Careful(w) == /\ w.zones > 0 /\ "I_IMMEDIATE" \notin w.uses
              /\ ~({"truncate", "sparse"} \subseteq w.uses)
              /\ ~({"fault", "sparse"} \subseteq w.uses)

\* With a zone on the device the conversion of the only file finds one, if none can
\* have been lost.
LEMMA ConversionWorks ==
    ASSUME Inv, workload.zones > 0, "fault" \notin workload.uses, NEW pos, NEW n
    PROVE  ~ConversionFails(pos, n)
<1>1. i_mode = "I_IMMEDIATE" => Cardinality(MappedIn(blocks)) = 0
  BY NoneMapped
<1>2. free_zones \in Nat /\ workload.zones \in Nat /\ lost = 0
  BY WorkloadsAssumption DEF Inv, TypeOK, ZonesAccounted
<1> QED
  BY <1>1, <1>2 DEF Inv, ZonesAccounted, ConversionFails

\* What a write does in a careful workload.
LEMMA CarefulWrite ==
    ASSUME Inv, Careful(workload), NEW f \in Files, NEW n \in Nat \ {0}, NEW v \in Bytes,
           Write(f, n, v), UNCHANGED <<workload, lost>>
    PROVE  \/ UNCHANGED file /\ ~WriteOK(f, n)
           \/ WriteDone(WritePos(f), n, v, WriteOK(f, n))
<1> DEFINE pos == WritePos(f)
<1>1. /\ i_mode # "free" /\ pos \in Nat
      /\ pos <= i_size \/ "sparse" \in workload.uses
      /\ pos + n <= MaxSize => MfsWrite(pos, n, v)
      /\ ~(pos + n <= MaxSize) => UNCHANGED file
  BY WriteEffect
<1>2. v \in Byte
  BY DEF Byte
<1>3. /\ "I_IMMEDIATE" \notin workload.uses
      /\ ~({"fault", "sparse"} \subseteq workload.uses)
      /\ pos <= i_size \/ "truncate" \notin workload.uses
      /\ workload.zones > 0
  BY <1>1 DEF Careful
<1>4. WriteOK(f, n) <=> pos + n <= MaxSize /\ MfsWriteOK(pos, n)
  BY DEF WriteOK
<1> HIDE DEF pos
<1>5. CASE ~(pos + n <= MaxSize)
  BY <1>1, <1>4, <1>5
<1>6. CASE pos + n <= MaxSize /\ ~ConversionFails(pos, n)
  <2>1. \E end \in pos .. pos + n : /\ BytesWritten(pos, end, v)
                                    /\ MfsWriteOK(pos, n) <=> end = pos + n
    BY <1>1, <1>2, <1>3, <1>6, MfsWriteBytes
  <2> QED
    BY <1>4, <1>6, <2>1 DEF pos, WriteDone
<1>7. CASE pos + n <= MaxSize /\ ConversionFails(pos, n)
  <2>1. "fault" \in workload.uses
    BY <1>3, <1>7, ConversionWorks
  <2>2. i_mode = "I_IMMEDIATE" /\ ConvertFails /\ ~MfsWriteOK(pos, n)
    BY <1>1, <1>7, MfsWriteCases
  <2>3. Emptied
    BY <2>2 DEF ConvertFails, Emptied
  <2> QED
    BY <1>4, <2>1, <2>2, <2>3 DEF WriteDone
<1> QED
  BY <1>5, <1>6, <1>7

\* So does one from a buffer that is not there in whole.
LEMMA CarefulFault ==
    ASSUME Inv, Careful(workload), NEW f \in Files, NEW n \in Nat \ {0}, NEW v \in Bytes,
           NEW good \in 0 .. n - 1, WriteFault(f, n, v, good), UNCHANGED workload
    PROVE  /\ WritePos(f) \in Nat /\ reply' = [op |-> "error", pos |-> WritePos(f), v |-> v]
           /\ WriteDone(WritePos(f), n, v, FALSE)
<1>1. /\ "fault" \in workload.uses /\ filp[f].open
      /\ WritePos(f) <= i_size \/ "sparse" \in workload.uses
      /\ WritePos(f) + n <= MaxSize /\ MfsWriteFault(WritePos(f), n, v, good)
      /\ reply' = [op |-> "error", pos |-> WritePos(f), v |-> v]
  BY DEF WriteFault, Wrote
<1>2. WritePos(f) \in Nat
  BY DEF Inv, TypeOK, WritePos
<1>3. i_mode # "free" /\ v \in Byte
  BY <1>1 DEF Inv, LinksOk, Byte
<1>4. /\ "I_IMMEDIATE" \notin workload.uses /\ "sparse" \notin workload.uses
      /\ WritePos(f) <= i_size
  BY <1>1 DEF Careful
<1> QED
  BY <1>1, <1>2, <1>3, <1>4, MfsFaultBytes

\* The two exceptions and the rule of WriteIsExact.
Exact ==
    reply'.op \in {"wrote", "error"} =>
      \/ "fault" \in workload.uses /\ reply'.op = "error" /\ Emptied
      \/ /\ i_size' >= i_size
         /\ \A k \in 0 .. i_size - 1 : Held(k)' \in {Held(k), reply'.v}
         /\ \A k \in i_size .. Smaller(reply'.pos, i_size') - 1 : Held(k)' = 0

\* What WriteDone says is exact.
LEMMA DoneIsExact ==
    ASSUME i_size \in Nat, NEW pos \in Nat, NEW n \in Nat, NEW v, NEW ok \in BOOLEAN,
           reply' = [op |-> IF ok THEN "wrote" ELSE "error", pos |-> pos, v |-> v],
           WriteDone(pos, n, v, ok)
    PROVE  Exact
<1>1. reply'.pos = pos /\ reply'.v = v /\ reply'.op = IF ok THEN "wrote" ELSE "error"
  OBVIOUS
<1>2. CASE "fault" \in workload.uses /\ Emptied /\ ~ok
  BY <1>1, <1>2 DEF Exact
<1>3. ASSUME NEW end \in pos .. pos + n, BytesWritten(pos, end, v)
      PROVE  Exact
  <2> DEFINE s == Bigger(i_size, end)
  <2>1. /\ i_size' = s /\ s \in Nat /\ s >= i_size
        /\ \A k \in 0 .. s - 1 :
             /\ pos <= k /\ k < end => Held(k)' = v
             /\ ~(pos <= k /\ k < end) /\ k < i_size => Held(k)' = Held(k)
             /\ ~(pos <= k /\ k < end) /\ ~(k < i_size) => Held(k)' = 0
    BY <1>3 DEF BytesWritten, Bigger
  <2> HIDE DEF s
  <2>2. ASSUME NEW k \in 0 .. i_size - 1 PROVE Held(k)' \in {Held(k), v}
    <3>1. k \in 0 .. s - 1 /\ k < i_size
      BY <2>1
    <3> QED
      BY <2>1, <3>1
  <2>3. ASSUME NEW k \in i_size .. Smaller(pos, s) - 1 PROVE Held(k)' = 0
    <3>1. k \in 0 .. s - 1 /\ ~(k < i_size) /\ ~(pos <= k)
      BY <2>1 DEF Smaller
    <3> QED
      BY <2>1, <3>1
  <2> QED
    BY <1>1, <2>1, <2>2, <2>3 DEF Exact
<1> QED
  BY <1>2, <1>3 DEF WriteDone

\* Where there is a zone for the conversion, nobody resizes an immediate file, and
\* files that are emptied are not written behind their ends: a write adds or replaces
\* bytes by those it was given, whether or not it comes to its end, loses none, and
\* what it skips reads as zeros; if its buffer is bad it may empty a file it converts.
THEOREM WritesExact ==
    ASSUME \A w \in Workloads : Careful(w)
    PROVE  Spec => WriteIsExact
<1>1. ASSUME Inv, Next PROVE Exact
  <2>1. Careful(workload) /\ workload \in Workloads /\ i_size \in Nat
    BY <1>1, PositionsInBlocks DEF Inv, TypeOK
  <2>2. UNCHANGED workload
    BY <1>1, NextCases
  <2>3. ASSUME NEW f \in Files, NEW n \in workload.counts, NEW v \in Bytes, Write(f, n, v),
               UNCHANGED lost
        PROVE  Exact
    <3>1. n \in Nat \ {0} /\ n \in Nat
      BY <2>1, CountsArePositive
    <3>2. /\ WritePos(f) \in Nat
          /\ reply' = [op |-> IF WriteOK(f, n) THEN "wrote" ELSE "error",
                       pos |-> WritePos(f), v |-> v]
          /\ WriteOK(f, n) \in BOOLEAN
      BY <1>1, <2>3, <3>1, WriteEffect DEF WriteOK
    <3>3. CASE UNCHANGED file
      <4>1. i_size' = i_size /\ \A k : Held(k)' = Held(k)
        BY <3>3 DEF file, Held
      <4>2. \A k : k \notin i_size .. Smaller(WritePos(f), i_size) - 1
        BY <2>1, <3>2 DEF Smaller
      <4> QED
        BY <2>1, <3>2, <4>1, <4>2 DEF Exact
    <3>4. CASE WriteDone(WritePos(f), n, v, WriteOK(f, n))
      BY <2>1, <3>1, <3>2, <3>4, DoneIsExact
    <3> QED
      BY <1>1, <2>1, <2>2, <2>3, <3>1, <3>3, <3>4, CarefulWrite
  <2>4. ASSUME NEW f \in Files, NEW n \in workload.counts, NEW v \in Bytes,
               NEW good \in 0 .. n - 1, WriteFault(f, n, v, good)
        PROVE  Exact
    <3>1. n \in Nat \ {0} /\ n \in Nat
      BY <2>1, CountsArePositive
    <3>2. /\ WritePos(f) \in Nat
          /\ reply' = [op |-> "error", pos |-> WritePos(f), v |-> v]
          /\ WriteDone(WritePos(f), n, v, FALSE)
      BY <1>1, <2>1, <2>2, <2>4, <3>1, CarefulFault
    <3> QED
      BY <2>1, <3>1, <3>2, DoneIsExact
  <2>5. CASE reply'.op \in {"none", "resized"}
    BY <2>5 DEF Exact
  <2>6. CASE Calls /\ UNCHANGED lost
    <3>1. \/ \E f \in Files : \E n \in workload.counts : Read(f, n) /\ reply'.op = "read"
          \/ \E f \in Files : \E n \in workload.counts : \E v \in Bytes : Write(f, n, v)
          \/ \E f \in Files : \E n \in workload.counts : \E v \in Bytes :
               \E good \in 0 .. n - 1 : WriteFault(f, n, v, good)
          \/ reply'.op \in {"none", "resized"}
      BY <1>1, OtherReplies
    <3>2. CASE reply'.op = "read"
      BY <3>2 DEF Exact
    <3> QED
      BY <2>3, <2>4, <2>5, <2>6, <3>1, <3>2
  <2> QED
    BY <1>1, <2>4, <2>6, NextCases
<1>2. ASSUME Inv, [Next]_vars PROVE [Exact]_vars
  BY <1>1, <1>2
<1>3. WriteIsExact <=> [][Exact]_vars
  BY DEF WriteIsExact, Exact
<1> QED
  BY <1>2, <1>3, Invariant, PTL DEF Spec

-----------------------------------------------------------------------------
(* The file is one of PosixFile, where processes use it as Ordinary says.    *)

\* The empty sequence is the function on nothing.
LEMMA NothingRead ==
    ASSUME NEW e, DOMAIN e = {}, e = [i \in DOMAIN e |-> e[i]]
    PROVE  e = << >>
<1>1. 1 .. 0 = {}
  OBVIOUS
<1>2. e \in [1 .. 0 -> {}]
  BY <1>1
<1>3. e \in Seq({})
  BY <1>2
<1>4. Len(e) = 0
  BY <1>1, <1>3
<1> QED
  BY <1>3, <1>4, EmptySeq

\* A file of bytes 0 to size - 1 ends there.
LEMMA EndOfBytes ==
    ASSUME NEW size \in Nat, NEW c, DOMAIN c = 0 .. size - 1, c = [k \in DOMAIN c |-> c[k]]
    PROVE  /\ Posix!EndOf(c) = size
           /\ size = 0 => c = Posix!Empty
<1>1. size = 0 => c = Posix!Empty
  BY DEF Posix!Empty
<1>2. size # 0 => c # Posix!Empty
  <2>1. DOMAIN Posix!Empty = {}
    BY DEF Posix!Empty
  <2>2. size # 0 => 0 \in DOMAIN c
    OBVIOUS
  <2> QED
    BY <2>1, <2>2
<1>3. ASSUME size # 0 PROVE Posix!EndOf(c) = size
  <2> DEFINE isLast(k) == k \in DOMAIN c /\ k + 1 \notin DOMAIN c
  <2>1. isLast(size - 1)
    BY <1>3
  <2>2. \A k : isLast(k) => k = size - 1
    BY <1>3
  <2>3. (CHOOSE k \in DOMAIN c : k + 1 \notin DOMAIN c) = size - 1
    BY <2>1, <2>2
  <2>4. Posix!EndOf(c) = 1 + (size - 1)
    BY <1>2, <1>3, <2>3 DEF Posix!EndOf
  <2> QED
    BY <2>4
<1>4. size = 0 => Posix!EndOf(c) = size
  BY <1>1 DEF Posix!EndOf
<1> QED
  BY <1>1, <1>3, <1>4

\* What the mapping makes of a state of an ordinary workload.
LEMMA View ==
    ASSUME TypeOK, posix
    PROVE  /\ Posix!EndOf(Contents) = i_size /\ Posix!Size = i_size
           /\ i_size = 0 => Contents = Posix!Empty
           /\ Posix!IsOpen <=> \E f \in Files : filp[f].open
<1>1. i_size \in Nat
  BY PositionsInBlocks DEF TypeOK
<1>2. DOMAIN Contents = 0 .. i_size - 1 /\ Contents = [k \in DOMAIN Contents |-> Contents[k]]
  BY DEF Contents
<1>3. Posix!EndOf(Contents) = i_size /\ (i_size = 0 => Contents = Posix!Empty)
  BY <1>1, <1>2, EndOfBytes
<1>4. Posix!Size = i_size
  BY <1>3 DEF Posix!Size
<1>5. Posix!IsOpen <=> \E f \in Files : filp[f].open
  BY DEF Posix!IsOpen
<1> QED
  BY <1>3, <1>4, <1>5

\* The file's contents stay when the file does.
LEMMA ContentsKept ==
    ASSUME UNCHANGED file
    PROVE  Contents' = Contents /\ \A k : Held(k)' = Held(k)
<1>1. \A k : Held(k)' = Held(k)
  BY DEF file, Held
<1>2. i_size' = i_size
  BY DEF file
<1> QED
  BY <1>1, <1>2 DEF Contents

\* An emptied file has no bytes.
LEMMA ContentsEmpty ==
    ASSUME i_size' = 0
    PROVE  Contents' = Posix!Empty
<1>1. DOMAIN Contents' = 0 .. 0 - 1
  BY DEF Contents
<1> QED
  BY <1>1 DEF Contents, Posix!Empty

\* Opening a file: it is new and has no bytes, or it is there and keeps or loses them.
LEMMA OpenMaps ==
    ASSUME Inv, posix, UNCHANGED workload, NEW f \in Files, NEW append \in BOOLEAN,
           Create(f, append) \/ OpenAgain(f, append) \/ OpenTrunc(f, append)
    PROVE  Posix!Open(f, append)
<1>1. TypeOK /\ LinksOk /\ posix'
  BY DEF Inv, posix
<1>2. /\ ~filp[f].open /\ reply' = NoReply /\ linked' = TRUE
      /\ filp' = [filp EXCEPT ![f] = [open |-> TRUE, pos |-> 0, append |-> append]]
      /\ ~linked => \A g \in Files : ~filp[g].open
      /\ UNCHANGED file \/ i_size' = 0
  <2>1. Opens(f, append) =>
          /\ ~filp[f].open /\ reply' = NoReply
          /\ filp' = [filp EXCEPT ![f] = [open |-> TRUE, pos |-> 0, append |-> append]]
    BY DEF Opens, NewFilp
  <2>2. CASE Create(f, append)
    <3>1. vnode = NoVnode
      BY <1>1, <2>2 DEF Create, LinksOk
    <3> QED
      BY <1>1, <2>1, <2>2, <3>1 DEF Create, LinksOk
  <2>3. CASE OpenAgain(f, append)
    BY <1>1, <2>1, <2>3 DEF OpenAgain, file, TypeOK
  <2>4. CASE OpenTrunc(f, append)
    BY <1>1, <2>1, <2>4 DEF OpenTrunc, truncate_inode, TypeOK
  <2> QED
    BY <2>2, <2>3, <2>4
<1>3. Contents' \in {Contents, Posix!Empty}
  BY <1>2, ContentsKept, ContentsEmpty
<1>4. Posix!IsOpen <=> \E g \in Files : filp[g].open
  BY <1>1, View
<1> QED
  BY <1>1, <1>2, <1>3, <1>4 DEF Posix!Open, Posix!Silent, NoReply

\* Closing it: the last close of a file without a name takes its bytes.
LEMMA CloseMaps ==
    ASSUME Inv, posix, UNCHANGED workload, NEW f \in Files, Close(f)
    PROVE  Posix!Close(f)
<1> DEFINE shared == \E g \in Files \ {f} : filp[g].open
<1>1. TypeOK /\ posix'
  BY DEF Inv, posix
<1>2. /\ filp[f].open /\ reply' = NoReply /\ linked' = linked
      /\ filp' = [filp EXCEPT ![f] = [open |-> FALSE, pos |-> 0, append |-> FALSE]]
      /\ shared \/ linked => UNCHANGED file
      /\ ~shared /\ ~linked => i_size' = 0
  BY DEF Close, Closed, Forget, file
<1>3. shared <=> \E g \in Files : filp'[g].open
  BY <1>1, <1>2 DEF TypeOK
<1> HIDE DEF shared
<1>4. Contents' = IF linked \/ (\E g \in Files : filp'[g].open) THEN Contents ELSE Posix!Empty
  BY <1>2, <1>3, ContentsKept, ContentsEmpty
<1>5. Posix!IsOpen' <=> \E g \in Files : filp'[g].open
  BY <1>1 DEF Posix!IsOpen
<1> QED
  BY <1>1, <1>2, <1>4, <1>5 DEF Posix!Close, Posix!Silent, NoReply

\* Removing its name: nobody who has it open loses it.
LEMMA UnlinkMaps ==
    ASSUME Inv, posix, UNCHANGED workload, Unlink
    PROVE  Posix!Unlink
<1>1. TypeOK /\ LinksOk /\ posix'
  BY DEF Inv, posix
<1>2. /\ linked /\ linked' = FALSE /\ reply' = NoReply /\ filp' = filp
      /\ vnode # NoVnode => UNCHANGED file
      /\ vnode = NoVnode => i_size' = 0
  BY DEF Unlink, Forget, file
<1>3. vnode # NoVnode <=> \E g \in Files : filp[g].open
  BY <1>1 DEF LinksOk
<1>4. Contents' = IF \E g \in Files : filp[g].open THEN Contents ELSE Posix!Empty
  BY <1>2, <1>3, ContentsKept, ContentsEmpty
<1>5. Posix!IsOpen <=> \E g \in Files : filp[g].open
  BY <1>1, View
<1> QED
  BY <1>1, <1>2, <1>4, <1>5 DEF Posix!Unlink, Posix!Silent, NoReply

\* Setting a position.
LEMMA LseekMaps ==
    ASSUME Inv, posix, UNCHANGED workload, NEW f \in Files, NEW newpos \in Positions,
           Lseek(f, newpos)
    PROVE  Posix!Lseek(f, newpos)
<1>1. posix'
  BY DEF posix
<1>2. /\ filp[f].open /\ filp' = [filp EXCEPT ![f].pos = newpos] /\ reply' = NoReply
      /\ UNCHANGED <<linked, file>>
  BY DEF Lseek, file
<1>3. Contents' = Contents
  BY <1>2, ContentsKept
<1> QED
  BY <1>1, <1>2, <1>3 DEF Posix!Lseek, Posix!Silent, NoReply

\* Another length: bytes before it stay, bytes behind the old end are zero.  Where VFS
\* does nothing, it knows that the file has that length.
LEMMA TruncateMaps ==
    ASSUME Inv, posix, UNCHANGED <<workload, lost>>, NEW length \in Positions, Truncate(length)
    PROVE  Posix!Truncate(length)
<1>1. TypeOK /\ ModesOk /\ LinksOk /\ TailOk /\ ZonesAccounted /\ posix'
  BY DEF Inv, posix
<1>2. /\ UNCHANGED <<linked, filp>> /\ i_mode \in workload.uses
      /\ reply' = [op |-> "resized", length |-> length]
      /\ truncate_inode(length) \/ (UNCHANGED file /\ i_size = length)
  BY ResizeFacts
<1>3. linked \/ \E g \in Files : filp[g].open
  BY <1>1 DEF Truncate, LinksOk
<1>4. i_mode = "I_REGULAR" /\ "I_IMMEDIATE" \notin workload.uses /\ "fault" \notin workload.uses
  <2>1. workload.uses \cap {"end", "part", "I_IMMEDIATE", "fault"} = {}
    BY DEF posix, OrdinaryLoads, Ordinary
  <2>2. workload.uses \subseteq Uses
    BY <1>1, WorkloadsAssumption DEF TypeOK
  <2> QED
    BY <1>1, <1>2, <2>1, <2>2 DEF TypeOK, FileModes, Uses
<1>5. i_size \in Nat /\ length \in Nat /\ i_size \in Positions
  BY <1>1, PositionsInBlocks DEF TypeOK
<1>6. ZeroFrom(blocks, i_size)
  BY <1>1, <1>4, ZeroSame DEF TailOk, LeftBehind
<1>7. Contents' = [k \in 0 .. length - 1 |-> IF k < i_size THEN Contents[k] ELSE 0]
  <2>1. CASE UNCHANGED file /\ i_size = length
    <3>1. Contents' = Contents /\ Contents = [k \in 0 .. i_size - 1 |-> Contents[k]]
      BY <2>1, ContentsKept DEF Contents
    <3>2. \A k \in 0 .. i_size - 1 : k < i_size
      BY <1>5
    <3> QED
      BY <2>1, <3>1, <3>2
  <2>2. CASE truncate_inode(length)
    <3>1. /\ i_size' = length /\ i_mode' = i_mode
          /\ \A b \in BlockNrs, o \in 0 .. BLOCK_SIZE - 1 :
               At(blocks', b, o) = IF Place(b, o) < length THEN At(blocks, b, o) ELSE 0
      BY <1>1, <2>2, TruncateOk
    <3>2. ASSUME NEW k \in 0 .. length - 1
          PROVE  Held(k)' = IF k < i_size THEN Contents[k] ELSE 0
      <4> DEFINE b == k \div BLOCK_SIZE
                 o == k % BLOCK_SIZE
      <4>1. k \in Positions /\ k \in Nat /\ k < length
        BY <1>5, Sizes DEF Positions
      <4>2. b \in BlockNrs /\ o \in 0 .. BLOCK_SIZE - 1 /\ Place(b, o) = k
        BY <4>1, PositionsInBlocks, Places DEF Place
      <4>3. Held(k)' = ByteOf(blocks', k)
        BY <1>4, <3>1 DEF Held, ByteOf, At
      <4>4. Held(k) = ByteOf(blocks, k)
        BY <1>4 DEF Held, ByteOf, At
      <4> HIDE DEF b, o
      <4>5. At(blocks', b, o) = At(blocks, b, o)
        BY <3>1, <4>1, <4>2
      <4>6. ByteOf(blocks', k) = ByteOf(blocks, k)
        BY <4>5 DEF ByteOf, b, o
      <4>7. k < i_size => Contents[k] = Held(k)
        BY <1>5, <4>1 DEF Contents
      <4>8. ~(k < i_size) => ByteOf(blocks, k) = 0
        BY <1>5, <1>6, <4>1, ZeroByte
      <4> QED
        BY <4>3, <4>4, <4>6, <4>7, <4>8
    <3> QED
      BY <3>1, <3>2 DEF Contents
  <2> QED
    BY <1>2, <2>1, <2>2
<1>8. Posix!Size = i_size /\ (Posix!IsOpen <=> \E g \in Files : filp[g].open)
  BY <1>1, View
<1> QED
  BY <1>1, <1>2, <1>3, <1>7, <1>8 DEF Posix!Truncate

\* A read.
LEMMA ReadMaps ==
    ASSUME Inv, posix, UNCHANGED workload, NEW f \in Files, NEW n \in Nat \ {0}, Read(f, n)
    PROVE  Posix!Read(f, n)
<1>1. TypeOK /\ posix' /\ "part" \notin workload.uses
  BY DEF Inv, posix, OrdinaryLoads, Ordinary
<1>2. PICK data \in ReadData(filp[f].pos, n) :
        /\ filp[f].open /\ filp[f].pos \in Nat
        /\ Cardinality(DOMAIN data) \in Nat
        /\ filp' = [filp EXCEPT ![f].pos = @ + Cardinality(DOMAIN data)]
        /\ reply' = [op |-> "read", pos |-> filp[f].pos, n |-> n,
                     count |-> Cardinality(DOMAIN data), data |-> data]
        /\ UNCHANGED <<linked, file, vnode>>
        /\ \/ "part" \in workload.uses \/ i_mode = "I_REGULAR"
           \/ filp[f].pos >= i_size \/ (filp[f].pos = 0 /\ n >= i_size)
  BY ReadEffect
<1> DEFINE pos == filp[f].pos
           count == Cardinality(DOMAIN data)
<1>3. /\ count = IF pos >= i_size THEN 0 ELSE IF n < i_size - pos THEN n ELSE i_size - pos
      /\ DOMAIN data = 0 .. count - 1
      /\ \A i \in 0 .. count - 1 : data[i] = Held(pos + i)
      /\ pos < i_size => data = [i \in DOMAIN data |-> data[i]]
  BY <1>1, <1>2, ReadFacts
<1>4. i_size \in Nat /\ pos \in Nat
  BY <1>1, <1>2, PositionsInBlocks DEF TypeOK
<1>5. Contents' = Contents
  BY <1>2, ContentsKept
<1>6. data = [i \in 0 .. count - 1 |-> Contents[pos + i]]
  <2>1. CASE pos >= i_size
    <3>1. data = << >>
      BY <2>1 DEF ReadData
    <3> DEFINE e == [i \in 0 .. count - 1 |-> Contents[pos + i]]
    <3>2. count = 0
      BY <1>3, <2>1
    <3>3. DOMAIN e = {} /\ e = [i \in DOMAIN e |-> e[i]]
      BY <3>2
    <3> HIDE DEF e
    <3>4. e = << >>
      BY <3>3, NothingRead
    <3> QED
      BY <3>1, <3>4 DEF e
  <2>2. CASE pos < i_size
    <3> HIDE DEF count, pos
    <3>1. count \in Nat /\ count <= i_size - pos
      BY <1>3, <1>4, <2>2
    <3>2. ASSUME NEW i \in 0 .. count - 1
          PROVE  Contents[pos + i] = data[i]
      <4>1. pos + i \in 0 .. i_size - 1
        BY <1>4, <3>1
      <4> QED
        BY <1>3, <4>1 DEF Contents
    <3> QED
      BY <1>3, <2>2, <3>2
  <2> QED
    BY <1>4, <2>1, <2>2
<1>7. Posix!Size = i_size
  BY <1>1, View
<1>8. filp' = [filp EXCEPT ![f].pos = pos + count]
  BY <1>2
<1> HIDE DEF count
<1>9. reply' = [op |-> "read", pos |-> pos, n |-> n, count |-> count,
                data |-> [i \in 0 .. count - 1 |-> Contents[pos + i]]]
  BY <1>2, <1>6 DEF count
<1> QED
  BY <1>1, <1>2, <1>3, <1>5, <1>7, <1>8, <1>9 DEF Posix!Read

\* A write, in whole or in part.
LEMMA WriteMaps ==
    ASSUME Inv, posix, UNCHANGED <<workload, lost>>, NEW f \in Files, NEW n \in Nat \ {0},
           NEW v \in Bytes, Write(f, n, v)
    PROVE  Posix!Write(f, n, v)
<1> DEFINE pos == WritePos(f)
           ok == WriteOK(f, n)
<1>1. /\ TypeOK /\ posix' /\ Careful(workload) /\ ~filp[f].append
      /\ "fault" \notin workload.uses
  BY DEF Inv, posix, OrdinaryLoads, Ordinary, Careful, VnodeOk
<1>2. /\ filp[f].open /\ linked' = linked /\ pos \in Nat
      /\ filp' = [filp EXCEPT ![f].pos = NextPos(f, n)]
      /\ reply' = [op |-> IF ok THEN "wrote" ELSE "error", pos |-> pos, v |-> v]
  BY WriteEffect
<1>3. pos = filp[f].pos /\ NextPos(f, n) = IF ok THEN pos + n ELSE pos
  BY <1>1 DEF WritePos, NextPos
<1>4. \/ UNCHANGED file /\ ~ok
      \/ \E end \in pos .. pos + n : BytesWritten(pos, end, v) /\ (ok <=> end = pos + n)
  BY <1>1, CarefulWrite DEF WriteDone
<1>5. i_size \in Nat
  BY <1>1, PositionsInBlocks DEF TypeOK
<1> HIDE DEF pos, ok
<1>6. Posix!Size = i_size
  BY <1>1, View
<1>7. ASSUME NEW m \in Nat, BytesWritten(pos, pos + m, v)
      PROVE  Contents' = Posix!Overlay(pos, m, v)
  <2> DEFINE s == IF pos + m > i_size THEN pos + m ELSE i_size
  <2>1. s \in Nat /\ s = Bigger(i_size, pos + m)
    BY <1>2, <1>5 DEF Bigger
  <2>2. /\ i_size' = s
        /\ \A k \in 0 .. s - 1 :
             Held(k)' = IF pos <= k /\ k < pos + m THEN v
                        ELSE IF k < i_size THEN Held(k) ELSE 0
    BY <1>7, <2>1 DEF BytesWritten
  <2> HIDE DEF s
  <2>3. \A k \in 0 .. s - 1 : k < i_size => Contents[k] = Held(k)
    BY <1>5, <2>1 DEF Contents
  <2>4. Contents' = [k \in 0 .. s - 1 |->
                       IF pos <= k /\ k < pos + m THEN v
                       ELSE IF k < i_size THEN Contents[k] ELSE 0]
    BY <2>2, <2>3 DEF Contents
  <2> QED
    BY <1>6, <2>4 DEF Posix!Overlay, Posix!Size, s
<1>8. \/ Contents' = Contents /\ ~ok
      \/ \E m \in 0 .. n : Contents' = Posix!Overlay(pos, m, v) /\ (ok <=> m = n)
  <2>1. CASE UNCHANGED file /\ ~ok
    BY <2>1, ContentsKept
  <2>2. ASSUME NEW end \in pos .. pos + n, BytesWritten(pos, end, v), ok <=> end = pos + n
        PROVE  \E m \in 0 .. n : Contents' = Posix!Overlay(pos, m, v) /\ (ok <=> m = n)
    <3>1. end - pos \in 0 .. n /\ end - pos \in Nat /\ pos + (end - pos) = end
          /\ (end = pos + n <=> end - pos = n)
      BY <1>2
    <3>2. Contents' = Posix!Overlay(pos, end - pos, v)
      BY <1>7, <2>2, <3>1
    <3> QED
      BY <2>2, <3>1, <3>2
  <2> QED
    BY <1>4, <2>1, <2>2
<1>9. Contents' \in IF ok THEN {Posix!Overlay(pos, n, v)}
                    ELSE {Contents} \cup {Posix!Overlay(pos, m, v) : m \in 0 .. n - 1}
  <2>1. CASE Contents' = Contents /\ ~ok
    BY <2>1
  <2>2. ASSUME NEW m \in 0 .. n, Contents' = Posix!Overlay(pos, m, v), ok <=> m = n
        PROVE  Contents' \in IF ok THEN {Posix!Overlay(pos, n, v)}
                             ELSE {Contents} \cup {Posix!Overlay(pos, j, v) : j \in 0 .. n - 1}
    <3>1. ~ok => m \in 0 .. n - 1
      BY <2>2
    <3> QED
      BY <2>2, <3>1
  <2> QED
    BY <1>8, <2>1, <2>2
<1>10. reply'.op = "wrote" <=> ok
  BY <1>2
<1> QED
  BY <1>1, <1>2, <1>3, <1>6, <1>9, <1>10 DEF Posix!Write

\* In an ordinary workload every call is one of PosixFile's.
LEMMA StepMaps ==
    ASSUME Inv, posix, Next
    PROVE  Posix!Next
<1>1. UNCHANGED workload /\ workload \in Workloads /\ Positions = 0 .. MaxSize
  BY NextCases DEF Inv, TypeOK, Positions
<1>2. "fault" \notin workload.uses
  BY DEF posix, OrdinaryLoads, Ordinary
<1>3. Calls /\ UNCHANGED lost
  <2>1. ~ \E f \in Files : \E n \in workload.counts : \E v \in Bytes :
            \E good \in 0 .. n - 1 : WriteFault(f, n, v, good)
    BY <1>2 DEF WriteFault
  <2> QED
    BY <2>1, NextCases
<1>4. \A f \in Files : ~ReadFault(f)
  BY <1>2 DEF ReadFault
<1>5. ASSUME NEW f \in Files, NEW append \in BOOLEAN,
             Create(f, append) \/ OpenAgain(f, append) \/ OpenTrunc(f, append)
      PROVE  Posix!Next
  BY <1>1, <1>5, OpenMaps DEF Posix!Next
<1>6. ASSUME Unlink PROVE Posix!Next
  BY <1>1, <1>6, UnlinkMaps DEF Posix!Next
<1>7. ASSUME NEW length \in Positions, Truncate(length) PROVE Posix!Next
  BY <1>1, <1>7, <1>3, TruncateMaps DEF Posix!Next
<1>8. ASSUME NEW f \in Files, Close(f) PROVE Posix!Next
  BY <1>1, <1>8, CloseMaps DEF Posix!Next
<1>9. ASSUME NEW f \in Files, NEW newpos \in Positions, Lseek(f, newpos) PROVE Posix!Next
  BY <1>1, <1>9, LseekMaps DEF Posix!Next
<1>10. ASSUME NEW f \in Files, NEW n \in workload.counts, Read(f, n) PROVE Posix!Next
  BY <1>1, <1>10, ReadMaps, CountsArePositive DEF Posix!Next
<1>11. ASSUME NEW f \in Files, NEW n \in workload.counts, NEW v \in Bytes, Write(f, n, v)
      PROVE  Posix!Next
  BY <1>1, <1>11, <1>3, WriteMaps, CountsArePositive DEF Posix!Next
<1> QED
  BY <1>5, <1>6, <1>7, <1>8, <1>9, <1>10, <1>11, <1>3, <1>4, CallCases

\* At first there is no file, and no bytes.
LEMMA InitMaps == Init => Posix!Init
<1> SUFFICES ASSUME Init PROVE Posix!Init
  OBVIOUS
<1>1. /\ linked = FALSE /\ i_size = 0 /\ reply = NoReply
      /\ filp = [f \in Files |-> Closed]
  BY DEF Init
<1>2. DOMAIN Contents = {} /\ Contents = Posix!Empty
  BY <1>1 DEF Contents, Posix!Empty
<1> QED
  BY <1>1, <1>2 DEF Posix!Init, Posix!Empty, Closed, NoReply

\* Where processes use the file as an ordinary one, it is one: whether its bytes are
\* in its inode or in blocks, whenever they move, and whether or not the device has
\* zones enough, every call does what PosixFile says.
THEOREM Refinement == Spec => ImplementsPosix
<1>1. Init => Posix!Init
  BY InitMaps
<1>2. ASSUME Inv, [Next]_vars PROVE [Posix!Next]_Posix!vars
  <2>1. CASE UNCHANGED vars
    <3>1. /\ workload' = workload /\ linked' = linked /\ filp' = filp /\ reply' = reply
          /\ UNCHANGED file
      BY <2>1 DEF vars, file
    <3>2. Contents' = Contents /\ posix' = posix
      BY <3>1, ContentsKept DEF posix
    <3> QED
      BY <3>1, <3>2 DEF Posix!vars
  <2>2. CASE Next /\ posix
    BY <1>2, <2>2, StepMaps
  <2>3. CASE Next /\ ~posix
    <3>1. posix' = posix
      BY <2>3, NextCases DEF posix
    <3> QED
      BY <2>3, <3>1 DEF Posix!vars
  <2> QED
    BY <1>2, <2>1, <2>2, <2>3
<1> QED
  BY <1>1, <1>2, Invariant, PTL DEF Spec, ImplementsPosix, Posix!Spec
==============================================================================
