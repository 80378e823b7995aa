----------------------------- MODULE Buddy_proofs -----------------------------
(***************************************************************************)
(* The buddy allocator, for memories and smallest blocks of every size and *)
(* any number of processes: the blocks form a tree, processes hold         *)
(* disjoint leaves of it that fit tightly, nothing leaks, and free memory  *)
(* is on the lists.                                                        *)
(***************************************************************************)
EXTENDS Buddy, FiniteSetTheorems, SequenceTheorems, WellFoundedInduction, TLAPS

Paths == Seq({0, 1})
Elems(s) == {s[i] : i \in 1 .. Len(s)}
Once(s) == \A i, j \in 1 .. Len(s) : s[i] = s[j] => i = j
Fits(b, o) == b <= 2 ^ o /\ (o = L \/ b > 2 ^ (o - 1))

Jobs ==
    {Idle, Crashed, Exited}
      \cup [pc : {"split"}, curr : Paths, want : L .. U, can_get : L .. U, p : Names, b : Nat]
      \cup [pc : {"coalesce"}, temp : Paths]

TypeOK ==
    /\ <<U, L>> \in Cases
    /\ Nodes \subseteq Paths /\ tree \in [Nodes -> Block]
    /\ free_map \in [L .. U -> Seq(Paths)]
    /\ DOMAIN running_rec \subseteq Names
    /\ running_rec \in [DOMAIN running_rec -> Paths]
    /\ job \in Jobs

\* A tree of blocks of at least the least size, whose inner nodes are in use.
Shape ==
    /\ root \in Nodes
    /\ \A n \in Nodes : Len(n) <= U - L
    /\ \A n \in Nodes : n # root =>
         parent(n) \in Nodes /\ Sibling(n) \in Nodes /\ tree[parent(n)].is_used

\* The ancestors of a node are nodes.
Rooted == \A n \in Nodes : \A k \in 0 .. Len(n) : SubSeq(n, 1, k) \in Nodes

\* The node a loop of send_query has in hand is a leaf.
Current == IF job.pc = "split" THEN {job.curr}
           ELSE IF job.pc = "coalesce" THEN {job.temp} ELSE {}
CurrentOk == \A n \in Current : Leaf(n)

\* The lists hold the free blocks, each once.  The splitting loop has in hand
\* the head of a list, or a part of what it was, but leaves it on the list.
Free(n) == n \in Nodes /\ Leaf(n) /\ ~tree[n].is_used /\ n \notin Current
FreeList(o) == IF job.pc = "split" /\ o = job.can_get THEN Tail(free_map[o]) ELSE free_map[o]
ListsOk ==
    \A o \in L .. U :
      /\ Once(FreeList(o))
      /\ \A n \in Elems(FreeList(o)) : Free(n) /\ Order(n) = o
      /\ \A n \in Nodes : Free(n) /\ n # root /\ Order(n) = o => n \in Elems(FreeList(o))

\* What processes hold are leaves in use that fit.
HeldOk ==
    \A p \in DOMAIN running_rec :
      /\ Leaf(running_rec[p]) /\ running_rec[p] \notin Current
      /\ tree[running_rec[p]].is_used /\ tree[running_rec[p]].pname = p
      /\ Fits(tree[running_rec[p]].bytes, Order(running_rec[p]))

\* A leaf in use is held by the process it names, also while another one is split
\* or merged.
NothingLost ==
    ~Again => \A n \in Nodes : Leaf(n) /\ tree[n].is_used /\ n \notin Current =>
                /\ tree[n].pname \in DOMAIN running_rec
                /\ running_rec[tree[n].pname] = n

\* The splitting loop is between the block it found and the one it wants; the
\* head of the list it took from is the block itself, or was split.
SplitOk ==
    job.pc = "split" =>
      /\ ~tree[job.curr].is_used
      /\ job.want <= Order(job.curr) /\ Order(job.curr) <= job.can_get
      /\ Fits(job.b, job.want)
      /\ Again \/ job.p \notin DOMAIN running_rec
      /\ free_map[job.can_get] # <<>>
      /\ Head(free_map[job.can_get]) \in Nodes
      /\ Head(free_map[job.can_get]) = job.curr \/ ~Leaf(Head(free_map[job.can_get]))

\* Buddies are not both free, unless one of them is in hand.
Buddies ==
    \A n \in Nodes \ {root} :
      tree[n].is_used \/ tree[Sibling(n)].is_used \/ {n, Sibling(n)} \cap Current # {}

Inv == TypeOK /\ Shape /\ Rooted /\ CurrentOk /\ ListsOk /\ HeldOk /\ NothingLost
       /\ SplitOk /\ Buddies

-----------------------------------------------------------------------------
(* Paths *)

\* The root has no turns.
LEMMA Root == /\ root \in Paths /\ Len(root) = 0
              /\ \A n \in Paths : Len(n) \in Nat /\ (n # root <=> Len(n) > 0)
<1>1. root \in Paths /\ Len(root) = 0 /\ \A n \in Paths : n # root => Len(n) \in Nat \ {0}
  BY EmptySeq DEF root, Paths
<1> QED
  BY <1>1, LenProperties DEF Paths

\* A path and one more turn.
LEMMA Turn ==
    ASSUME NEW n \in Paths, NEW d \in {0, 1}
    PROVE  /\ Append(n, d) \in Paths /\ Len(Append(n, d)) = Len(n) + 1
           /\ \A k \in 0 .. Len(n) : SubSeq(Append(n, d), 1, k) = SubSeq(n, 1, k)
           /\ parent(Append(n, d)) = n
<1> DEFINE m == Append(n, d)
<1>1. /\ m \in Paths /\ Len(m) = Len(n) + 1 /\ Len(n) \in Nat
      /\ \A i \in 1 .. Len(n) : m[i] = n[i]
  BY AppendProperties, LenProperties DEF Paths
<1>2. n \in Seq({0, 1}) /\ m \in Seq({0, 1})
  BY <1>1 DEF Paths
<1> HIDE DEF m
<1>3. ASSUME NEW k \in 0 .. Len(n) PROVE SubSeq(m, 1, k) = SubSeq(n, 1, k)
  <2>1. /\ \A i \in 1 .. k : n[i] \in {0, 1} /\ m[i] \in {0, 1} /\ m[i] = n[i]
    BY <1>1, <1>2, ElementOfSeq
  <2>2. k \in Int /\ 1 \in Int /\ k >= 0
    BY <1>1
  <2>3. /\ SubSeq(n, 1, k) \in Seq({0, 1}) /\ SubSeq(m, 1, k) \in Seq({0, 1})
        /\ Len(SubSeq(n, 1, k)) = k /\ Len(SubSeq(m, 1, k)) = k
        /\ \A i \in 1 .. k : SubSeq(n, 1, k)[i] = n[i] /\ SubSeq(m, 1, k)[i] = m[i]
    BY <2>1, <2>2, SubSeqProperties
  <2> QED
    BY <2>1, <2>3, SeqEqual
<1>4. SubSeq(m, 1, Len(n)) = n
  BY <1>1, <1>2, <1>3, SubSeqFull
<1>5. parent(m) = n
  BY <1>1, <1>4 DEF parent
<1> QED
  BY <1>1, <1>3, <1>5 DEF m

\* The children of a node.
LEMMA Children ==
    ASSUME NEW n \in Paths
    PROVE  /\ left(n) \in Paths /\ right(n) \in Paths /\ left(n) # right(n)
           /\ Len(left(n)) = Len(n) + 1 /\ Len(right(n)) = Len(n) + 1
           /\ parent(left(n)) = n /\ parent(right(n)) = n
           /\ Sibling(left(n)) = right(n) /\ Sibling(right(n)) = left(n)
           /\ \A k \in 0 .. Len(n) : /\ SubSeq(left(n), 1, k) = SubSeq(n, 1, k)
                                     /\ SubSeq(right(n), 1, k) = SubSeq(n, 1, k)
           /\ left(n) # root /\ right(n) # root /\ left(n) # n /\ right(n) # n
<1>1. /\ left(n) \in Paths /\ Len(left(n)) = Len(n) + 1 /\ parent(left(n)) = n
      /\ \A k \in 0 .. Len(n) : SubSeq(left(n), 1, k) = SubSeq(n, 1, k)
  BY Turn DEF left
<1>2. /\ right(n) \in Paths /\ Len(right(n)) = Len(n) + 1 /\ parent(right(n)) = n
      /\ \A k \in 0 .. Len(n) : SubSeq(right(n), 1, k) = SubSeq(n, 1, k)
  BY Turn DEF right
<1>3. left(n) # right(n)
  <2>1. n \in Seq({0, 1}) /\ 0 \in {0, 1} /\ 1 \in {0, 1} /\ 0 # 1
    BY DEF Paths
  <2> QED
    BY <2>1, AppendInjective DEF left, right
<1>4. Sibling(left(n)) = right(n) /\ Sibling(right(n)) = left(n)
  BY <1>1, <1>2, <1>3 DEF Sibling
<1>5. Len(n) \in Nat
  BY Root
<1>6. left(n) # root /\ right(n) # root /\ left(n) # n /\ right(n) # n
  BY <1>1, <1>2, <1>5, Root
<1> QED
  BY <1>1, <1>2, <1>3, <1>4, <1>6

\* Every path but the root is a child, and so is its sibling.
LEMMA Child ==
    ASSUME NEW n \in Paths, n # root
    PROVE  /\ parent(n) \in Paths /\ Len(parent(n)) = Len(n) - 1
           /\ \/ n = left(parent(n)) /\ Sibling(n) = right(parent(n))
              \/ n = right(parent(n)) /\ Sibling(n) = left(parent(n))
           /\ Sibling(n) \in Paths /\ Sibling(n) # n /\ Sibling(n) # root
           /\ Sibling(Sibling(n)) = n /\ parent(Sibling(n)) = parent(n)
           /\ Len(Sibling(n)) = Len(n)
<1>1. n \in Seq({0, 1}) /\ n # <<>>
  BY DEF Paths, root
<1>2. PICK s \in Seq({0, 1}), d \in {0, 1} : n = Append(s, d)
  BY <1>1, SequenceEmptyOrAppend
<1>3. s \in Paths
  BY DEF Paths
<1>4. n = left(s) \/ n = right(s)
  BY <1>2 DEF left, right
<1>5. parent(n) = s /\ Len(n) = Len(s) + 1 /\ Len(s) \in Nat
  BY <1>3, <1>4, Children, Root
<1>6. /\ left(s) \in Paths /\ right(s) \in Paths /\ left(s) # right(s)
      /\ Len(left(s)) = Len(s) + 1 /\ Len(right(s)) = Len(s) + 1
      /\ Sibling(left(s)) = right(s) /\ Sibling(right(s)) = left(s)
      /\ parent(left(s)) = s /\ parent(right(s)) = s
      /\ left(s) # root /\ right(s) # root
  BY <1>3, Children
<1>7. s = parent(n) /\ parent(n) \in Paths /\ Len(parent(n)) = Len(n) - 1
  BY <1>3, <1>5
<1>8. n = left(parent(n)) \/ n = right(parent(n))
  BY <1>4, <1>7
<1>9. Sibling(n) = IF n = left(s) THEN right(s) ELSE left(s)
  BY <1>7 DEF Sibling
<1>10. \/ n = left(s) /\ Sibling(n) = right(s)
       \/ n = right(s) /\ Sibling(n) = left(s)
  BY <1>4, <1>6, <1>9
<1>11. Len(Sibling(n)) = Len(n) /\ parent(Sibling(n)) = parent(n)
  BY <1>5, <1>6, <1>7, <1>10
<1>12. /\ Sibling(n) \in Paths /\ Sibling(n) # n /\ Sibling(n) # root
       /\ Sibling(Sibling(n)) = n
  BY <1>6, <1>10
<1> QED
  BY <1>7, <1>10, <1>11, <1>12

\* A proper beginning of a path goes on with a child.
LEMMA NextTurn ==
    ASSUME NEW n \in Paths, NEW k \in 0 .. Len(n) - 1
    PROVE  \/ SubSeq(n, 1, k + 1) = left(SubSeq(n, 1, k))
           \/ SubSeq(n, 1, k + 1) = right(SubSeq(n, 1, k))
<1>1. /\ n \in Seq({0, 1}) /\ Len(n) \in Nat
      /\ \A i \in 1 .. Len(n) : n[i] \in {0, 1}
  BY LenProperties, ElementOfSeq DEF Paths
<1>2. /\ k + 1 \in 1 .. Len(n) /\ 1 \in 1 .. Len(n) /\ 1 \in 1 .. k + 1
      /\ (k + 1) - 1 = k /\ k + 1 \in 1 .. Len(n) /\ k + 1 \in 1 .. k + 1
  BY <1>1
<1>3. SubSeq(n, 1, k + 1) = SubSeq(n, 1, k) \o <<n[k + 1]>>
  BY <1>1, <1>2, SubSeqRecursiveSecond
<1>4. SubSeq(n, 1, k) \in Seq({0, 1})
  BY <1>1, <1>2, SubSeqProperties
<1>5. SubSeq(n, 1, k + 1) = Append(SubSeq(n, 1, k), n[k + 1])
  BY <1>1, <1>2, <1>3, <1>4, AppendIsConcat
<1> QED
  BY <1>1, <1>2, <1>5 DEF left, right

-----------------------------------------------------------------------------
(* Lists without duplicates *)

\* The elements of a list are where its indices point.
LEMMA ElemsOf ==
    ASSUME NEW s \in Seq(Paths), NEW x
    PROVE  /\ x \in Elems(s) <=> \E i \in 1 .. Len(s) : s[i] = x
           /\ x \in Elems(s) => x \in Paths
           /\ Len(s) \in Nat
  BY LenProperties, ElementOfSeq DEF Elems

\* Taking the head off.
LEMMA TailFacts ==
    ASSUME NEW s \in Seq(Paths), s # <<>>, Once(s)
    PROVE  /\ Tail(s) \in Seq(Paths) /\ Once(Tail(s))
           /\ Elems(Tail(s)) = Elems(s) \ {Head(s)}
           /\ Head(s) \in Elems(s) /\ Head(s) \in Paths
<1>1. /\ Tail(s) \in Seq(Paths) /\ Len(Tail(s)) = Len(s) - 1 /\ Head(s) \in Paths
      /\ \A i \in 1 .. Len(Tail(s)) : Tail(s)[i] = s[i + 1]
  BY HeadTailProperties
<1>2. Len(s) \in Nat \ {0} /\ Head(s) = s[1]
  <2>1. Len(s) \in Nat \ {0}
    BY EmptySeq
  <2>2. Head(s) = s[1]
    OBVIOUS
  <2> QED
    BY <2>1, <2>2
<1>3. Once(Tail(s))
  BY <1>1, <1>2 DEF Once
<1>4. ASSUME NEW x \in Elems(Tail(s)) PROVE x \in Elems(s) \ {Head(s)}
  <2>1. PICK i \in 1 .. Len(Tail(s)) : Tail(s)[i] = x
    BY DEF Elems
  <2>2. i + 1 \in 1 .. Len(s) /\ s[i + 1] = x /\ i + 1 # 1 /\ 1 \in 1 .. Len(s)
    BY <1>1, <1>2, <2>1
  <2>3. x # s[1]
    BY <2>2 DEF Once
  <2> QED
    BY <1>2, <2>2, <2>3 DEF Elems
<1>5. ASSUME NEW x \in Elems(s), x # Head(s) PROVE x \in Elems(Tail(s))
  <2>1. PICK i \in 1 .. Len(s) : s[i] = x
    BY DEF Elems
  <2>2. i - 1 \in 1 .. Len(Tail(s)) /\ (i - 1) + 1 = i
    BY <1>1, <1>2, <1>5, <2>1
  <2>3. Tail(s)[i - 1] = x
    BY <1>1, <2>1, <2>2
  <2> QED
    BY <2>2, <2>3 DEF Elems
<1>6. Head(s) \in Elems(s)
  BY <1>2 DEF Elems
<1> QED
  BY <1>1, <1>3, <1>4, <1>5, <1>6

\* Putting a node that is not on a list at its head.
LEMMA PushFacts ==
    ASSUME NEW s \in Seq(Paths), NEW n \in Paths, n \notin Elems(s), Once(s)
    PROVE  /\ <<n>> \o s \in Seq(Paths) /\ Once(<<n>> \o s)
           /\ Elems(<<n>> \o s) = Elems(s) \cup {n}
           /\ <<n>> \o s # <<>> /\ Tail(<<n>> \o s) = s
<1> DEFINE t == <<n>> \o s
<1>1. <<n>> \in Seq(Paths) /\ Len(<<n>>) = 1 /\ <<n>>[1] = n /\ Len(s) \in Nat
  BY LenProperties
<1>2. /\ t \in Seq(Paths) /\ Len(t) = 1 + Len(s)
      /\ \A i \in 1 .. 1 + Len(s) : t[i] = IF i <= 1 THEN <<n>>[i] ELSE s[i - 1]
  BY <1>1, ConcatProperties
<1> HIDE DEF t
<1>3. t[1] = n /\ 1 \in 1 .. Len(t)
  BY <1>1, <1>2
<1>4. \A i \in 1 .. Len(s) : i + 1 \in 1 .. Len(t) /\ t[i + 1] = s[i]
  BY <1>1, <1>2
<1>5. \A i \in 1 .. Len(t) : i = 1 \/ (i - 1 \in 1 .. Len(s) /\ t[i] = s[i - 1])
  <2> SUFFICES ASSUME NEW i \in 1 .. Len(t), i # 1
               PROVE  i - 1 \in 1 .. Len(s) /\ t[i] = s[i - 1]
    OBVIOUS
  <2>1. i \in 1 .. 1 + Len(s) /\ ~(i <= 1) /\ i - 1 \in 1 .. Len(s)
    BY <1>1, <1>2
  <2> QED
    BY <1>2, <2>1
<1>6. \A i \in 1 .. Len(s) : s[i] # n
  BY DEF Elems
<1>7. Once(t)
  <2>1. ASSUME NEW i \in 1 .. Len(t), NEW j \in 1 .. Len(t), t[i] = t[j] PROVE i = j
    <3>1. CASE i = 1
      BY <1>3, <1>5, <1>6, <2>1, <3>1
    <3>2. CASE j = 1
      BY <1>3, <1>5, <1>6, <2>1, <3>2
    <3>3. CASE i # 1 /\ j # 1
      BY <1>5, <2>1, <3>3 DEF Once
    <3> QED
      BY <3>1, <3>2, <3>3
  <2> QED
    BY <2>1 DEF Once
<1>8. Elems(t) = Elems(s) \cup {n}
  BY <1>3, <1>4, <1>5 DEF Elems
<1>9. t # <<>>
  BY <1>1, <1>2
<1>10. Tail(t) = s
  <2>1. /\ Tail(t) \in Seq(Paths) /\ Len(Tail(t)) = Len(t) - 1
        /\ \A i \in 1 .. Len(Tail(t)) : Tail(t)[i] = t[i + 1]
    BY <1>2, <1>9, HeadTailProperties
  <2>2. Len(Tail(t)) = Len(s) /\ \A i \in 1 .. Len(Tail(t)) : Tail(t)[i] = s[i]
    BY <1>1, <1>2, <1>4, <2>1
  <2> QED
    BY <2>1, <2>2, SeqEqual
<1> QED
  BY <1>2, <1>7, <1>8, <1>9, <1>10 DEF t

\* Taking a node out.
LEMMA UnlistFacts ==
    ASSUME NEW s \in Seq(Paths), Once(s), NEW n \in Elems(s)
    PROVE  /\ Unlist(s, n) \in Seq(Paths) /\ Once(Unlist(s, n))
           /\ Elems(Unlist(s, n)) = Elems(s) \ {n}
<1> DEFINE At(i) == s[i] = n /\ \A j \in 1 .. i - 1 : s[j] # n
           k == CHOOSE i \in 1 .. Len(s) : At(i)
<1>1. Len(s) \in Nat /\ \A i \in 1 .. Len(s) : s[i] \in Paths
  BY LenProperties, ElementOfSeq
<1>2. PICK h \in 1 .. Len(s) : s[h] = n
  BY DEF Elems
<1>3. \A j \in 1 .. h - 1 : s[j] # n
  BY <1>1, <1>2 DEF Once
<1>4. k \in 1 .. Len(s) /\ At(k)
  BY <1>2, <1>3
<1>5. Unlist(s, n) = SubSeq(s, 1, k - 1) \o SubSeq(s, k + 1, Len(s))
  BY <1>2 DEF Unlist
<1> HIDE DEF k
<1>6. s[k] = n
  BY <1>4
<1> DEFINE a == SubSeq(s, 1, k - 1)
           b == SubSeq(s, k + 1, Len(s))
           t == a \o b
<1>t. Unlist(s, n) = t
  BY <1>5
<1>7. /\ a \in Seq(Paths) /\ Len(a) = k - 1
      /\ \A i \in 1 .. k - 1 : a[i] = s[i]
  <2>1. 1 \in Int /\ k - 1 \in Int /\ \A i \in 1 .. k - 1 : s[i] \in Paths
    BY <1>1, <1>4
  <2>2. /\ a \in Seq(Paths) /\ Len(a) = IF 1 <= k - 1 THEN (k - 1) - 1 + 1 ELSE 0
        /\ \A i \in 1 .. (k - 1) - 1 + 1 : a[i] = s[1 + i - 1]
    BY <2>1, SubSeqProperties
  <2> HIDE DEF a
  <2>3. (IF 1 <= k - 1 THEN (k - 1) - 1 + 1 ELSE 0) = k - 1 /\ (k - 1) - 1 + 1 = k - 1
    BY <1>1, <1>4
  <2>4. \A i \in 1 .. k - 1 : 1 + i - 1 = i
    OBVIOUS
  <2> QED
    BY <2>2, <2>3, <2>4
<1>8. /\ b \in Seq(Paths) /\ Len(b) = Len(s) - k
      /\ \A i \in 1 .. Len(s) - k : b[i] = s[k + i]
  <2>1. k + 1 \in Int /\ Len(s) \in Int /\ \A i \in k + 1 .. Len(s) : s[i] \in Paths
    BY <1>1, <1>4
  <2>2. /\ b \in Seq(Paths)
        /\ Len(b) = IF k + 1 <= Len(s) THEN Len(s) - (k + 1) + 1 ELSE 0
        /\ \A i \in 1 .. Len(s) - (k + 1) + 1 : b[i] = s[(k + 1) + i - 1]
    BY <2>1, SubSeqProperties
  <2> HIDE DEF b
  <2>3. /\ (IF k + 1 <= Len(s) THEN Len(s) - (k + 1) + 1 ELSE 0) = Len(s) - k
        /\ Len(s) - (k + 1) + 1 = Len(s) - k
    BY <1>1, <1>4
  <2>4. \A i \in 1 .. Len(s) - k : (k + 1) + i - 1 = k + i
    BY <1>4
  <2> QED
    BY <2>2, <2>3, <2>4
<1> HIDE DEF a, b
<1>9. /\ t \in Seq(Paths) /\ Len(t) = Len(s) - 1
      /\ \A i \in 1 .. Len(s) - 1 : t[i] = IF i <= k - 1 THEN a[i] ELSE b[i - (k - 1)]
  <2>1. /\ t \in Seq(Paths) /\ Len(t) = Len(a) + Len(b)
        /\ \A i \in 1 .. Len(a) + Len(b) : t[i] = IF i <= Len(a) THEN a[i] ELSE b[i - Len(a)]
    BY <1>7, <1>8, ConcatProperties
  <2>2. Len(a) = k - 1 /\ Len(a) + Len(b) = Len(s) - 1
    BY <1>1, <1>4, <1>7, <1>8
  <2> HIDE DEF t
  <2> QED
    BY <2>1, <2>2
<1> HIDE DEF t
<1>10. \A i \in 1 .. Len(t) : t[i] = s[IF i < k THEN i ELSE i + 1]
  <2> SUFFICES ASSUME NEW i \in 1 .. Len(t) PROVE t[i] = s[IF i < k THEN i ELSE i + 1]
    OBVIOUS
  <2>1. i \in 1 .. Len(s) - 1
    BY <1>9
  <2>2. CASE i < k
    <3>1. i \in 1 .. k - 1 /\ i <= k - 1
      BY <1>1, <1>4, <2>1, <2>2
    <3> QED
      BY <1>7, <1>9, <2>1, <2>2, <3>1
  <2>3. CASE ~(i < k)
    <3>1. i - (k - 1) \in 1 .. Len(s) - k /\ ~(i <= k - 1) /\ k + (i - (k - 1)) = i + 1
      BY <1>1, <1>4, <2>1, <2>3
    <3> QED
      BY <1>8, <1>9, <2>1, <2>3, <3>1
  <2> QED
    BY <2>2, <2>3
<1>11. Once(t)
  <2>1. ASSUME NEW i \in 1 .. Len(t), NEW j \in 1 .. Len(t), t[i] = t[j] PROVE i = j
    <3>1. /\ (IF i < k THEN i ELSE i + 1) \in 1 .. Len(s)
          /\ (IF j < k THEN j ELSE j + 1) \in 1 .. Len(s)
      BY <1>1, <1>4, <1>9
    <3>2. (IF i < k THEN i ELSE i + 1) = (IF j < k THEN j ELSE j + 1)
      BY <1>10, <2>1, <3>1 DEF Once
    <3> QED
      BY <1>1, <1>4, <1>9, <3>2
  <2> QED
    BY <2>1 DEF Once
<1>12. ASSUME NEW x \in Elems(t) PROVE x \in Elems(s) \ {n}
  <2>1. PICK i \in 1 .. Len(t) : t[i] = x
    BY DEF Elems
  <2> DEFINE j == IF i < k THEN i ELSE i + 1
  <2>2. j \in 1 .. Len(s) /\ j # k
    BY <1>1, <1>4, <1>9
  <2>4. s[j] = x
    BY <1>10, <2>1
  <2> HIDE DEF j
  <2>3. x # n
    BY <1>4, <1>6, <2>2, <2>4 DEF Once
  <2> QED
    BY <2>2, <2>3, <2>4 DEF Elems
<1>13. ASSUME NEW x \in Elems(s), x # n PROVE x \in Elems(t)
  <2>1. PICK j \in 1 .. Len(s) : s[j] = x
    BY DEF Elems
  <2>2. j # k
    BY <1>6, <1>13, <2>1
  <2>3. CASE j < k
    <3>1. j \in 1 .. Len(t)
      BY <1>1, <1>4, <1>9, <2>3
    <3>2. t[j] = x
      BY <1>10, <2>1, <2>3, <3>1
    <3> QED
      BY <3>1, <3>2 DEF Elems
  <2>4. CASE j > k
    <3>1. j - 1 \in 1 .. Len(t) /\ ~(j - 1 < k) /\ (j - 1) + 1 = j
      BY <1>1, <1>4, <1>9, <2>4
    <3>2. t[j - 1] = x
      BY <1>10, <2>1, <3>1
    <3> QED
      BY <3>1, <3>2 DEF Elems
  <2> QED
    BY <1>1, <1>4, <2>2, <2>3, <2>4
<1> QED
  BY <1>t, <1>9, <1>11, <1>12, <1>13

\* A list without duplicates is as long as it has elements.
LEMMA OnceCounts ==
    ASSUME NEW s \in Seq(Paths), Once(s)
    PROVE  Len(s) = Cardinality(Elems(s))
<1>1. Len(s) \in Nat /\ s \in [1 .. Len(s) -> Elems(s)]
  BY LenProperties DEF Elems
<1>2. s \in Bijection(1 .. Len(s), Elems(s))
  <2>1. s \in Injection(1 .. Len(s), Elems(s))
    BY <1>1 DEF Once, Injection, IsInjective
  <2>2. \A x \in Elems(s) : \E i \in 1 .. Len(s) : s[i] = x
    BY DEF Elems
  <2>3. s \in Surjection(1 .. Len(s), Elems(s))
    BY <1>1, <2>2 DEF Surjection
  <2> QED
    BY <2>1, <2>3 DEF Bijection
<1>3. ExistsBijection(1 .. Len(s), Elems(s))
  BY <1>2 DEF ExistsBijection
<1>4. IsFiniteSet(1 .. Len(s)) /\ Cardinality(1 .. Len(s)) = Len(s)
  BY <1>1, FS_Interval
<1> QED
  BY <1>3, <1>4, FS_Bijection

-----------------------------------------------------------------------------
(* Sizes *)

\* A power of two is a natural number.
LEMMA Power ==
    ASSUME NEW n \in Nat
    PROVE  2 ^ n \in Nat
<1>1. IsFiniteSet(1 .. n) /\ Cardinality(1 .. n) = n
  BY FS_Interval
<1>2. IsFiniteSet(SUBSET (1 .. n)) /\ Cardinality(SUBSET (1 .. n)) = 2 ^ n
  BY <1>1, FS_SUBSET
<1> QED
  BY <1>2, FS_CardinalityType

\* Every set of natural numbers has a least element.
LEMMA LeastExists ==
    ASSUME NEW K \in SUBSET Nat, K # {}
    PROVE  \E x \in K : \A j \in K : x <= j
<1> DEFINE R == OpToRel(<, Nat)
<1>1. \A x, y \in Nat : <<y, x>> \in R <=> y < x
  BY DEF OpToRel
<1>2. \E x \in K : \A y \in K : ~(<<y, x>> \in R)
  BY WFMin, NatLessThanWellFounded
<1> HIDE DEF R
<1>3. PICK x \in K : \A y \in K : ~(<<y, x>> \in R)
  BY <1>2
<1>4. \A y \in K : ~(y < x)
  BY <1>1, <1>3
<1> QED
  BY <1>4

\* The sizes of a test case.
LEMMA Bounds ==
    ASSUME TypeOK
    PROVE  U \in Nat /\ L \in Nat /\ 0 < L /\ L < U
<1>1. <<U, L>> \in Nat \X Nat /\ 0 < <<U, L>>[2] /\ <<U, L>>[2] < <<U, L>>[1]
  BY CasesAssumption DEF TypeOK
<1> QED
  BY <1>1

\* A request that fits into the memory has a size of block that fits it tightly.
LEMMA RequestFits ==
    ASSUME TypeOK, NEW b \in Nat, b <= 2 ^ U
    PROVE  find_reqd_power_of_2(b) \in L .. U /\ Fits(b, find_reqd_power_of_2(b))
<1> DEFINE K == {o \in L .. U : 2 ^ o >= b}
           Good(o) == 2 ^ o >= b /\ (o = L \/ 2 ^ (o - 1) < b)
<1>1. U \in Nat /\ L \in Nat /\ L < U
  BY Bounds
<1>2. \A o \in L .. U : 2 ^ o \in Nat
  BY <1>1, Power
<1>3. U \in K
  BY <1>1, <1>2
<1>4. K \in SUBSET Nat /\ K # {}
  BY <1>1, <1>3
<1>5. PICK o \in K : \A j \in K : o <= j
  <2> HIDE DEF K
  <2> QED
    BY <1>4, LeastExists
<1>6. o = L \/ 2 ^ (o - 1) < b
  <2> SUFFICES ASSUME o # L PROVE 2 ^ (o - 1) < b
    OBVIOUS
  <2>1. o - 1 \in L .. U /\ o - 1 < o
    BY <1>1, <1>5
  <2>2. o - 1 \notin K
    <3> HIDE DEF K
    <3> QED
      BY <1>1, <1>4, <1>5, <2>1
  <2>3. ~(2 ^ (o - 1) >= b)
    BY <2>1, <2>2
  <2> QED
    BY <1>2, <2>1, <2>3
<1>7. o \in L .. U /\ Good(o)
  BY <1>5, <1>6
<1> DEFINE w == CHOOSE q \in L .. U : Good(q)
<1>8. w \in L .. U /\ Good(w)
  <2> HIDE DEF Good
  <2> QED
    BY <1>7
<1>9. find_reqd_power_of_2(b) = w
  BY DEF find_reqd_power_of_2
<1> HIDE DEF w
<1>10. 2 ^ w \in Nat /\ (w # L => 2 ^ (w - 1) \in Nat)
  <2>1. w # L => w - 1 \in L .. U
    BY <1>1, <1>8
  <2> QED
    BY <1>2, <1>8, <2>1
<1> QED
  BY <1>8, <1>9, <1>10 DEF Fits

\* The search stops at a size that has a block.
LEMMA SearchStops ==
    ASSUME TypeOK, NEW w \in L .. U, Available(w) # {}
    PROVE  /\ can_get(w) \in w .. U /\ can_get(w) \in L .. U
           /\ free_map[can_get(w)] # <<>>
<1>1. U \in Nat /\ L \in Nat /\ L < U
  BY Bounds
<1>2. Available(w) \in SUBSET Nat
  BY <1>1 DEF Available
<1>3. \E o \in Available(w) : \A q \in Available(w) : o <= q
  BY <1>2, LeastExists
<1>4. can_get(w) \in Available(w)
  BY <1>3 DEF can_get
<1>5. can_get(w) \in w .. U /\ free_map[can_get(w)] # <<>>
  BY <1>4 DEF Available
<1> QED
  BY <1>1, <1>5

-----------------------------------------------------------------------------
(* The invariant, for readers of single facts *)

\* What send_query can be doing.
LEMMA JobCases ==
    ASSUME TypeOK
    PROVE  /\ job = Idle => job.pc = "idle"
           /\ job.pc = "split" =>
                job \in [pc : {"split"}, curr : Paths, want : L .. U, can_get : L .. U,
                         p : Names, b : Nat]
           /\ job.pc = "coalesce" => job \in [pc : {"coalesce"}, temp : Paths]
<1>1. job \in Jobs
  BY DEF TypeOK
<1>2. Idle.pc = "idle" /\ Crashed.pc = "null pointer" /\ Exited.pc = "exit(3)"
  BY DEF Idle, Crashed, Exited
<1>3. \A j \in [pc : {"split"}, curr : Paths, want : L .. U, can_get : L .. U, p : Names, b : Nat] :
        j.pc = "split"
  OBVIOUS
<1>4. \A j \in [pc : {"coalesce"}, temp : Paths] : j.pc = "coalesce"
  OBVIOUS
<1> QED
  BY <1>1, <1>2, <1>3, <1>4 DEF Jobs

\* A node of the tree, its parent and its buddy.
LEMMA NodeFacts ==
    ASSUME TypeOK, Shape, NEW n \in Nodes
    PROVE  /\ n \in Paths /\ Len(n) \in Nat /\ Len(n) <= U - L /\ Order(n) \in L .. U
           /\ tree[n] \in Block
           /\ n # root => /\ parent(n) \in Nodes /\ Sibling(n) \in Nodes
                          /\ tree[parent(n)].is_used /\ ~Leaf(parent(n))
                          /\ Order(Sibling(n)) = Order(n)
<1>1. n \in Paths /\ tree[n] \in Block
  BY DEF TypeOK, Nodes
<1>2. Len(n) \in Nat /\ Len(n) <= U - L
  BY <1>1, Root DEF Shape
<1>3. Order(n) \in L .. U
  BY <1>2, Bounds DEF Order
<1>4. ASSUME n # root
      PROVE  /\ parent(n) \in Nodes /\ Sibling(n) \in Nodes
             /\ tree[parent(n)].is_used /\ ~Leaf(parent(n))
             /\ Order(Sibling(n)) = Order(n)
  <2>1. parent(n) \in Nodes /\ Sibling(n) \in Nodes /\ tree[parent(n)].is_used
    BY <1>4 DEF Shape
  <2>2. (n = left(parent(n)) \/ n = right(parent(n))) /\ Len(Sibling(n)) = Len(n)
    BY <1>1, <1>4, Child
  <2>3. ~Leaf(parent(n))
    BY <2>2 DEF Leaf
  <2> QED
    BY <2>1, <2>2, <2>3 DEF Order
<1> QED
  BY <1>1, <1>2, <1>3, <1>4

\* A node that is not in use is a leaf.
LEMMA UnusedIsLeaf ==
    ASSUME TypeOK, Shape, NEW n \in Nodes, ~tree[n].is_used
    PROVE  Leaf(n)
<1>1. n \in Paths
  BY NodeFacts
<1>2. left(n) # root /\ right(n) # root /\ parent(left(n)) = n /\ parent(right(n)) = n
  BY <1>1, Children
<1> QED
  BY <1>2 DEF Shape, Leaf

-----------------------------------------------------------------------------
(* The steps *)

\* A test case starts with the whole memory free.
LEMMA InitOk == Init => Inv
<1> SUFFICES ASSUME Init PROVE Inv
  OBVIOUS
<1>1. PICK c \in Cases : Start(c[1], c[2])
  BY DEF Init
<1>2. c \in Nat \X Nat /\ 0 < c[2] /\ c[2] < c[1]
  BY CasesAssumption
<1>3. <<U, L>> = c /\ U \in Nat /\ L \in Nat /\ L < U
  BY <1>1, <1>2 DEF Start
<1>4. /\ tree = [n \in {root} |-> create] /\ Nodes = {root}
      /\ free_map = [o \in L .. U |-> IF o = U THEN <<root>> ELSE <<>>]
      /\ running_rec = [p \in {} |-> root] /\ DOMAIN running_rec = {}
      /\ job = Idle /\ job.pc = "idle" /\ Current = {}
  BY <1>1, <1>3 DEF Start, Init, initialize_free_map, Nodes, Idle, Current
<1>5. create \in Block /\ ~create.is_used
  BY DEF create, Block
<1>6. <<root>> \in Seq(Paths) /\ <<>> \in Seq(Paths)
  BY Root, EmptySeq
<1>7. TypeOK
  BY <1>1, <1>3, <1>4, <1>5, <1>6, Root DEF TypeOK, Jobs
<1>8. Shape /\ Leaf(root)
  BY <1>3, <1>4, Root, Children DEF Shape, Leaf
<1>9. Rooted
  <2>1. SubSeq(root, 1, 0) = root
    BY DEF root
  <2> QED
    BY <1>4, <2>1, Root DEF Rooted
<1>10. CurrentOk /\ HeldOk /\ NothingLost /\ SplitOk /\ Buddies
  BY <1>4, <1>5 DEF CurrentOk, HeldOk, NothingLost, SplitOk, Buddies
<1>11. ListsOk
  <2> SUFFICES ASSUME NEW o \in L .. U
               PROVE  /\ Once(FreeList(o))
                      /\ \A n \in Elems(FreeList(o)) : Free(n) /\ Order(n) = o
                      /\ \A n \in Nodes : Free(n) /\ n # root /\ Order(n) = o
                           => n \in Elems(FreeList(o))
    BY DEF ListsOk
  <2>1. FreeList(o) = IF o = U THEN <<root>> ELSE <<>>
    BY <1>4 DEF FreeList
  <2>2. Free(root) /\ Order(root) = U
    BY <1>3, <1>4, <1>5, <1>8, Root DEF Free, Order
  <2>3. CASE o = U
    <3>1. Len(<<root>>) = 1 /\ <<root>>[1] = root
      OBVIOUS
    <3> QED
      BY <1>4, <2>1, <2>2, <2>3, <3>1 DEF Once, Elems
  <2>4. CASE o # U
    <3>1. Len(<<>>) = 0
      OBVIOUS
    <3> QED
      BY <1>4, <2>1, <2>4, <3>1 DEF Once, Elems
  <2> QED
    BY <2>3, <2>4
<1> QED
  BY <1>7, <1>8, <1>9, <1>10, <1>11 DEF Inv

\* Nothing that the invariant is about changes: a refused request, a request that
\* exceeds the memory, the release of what was refused.
LEMMA SameOk ==
    ASSUME Inv, job = Idle, job' \in {Idle, Crashed, Exited},
           UNCHANGED <<U, L, tree, free_map, running_rec>>
    PROVE  Inv'
<1>1. Idle.pc = "idle" /\ Crashed.pc = "null pointer" /\ Exited.pc = "exit(3)"
  BY DEF Idle, Crashed, Exited
<1>2. /\ job.pc # "split" /\ job.pc # "coalesce"
      /\ job'.pc # "split" /\ job'.pc # "coalesce"
  BY <1>1
<1>3. Current = {} /\ Current' = {} /\ \A o : FreeList(o)' = FreeList(o)
  BY <1>2 DEF Current, FreeList
<1>4. Nodes' = Nodes /\ \A n : Leaf(n)' = Leaf(n) /\ Order(n)' = Order(n)
  BY DEF Nodes, Leaf, Order
<1>5. \A n : Free(n)' = Free(n)
  BY <1>3, <1>4 DEF Free
<1>6. TypeOK'
  BY <1>4 DEF Inv, TypeOK, Jobs
<1>7. Shape' /\ Rooted' /\ CurrentOk' /\ Buddies' /\ SplitOk'
  BY <1>2, <1>3, <1>4 DEF Inv, Shape, Rooted, CurrentOk, Buddies, SplitOk
<1>8. ListsOk'
  BY <1>3, <1>4, <1>5 DEF Inv, ListsOk
<1>9. HeldOk'
  BY <1>3, <1>4 DEF Inv, HeldOk, Fits
<1>10. NothingLost'
  BY <1>3, <1>4 DEF Inv, NothingLost
<1> QED
  BY <1>6, <1>7, <1>8, <1>9, <1>10 DEF Inv

\* Fields of a block.
LEMMA BlockFields ==
    ASSUME NEW t \in Block
    PROVE  /\ t.is_used \in BOOLEAN /\ t.bytes \in Nat
           /\ [t EXCEPT !.is_used = TRUE] \in Block /\ [t EXCEPT !.is_used = TRUE].is_used
           /\ [t EXCEPT !.is_used = FALSE] \in Block /\ ~[t EXCEPT !.is_used = FALSE].is_used
           /\ create \in Block /\ ~create.is_used
  BY DEF Block, create

\* allot: a free leaf that fits, off the lists, goes to a process that holds nothing,
\* or gives up what it holds.
LEMMA AllotOk ==
    ASSUME Inv, NEW n \in Nodes, NEW o \in L .. U, NEW p \in Names, NEW b \in Nat,
           allot(n, o, p, b), UNCHANGED <<U, L>>,
           Leaf(n), ~tree[n].is_used, Fits(b, Order(n)), Current \subseteq {n},
           Again \/ p \notin DOMAIN running_rec,
           free_map' \in [L .. U -> Seq(Paths)],
           \A q \in L .. U : /\ Once(free_map'[q])
                             /\ Elems(free_map'[q]) = Elems(FreeList(q)) \ {n}
    PROVE  Inv'
<1>1. TypeOK /\ Shape /\ Rooted
  BY DEF Inv
<1>2. /\ n \in Paths /\ tree \in [Nodes -> Block] /\ Nodes \subseteq Paths
      /\ running_rec \in [DOMAIN running_rec -> Paths] /\ DOMAIN running_rec \subseteq Names
  BY <1>1 DEF TypeOK, Nodes
<1> DEFINE blk == [is_used |-> TRUE, pname |-> p, bytes |-> b]
<1>3. blk \in Block /\ blk.is_used /\ blk.pname = p /\ blk.bytes = b
  BY DEF Block
<1>4. tree' = [tree EXCEPT ![n] = blk]
  BY DEF allot
<1> HIDE DEF blk
<1>5. /\ tree' \in [Nodes -> Block] /\ Nodes' = Nodes /\ tree'[n] = blk
      /\ \A m \in Nodes : m # n => tree'[m] = tree[m]
      /\ \A m \in Nodes : tree[m].is_used => tree'[m].is_used
  BY <1>2, <1>3, <1>4 DEF Nodes
<1>6. \A m : Leaf(m)' = Leaf(m) /\ Order(m)' = Order(m)
  BY <1>5 DEF Leaf, Order
<1>7. job' = Idle /\ job'.pc = "idle" /\ Current' = {} /\ \A q : FreeList(q)' = free_map'[q]
  BY DEF allot, Idle, Current, FreeList
<1>8. /\ DOMAIN running_rec' = DOMAIN running_rec \cup {p} /\ running_rec'[p] = n
      /\ \A q \in DOMAIN running_rec : q # p => running_rec'[q] = running_rec[q]
      /\ running_rec' \in [DOMAIN running_rec' -> Paths]
  BY <1>2 DEF allot
<1>9. TypeOK'
  BY <1>1, <1>2, <1>5, <1>7, <1>8 DEF TypeOK, Jobs
<1>10. Shape' /\ Rooted'
  <2>1. \A m \in Nodes : m # root => parent(m) \in Nodes
    BY <1>1 DEF Shape
  <2> QED
    BY <1>1, <1>5, <2>1 DEF Shape, Rooted
<1>11. CurrentOk' /\ SplitOk'
  BY <1>7 DEF CurrentOk, SplitOk
<1>12. \A m \in Nodes : Free(m)' <=> Free(m) /\ m # n
  BY <1>3, <1>5, <1>6, <1>7 DEF Free
<1>13. ListsOk'
  <2> SUFFICES ASSUME NEW q \in L .. U
               PROVE  /\ Once(free_map'[q])
                      /\ \A m \in Elems(free_map'[q]) : Free(m)' /\ Order(m) = q
                      /\ \A m \in Nodes : Free(m)' /\ m # root /\ Order(m) = q
                           => m \in Elems(free_map'[q])
    BY <1>5, <1>6, <1>7 DEF ListsOk
  <2>1. /\ \A m \in Elems(FreeList(q)) : Free(m) /\ Order(m) = q
        /\ \A m \in Nodes : Free(m) /\ m # root /\ Order(m) = q => m \in Elems(FreeList(q))
    BY DEF Inv, ListsOk
  <2>2. \A m : Free(m) => m \in Nodes
    BY DEF Free
  <2> QED
    BY <1>12, <2>1, <2>2
<1>14. HeldOk'
  <2> SUFFICES ASSUME NEW q \in DOMAIN running_rec'
               PROVE  /\ Leaf(running_rec'[q]) /\ tree'[running_rec'[q]].is_used
                      /\ tree'[running_rec'[q]].pname = q
                      /\ Fits(tree'[running_rec'[q]].bytes, Order(running_rec'[q]))
    BY <1>6, <1>7 DEF HeldOk, Fits
  <2>1. CASE q = p
    BY <1>3, <1>5, <1>8, <2>1
  <2>2. CASE q # p
    <3>1. q \in DOMAIN running_rec /\ running_rec'[q] = running_rec[q]
      BY <1>8, <2>2
    <3>2. /\ Leaf(running_rec[q]) /\ tree[running_rec[q]].is_used
          /\ tree[running_rec[q]].pname = q
          /\ Fits(tree[running_rec[q]].bytes, Order(running_rec[q]))
      BY <3>1 DEF Inv, HeldOk
    <3>3. running_rec[q] \in Nodes /\ running_rec[q] # n
      BY <3>2 DEF Leaf
    <3> QED
      BY <1>5, <3>1, <3>2, <3>3
  <2> QED
    BY <2>1, <2>2
<1>15. NothingLost'
  <2> SUFFICES ASSUME ~Again, NEW m \in Nodes, Leaf(m), tree'[m].is_used
               PROVE  /\ tree'[m].pname \in DOMAIN running_rec'
                      /\ running_rec'[tree'[m].pname] = m
    BY <1>5, <1>6 DEF NothingLost
  <2>1. CASE m = n
    BY <1>3, <1>5, <1>8, <2>1
  <2>2. CASE m # n
    <3>1. tree'[m] = tree[m] /\ m \notin Current
      BY <1>5, <2>2
    <3>2. tree[m].pname \in DOMAIN running_rec /\ running_rec[tree[m].pname] = m
      BY <3>1 DEF Inv, NothingLost
    <3> QED
      BY <1>8, <3>1, <3>2
  <2> QED
    BY <2>1, <2>2
<1>16. Buddies'
  <2> SUFFICES ASSUME NEW m \in Nodes, m # root
               PROVE  tree'[m].is_used \/ tree'[Sibling(m)].is_used
    BY <1>5 DEF Buddies
  <2>1. tree[m].is_used \/ tree[Sibling(m)].is_used \/ n \in {m, Sibling(m)}
    BY DEF Inv, Buddies
  <2>2. Sibling(m) \in Nodes
    BY <1>1, NodeFacts
  <2> QED
    BY <1>3, <1>5, <2>1, <2>2
<1> QED
  BY <1>9, <1>10, <1>11, <1>13, <1>14, <1>15, <1>16 DEF Inv

\* Between requests, the head of a list is a free block of its size.
LEMMA HeadOfList ==
    ASSUME Inv, job = Idle, NEW o \in L .. U, free_map[o] # <<>>
    PROVE  /\ Free(Head(free_map[o])) /\ Order(Head(free_map[o])) = o
           /\ Head(free_map[o]) \in Nodes
           /\ Tail(free_map[o]) \in Seq(Paths) /\ Once(Tail(free_map[o]))
           /\ Elems(Tail(free_map[o])) = Elems(free_map[o]) \ {Head(free_map[o])}
           /\ Current = {} /\ \A q : FreeList(q) = free_map[q]
<1>1. TypeOK /\ ListsOk
  BY DEF Inv
<1>2. job.pc = "idle"
  BY <1>1, JobCases
<1>3. Current = {} /\ \A q : FreeList(q) = free_map[q]
  BY <1>2 DEF Current, FreeList
<1>4. free_map[o] \in Seq(Paths)
  BY <1>1 DEF TypeOK
<1>5. /\ Once(free_map[o])
      /\ \A n \in Elems(free_map[o]) : Free(n) /\ Order(n) = o
  BY <1>1, <1>3 DEF ListsOk
<1>6. /\ Tail(free_map[o]) \in Seq(Paths) /\ Once(Tail(free_map[o]))
      /\ Elems(Tail(free_map[o])) = Elems(free_map[o]) \ {Head(free_map[o])}
      /\ Head(free_map[o]) \in Elems(free_map[o])
  BY <1>4, <1>5, TailFacts
<1>7. Free(Head(free_map[o])) /\ Order(Head(free_map[o])) = o
  BY <1>5, <1>6
<1> QED
  BY <1>3, <1>6, <1>7 DEF Free

\* A block of the size that is wanted.
LEMMA AllotExactOk ==
    ASSUME Inv, NEW p \in Names, NEW b \in Nat, AllotExact(p, b)
    PROVE  Inv'
<1> DEFINE w == find_reqd_power_of_2(b)
           n == Head(free_map[w])
<1>1. TypeOK /\ Shape
  BY DEF Inv
<1>2. /\ job = Idle /\ b <= 2 ^ U /\ (Again \/ p \notin DOMAIN running_rec)
      /\ Available(w) # {} /\ can_get(w) = w /\ allot(n, w, p, b) /\ UNCHANGED <<U, L>>
  BY DEF AllotExact, Asks
<1>3. w \in L .. U /\ Fits(b, w)
  BY <1>1, <1>2, RequestFits
<1> HIDE DEF w
<1>4. free_map[w] # <<>>
  BY <1>1, <1>2, <1>3, SearchStops
<1>5. /\ Free(n) /\ Order(n) = w /\ n \in Nodes
      /\ Tail(free_map[w]) \in Seq(Paths) /\ Once(Tail(free_map[w]))
      /\ Elems(Tail(free_map[w])) = Elems(free_map[w]) \ {n}
      /\ Current = {} /\ \A q : FreeList(q) = free_map[q]
  BY <1>2, <1>3, <1>4, HeadOfList
<1> HIDE DEF n
<1>6. free_map' = [free_map EXCEPT ![w] = Tail(free_map[w])]
  BY <1>2 DEF allot
<1>7. free_map \in [L .. U -> Seq(Paths)]
  BY <1>1 DEF TypeOK
<1>8. free_map' \in [L .. U -> Seq(Paths)]
  BY <1>5, <1>6, <1>7
<1>9. ASSUME NEW q \in L .. U
      PROVE  Once(free_map'[q]) /\ Elems(free_map'[q]) = Elems(FreeList(q)) \ {n}
  <2>1. CASE q = w
    BY <1>3, <1>5, <1>6, <1>7, <2>1
  <2>2. CASE q # w
    <3>1. free_map'[q] = free_map[q] /\ FreeList(q) = free_map[q]
      BY <1>5, <1>6, <1>7, <2>2
    <3>2. Once(FreeList(q)) /\ \A m \in Elems(FreeList(q)) : Order(m) = q
      BY DEF Inv, ListsOk
    <3>3. n \notin Elems(FreeList(q))
      BY <1>5, <2>2, <3>2
    <3> QED
      BY <3>1, <3>2, <3>3
  <2> QED
    BY <2>1, <2>2
<1>10. Leaf(n) /\ ~tree[n].is_used
  BY <1>5 DEF Free
<1> QED
  BY <1>2, <1>3, <1>5, <1>8, <1>9, <1>10, AllotOk

\* A larger block comes into the hand of the splitting loop.
LEMMA AllotSplitOk ==
    ASSUME Inv, NEW p \in Names, NEW b \in Nat, AllotSplit(p, b)
    PROVE  Inv'
<1> DEFINE w == find_reqd_power_of_2(b)
           o == can_get(w)
           n == Head(free_map[o])
<1>1. TypeOK /\ Shape
  BY DEF Inv
<1>2. /\ job = Idle /\ b <= 2 ^ U /\ (Again \/ p \notin DOMAIN running_rec)
      /\ Available(w) # {} /\ o # w /\ job' = Splitting(n, w, o, p, b)
      /\ UNCHANGED <<U, L, tree, free_map, running_rec>>
  BY DEF AllotSplit, Asks
<1>3. w \in L .. U /\ Fits(b, w)
  BY <1>1, <1>2, RequestFits
<1> HIDE DEF w
<1>4. o \in w .. U /\ o \in L .. U /\ free_map[o] # <<>>
  BY <1>1, <1>2, <1>3, SearchStops
<1> HIDE DEF o
<1>5. /\ Free(n) /\ Order(n) = o /\ n \in Nodes
      /\ Tail(free_map[o]) \in Seq(Paths) /\ Once(Tail(free_map[o]))
      /\ Elems(Tail(free_map[o])) = Elems(free_map[o]) \ {n}
      /\ Current = {} /\ \A q : FreeList(q) = free_map[q]
  BY <1>2, <1>4, HeadOfList
<1>n. n = Head(free_map[o])
  OBVIOUS
<1> HIDE DEF n
<1>6. n \in Paths /\ U \in Nat /\ L \in Nat
  BY <1>1, <1>5, Bounds DEF TypeOK, Nodes
<1>7. /\ job' \in [pc : {"split"}, curr : Paths, want : L .. U, can_get : L .. U,
                   p : Names, b : Nat]
      /\ job'.pc = "split" /\ job'.curr = n /\ job'.want = w /\ job'.can_get = o
      /\ job'.p = p /\ job'.b = b
  BY <1>2, <1>3, <1>4, <1>6 DEF Splitting
<1>8. /\ Nodes' = Nodes /\ \A m : Leaf(m)' = Leaf(m) /\ Order(m)' = Order(m)
      /\ Current' = {n}
      /\ \A q : FreeList(q)' = IF q = o THEN Tail(free_map[q]) ELSE free_map[q]
  BY <1>2, <1>7 DEF Nodes, Leaf, Order, Current, FreeList
<1>9. \A m : Free(m)' <=> Free(m) /\ m # n
  BY <1>2, <1>5, <1>8 DEF Free
<1>10. TypeOK'
  BY <1>1, <1>2, <1>7, <1>8 DEF TypeOK, Jobs
<1>11. Shape' /\ Rooted'
  BY <1>2, <1>8 DEF Inv, Shape, Rooted
<1>12. CurrentOk'
  BY <1>5, <1>8 DEF CurrentOk, Free
<1>13. ListsOk'
  <2> SUFFICES ASSUME NEW q \in L .. U
               PROVE  /\ Once(FreeList(q)')
                      /\ \A m \in Elems(FreeList(q)') : Free(m)' /\ Order(m) = q
                      /\ \A m \in Nodes : Free(m)' /\ m # root /\ Order(m) = q
                           => m \in Elems(FreeList(q)')
    BY <1>2, <1>8 DEF ListsOk
  <2>1. /\ Once(free_map[q])
        /\ \A m \in Elems(free_map[q]) : Free(m) /\ Order(m) = q
        /\ \A m \in Nodes : Free(m) /\ m # root /\ Order(m) = q => m \in Elems(free_map[q])
    BY <1>5 DEF Inv, ListsOk
  <2>2. CASE q = o
    BY <1>5, <1>8, <1>9, <2>1, <2>2
  <2>3. CASE q # o
    BY <1>5, <1>8, <1>9, <2>1, <2>3
  <2> QED
    BY <2>2, <2>3
<1>14. HeldOk'
  <2>1. \A q \in DOMAIN running_rec : running_rec[q] # n
    BY <1>5 DEF Inv, HeldOk, Free
  <2> QED
    BY <1>2, <1>8, <2>1 DEF Inv, HeldOk, Fits
<1>15. NothingLost'
  BY <1>2, <1>5, <1>8 DEF Inv, NothingLost
<1>16. SplitOk'
  <2>1. ~tree[n].is_used
    BY <1>5 DEF Free
  <2>2. w <= o /\ o <= o
    BY <1>3, <1>4, <1>6
  <2> QED
    BY <1>2, <1>3, <1>4, <1>5, <1>7, <1>8, <1>n, <2>1, <2>2 DEF SplitOk, Fits
<1>17. Buddies'
  BY <1>2, <1>5, <1>8 DEF Inv, Buddies
<1> QED
  BY <1>10, <1>11, <1>12, <1>13, <1>14, <1>15, <1>16, <1>17 DEF Inv

\* What the splitting loop has in hand.
LEMMA InHand ==
    ASSUME Inv, job.pc = "split"
    PROVE  /\ job.curr \in Nodes /\ job.curr \in Paths /\ Leaf(job.curr)
           /\ Current = {job.curr} /\ ~tree[job.curr].is_used
           /\ Order(job.curr) \in L .. U
           /\ job.want \in L .. U /\ job.can_get \in L .. U /\ job.p \in Names /\ job.b \in Nat
           /\ job.want <= Order(job.curr) /\ Order(job.curr) <= job.can_get
           /\ Fits(job.b, job.want)
           /\ Again \/ job.p \notin DOMAIN running_rec
           /\ free_map[job.can_get] # <<>>
           /\ \A q : FreeList(q) = IF q = job.can_get THEN Tail(free_map[q]) ELSE free_map[q]
           /\ \A q \in L .. U : FreeList(q) \in Seq(Paths)
<1>1. TypeOK /\ Shape /\ CurrentOk /\ SplitOk
  BY DEF Inv
<1>2. /\ job.curr \in Paths /\ job.want \in L .. U /\ job.can_get \in L .. U
      /\ job.p \in Names /\ job.b \in Nat
  BY <1>1, JobCases
<1>3. Current = {job.curr}
  BY DEF Current
<1>4. Leaf(job.curr) /\ job.curr \in Nodes
  BY <1>1, <1>3 DEF CurrentOk, Leaf
<1>5. Order(job.curr) \in L .. U
  BY <1>1, <1>4, NodeFacts
<1>6. \A q : FreeList(q) = IF q = job.can_get THEN Tail(free_map[q]) ELSE free_map[q]
  BY DEF FreeList
<1>7. free_map[job.can_get] # <<>>
  BY <1>1 DEF SplitOk
<1>8. \A q \in L .. U : FreeList(q) \in Seq(Paths)
  <2>1. \A q \in L .. U : free_map[q] \in Seq(Paths)
    BY <1>1 DEF TypeOK
  <2>2. Tail(free_map[job.can_get]) \in Seq(Paths)
    BY <1>2, <1>7, <2>1, HeadTailProperties
  <2> QED
    BY <1>6, <2>1, <2>2
<1> QED
  BY <1>1, <1>2, <1>3, <1>4, <1>5, <1>6, <1>7, <1>8 DEF SplitOk

\* The end of the splitting loop.
LEMMA SplitDoneOk ==
    ASSUME Inv, SplitDone
    PROVE  Inv'
<1> DEFINE n == job.curr
           o == job.can_get
<1>1. /\ job.pc = "split" /\ Order(n) = job.want /\ allot(n, o, job.p, job.b)
      /\ UNCHANGED <<U, L>>
  BY DEF SplitDone
<1>2. /\ n \in Nodes /\ Leaf(n) /\ Current = {n} /\ ~tree[n].is_used
      /\ o \in L .. U /\ job.p \in Names /\ job.b \in Nat
      /\ Fits(job.b, Order(n))
      /\ Again \/ job.p \notin DOMAIN running_rec
      /\ \A q : FreeList(q) = IF q = o THEN Tail(free_map[q]) ELSE free_map[q]
      /\ \A q \in L .. U : FreeList(q) \in Seq(Paths)
  BY <1>1, InHand
<1>3. free_map' = [free_map EXCEPT ![o] = Tail(free_map[o])]
  BY <1>1 DEF allot
<1>4. free_map \in [L .. U -> Seq(Paths)]
  BY DEF Inv, TypeOK
<1> HIDE DEF n, o
<1>5. \A q \in L .. U : free_map'[q] = FreeList(q)
  BY <1>2, <1>3, <1>4
<1>6. free_map' \in [L .. U -> Seq(Paths)]
  <2>1. Tail(free_map[o]) \in Seq(Paths)
    BY <1>2
  <2> QED
    BY <1>3, <1>4, <2>1
<1>7. ASSUME NEW q \in L .. U
      PROVE  Once(free_map'[q]) /\ Elems(free_map'[q]) = Elems(FreeList(q)) \ {n}
  <2>1. Once(FreeList(q)) /\ \A m \in Elems(FreeList(q)) : m \notin Current
    BY DEF Inv, ListsOk, Free
  <2> QED
    BY <1>2, <1>5, <2>1
<1> QED
  BY <1>1, <1>2, <1>6, <1>7, AllotOk

\* One iteration of the splitting loop: the right half is on its list, the left half
\* in hand.
LEMMA SplitStepOk ==
    ASSUME Inv, SplitStep
    PROVE  Inv'
<1>a. PICK n, o, l, r, h : /\ n = job.curr /\ o = job.can_get
                           /\ l = left(n) /\ r = right(n) /\ h = Order(n) - 1
  OBVIOUS
<1>1. /\ job.pc = "split" /\ Order(n) # job.want /\ split(n)
      /\ job' = [job EXCEPT !.curr = l] /\ UNCHANGED <<U, L, running_rec>>
  BY <1>a DEF SplitStep
<1>2. /\ n \in Nodes /\ n \in Paths /\ Leaf(n) /\ Current = {n} /\ ~tree[n].is_used
      /\ Order(n) \in L .. U /\ job.want \in L .. U /\ o \in L .. U
      /\ job.want <= Order(n) /\ Order(n) <= o
      /\ Fits(job.b, job.want) /\ (Again \/ job.p \notin DOMAIN running_rec)
      /\ free_map[o] # <<>>
      /\ \A q : FreeList(q) = IF q = o THEN Tail(free_map[q]) ELSE free_map[q]
      /\ \A q \in L .. U : FreeList(q) \in Seq(Paths)
  BY <1>1, <1>a, InHand
<1>3. TypeOK /\ Shape /\ Rooted
  BY DEF Inv
<1>4. /\ U \in Nat /\ L \in Nat /\ h \in L .. U /\ h # o /\ job.want <= h /\ h <= o
      /\ Len(n) \in Nat /\ Order(n) = U - Len(n) /\ Len(n) + 1 <= U - L
  <2>1. U \in Nat /\ L \in Nat /\ Len(n) \in Nat /\ Order(n) = U - Len(n)
    BY <1>2, <1>3, Bounds, Root DEF Order
  <2>2. /\ Order(n) \in L .. U /\ job.want \in L .. U /\ o \in L .. U
        /\ job.want <= Order(n) /\ Order(n) <= o /\ job.want # Order(n)
    BY <1>1, <1>2
  <2>3. h = U - Len(n) - 1
    BY <1>a, <2>1
  <2> QED
    BY <2>1, <2>2, <2>3
<1>5. /\ tree \in [Nodes -> Block] /\ Nodes \subseteq Paths
      /\ free_map \in [L .. U -> Seq(Paths)]
      /\ job \in [pc : {"split"}, curr : Paths, want : L .. U, can_get : L .. U,
                  p : Names, b : Nat]
  BY <1>1, <1>3, JobCases DEF TypeOK, Nodes
<1>6. /\ l \in Paths /\ r \in Paths /\ l # r /\ l # n /\ r # n
      /\ Len(l) = Len(n) + 1 /\ Len(r) = Len(n) + 1 /\ parent(l) = n /\ parent(r) = n
      /\ Sibling(l) = r /\ Sibling(r) = l /\ l # root /\ r # root
  BY <1>2, <1>a, Children
<1>k. /\ \A k \in 0 .. Len(n) : SubSeq(l, 1, k) = SubSeq(n, 1, k)
      /\ \A k \in 0 .. Len(n) : SubSeq(r, 1, k) = SubSeq(n, 1, k)
  BY <1>2, <1>a, Children
<1>7. l \notin Nodes /\ r \notin Nodes
  BY <1>2, <1>a DEF Leaf
<1>8. /\ tree' = [m \in Nodes \cup {l, r} |->
                    IF m = n THEN [tree[n] EXCEPT !.is_used = TRUE]
                    ELSE IF m \in Nodes THEN tree[m] ELSE create]
      /\ free_map' = [free_map EXCEPT ![h] = <<r>> \o free_map[h]]
  BY <1>1, <1>a DEF split
<1>9. /\ Nodes' = Nodes \cup {l, r}
      /\ \A m \in Nodes : m # n => tree'[m] = tree[m]
      /\ tree'[n] = [tree[n] EXCEPT !.is_used = TRUE]
      /\ tree'[l] = create /\ tree'[r] = create
  BY <1>2, <1>6, <1>7, <1>8 DEF Nodes
<1>10. /\ tree[n] \in Block /\ [tree[n] EXCEPT !.is_used = TRUE] \in Block
       /\ tree'[n].is_used /\ create \in Block /\ ~create.is_used
  <2>1. n \in Nodes
    BY <1>2
  <2>2. tree[n] \in Block
    BY <1>5, <2>1
  <2>3. /\ [tree[n] EXCEPT !.is_used = TRUE] \in Block /\ [tree[n] EXCEPT !.is_used = TRUE].is_used
        /\ create \in Block /\ ~create.is_used
    BY <2>2, BlockFields
  <2> QED
    BY <1>9, <2>2, <2>3
<1>11. tree' \in [Nodes' -> Block]
  BY <1>5, <1>8, <1>9, <1>10
\* Leaves.
<1>12. \A m \in Nodes : m # n => (Leaf(m)' <=> Leaf(m))
  <2> SUFFICES ASSUME NEW m \in Nodes, m # n PROVE Leaf(m)' <=> Leaf(m)
    OBVIOUS
  <2>1. m \in Paths
    BY <1>5
  <2>2. parent(left(m)) = m /\ parent(right(m)) = m
    BY <2>1, Children
  <2>3. left(m) \notin {l, r} /\ right(m) \notin {l, r}
    BY <1>6, <2>2
  <2> QED
    BY <1>9, <2>3 DEF Leaf
<1>13. Leaf(l)' /\ Leaf(r)' /\ ~Leaf(n)'
  <2>1. ASSUME NEW m \in {l, r}
        PROVE  left(m) \notin Nodes' /\ right(m) \notin Nodes'
    <3>1. m \in Paths /\ m # root /\ m \notin Nodes /\ Len(m) = Len(n) + 1
      BY <1>6, <1>7
    <3>2. /\ parent(left(m)) = m /\ parent(right(m)) = m /\ left(m) # root /\ right(m) # root
          /\ Len(left(m)) = Len(m) + 1 /\ Len(right(m)) = Len(m) + 1
      BY <3>1, Children
    <3>3. left(m) \notin Nodes /\ right(m) \notin Nodes
      BY <1>3, <3>1, <3>2, NodeFacts
    <3>4. left(m) \notin {l, r} /\ right(m) \notin {l, r}
      BY <1>4, <1>6, <3>1, <3>2
    <3> QED
      BY <1>9, <3>3, <3>4
  <2> QED
    BY <1>9, <1>a, <2>1 DEF Leaf
<1>14. /\ job' \in [pc : {"split"}, curr : Paths, want : L .. U, can_get : L .. U,
                    p : Names, b : Nat]
       /\ job'.pc = "split" /\ job'.curr = l /\ job'.want = job.want /\ job'.can_get = job.can_get
       /\ job'.p = job.p /\ job'.b = job.b /\ Current' = {l}
  <2>1. /\ job' \in [pc : {"split"}, curr : Paths, want : L .. U, can_get : L .. U,
                     p : Names, b : Nat]
        /\ job'.pc = "split" /\ job'.curr = l /\ job'.want = job.want
        /\ job'.can_get = job.can_get /\ job'.p = job.p /\ job'.b = job.b
    BY <1>1, <1>5, <1>6
  <2> QED
    BY <2>1 DEF Current
<1>15. \A m : Order(m)' = Order(m)
  BY <1>1 DEF Order
<1>16. Order(l) = h /\ Order(r) = h
  BY <1>4, <1>6, <1>a DEF Order
\* Free blocks: one more.
<1>17. \A m \in Nodes' : Free(m)' <=> (m \in Nodes /\ Free(m)) \/ m = r
  <2> SUFFICES ASSUME NEW m \in Nodes'
               PROVE  Free(m)' <=> (m \in Nodes /\ Free(m)) \/ m = r
    OBVIOUS
  <2>1. CASE m \in Nodes /\ m # n
    BY <1>2, <1>7, <1>9, <1>12, <1>14, <2>1 DEF Free
  <2>2. CASE m = n
    BY <1>2, <1>6, <1>13, <2>2 DEF Free
  <2>3. CASE m = l
    BY <1>6, <1>7, <1>14, <2>3 DEF Free
  <2>4. CASE m = r
    BY <1>6, <1>9, <1>10, <1>13, <1>14, <2>4 DEF Free
  <2> QED
    BY <1>9, <2>1, <2>2, <2>3, <2>4
<1>18. r \notin Elems(free_map[h]) /\ Once(free_map[h])
  <2>1. FreeList(h) = free_map[h]
    BY <1>2, <1>4
  <2>2. Once(FreeList(h)) /\ \A m \in Elems(FreeList(h)) : Free(m)
    BY <1>4 DEF Inv, ListsOk
  <2> QED
    BY <1>7, <2>1, <2>2 DEF Free
<1>19. /\ free_map'[h] = <<r>> \o free_map[h] /\ free_map'[h] \in Seq(Paths)
       /\ Once(free_map'[h]) /\ Elems(free_map'[h]) = Elems(free_map[h]) \cup {r}
       /\ \A q \in L .. U : q # h => free_map'[q] = free_map[q]
       /\ free_map' \in [L .. U -> Seq(Paths)]
  <2>1. /\ <<r>> \o free_map[h] \in Seq(Paths) /\ Once(<<r>> \o free_map[h])
        /\ Elems(<<r>> \o free_map[h]) = Elems(free_map[h]) \cup {r}
    BY <1>4, <1>5, <1>6, <1>18, PushFacts
  <2> QED
    BY <1>4, <1>5, <1>8, <2>1
<1>20. \A q \in L .. U : /\ q # h => FreeList(q)' = FreeList(q)
                         /\ q = h => FreeList(q)' = free_map'[q] /\ FreeList(q) = free_map[q]
  BY <1>2, <1>4, <1>14, <1>19, <1>a DEF FreeList
<1>21. TypeOK'
  BY <1>1, <1>3, <1>5, <1>6, <1>9, <1>11, <1>14, <1>19 DEF TypeOK, Jobs
<1>22. Shape'
  <2>1. root \in Nodes'
    BY <1>3, <1>9 DEF Shape
  <2>2. ASSUME NEW m \in Nodes'
        PROVE  /\ Len(m) <= U - L
               /\ m # root => /\ parent(m) \in Nodes' /\ Sibling(m) \in Nodes'
                              /\ tree'[parent(m)].is_used
    <3>1. CASE m \in Nodes
      <4>1. /\ Len(m) <= U - L
            /\ m # root => /\ parent(m) \in Nodes /\ Sibling(m) \in Nodes
                           /\ tree[parent(m)].is_used
        BY <1>3, <3>1 DEF Shape
      <4> QED
        BY <1>2, <1>9, <4>1
    <3>2. CASE m \in {l, r}
      BY <1>2, <1>4, <1>6, <1>9, <1>10, <3>2
    <3> QED
      BY <1>9, <3>1, <3>2
  <2> QED
    BY <1>1, <2>1, <2>2 DEF Shape
<1>23. Rooted'
  <2> SUFFICES ASSUME NEW m \in Nodes', NEW k \in 0 .. Len(m)
               PROVE  SubSeq(m, 1, k) \in Nodes'
    BY DEF Rooted
  <2>1. CASE m \in Nodes
    BY <1>3, <1>9, <2>1 DEF Rooted
  <2>2. CASE m \in {l, r}
    <3>1. CASE k \in 0 .. Len(n)
      <4>1. SubSeq(m, 1, k) = SubSeq(n, 1, k)
        BY <1>k, <2>2, <3>1
      <4> QED
        BY <1>2, <1>3, <1>9, <3>1, <4>1 DEF Rooted
    <3>2. CASE k \notin 0 .. Len(n)
      <4>1. m \in Seq({0, 1}) /\ Len(m) = Len(n) + 1
        BY <1>6, <2>2 DEF Paths
      <4>2. k = Len(m)
        BY <1>4, <3>2, <4>1
      <4> QED
        BY <4>1, <4>2, SubSeqFull
    <3> QED
      BY <3>1, <3>2
  <2> QED
    BY <1>9, <2>1, <2>2
<1>24. CurrentOk'
  BY <1>13, <1>14 DEF CurrentOk
<1>25. ListsOk'
  <2> SUFFICES ASSUME NEW q \in L .. U
               PROVE  /\ Once(FreeList(q)')
                      /\ \A m \in Elems(FreeList(q)') : Free(m)' /\ Order(m) = q
                      /\ \A m \in Nodes' : Free(m)' /\ m # root /\ Order(m) = q
                           => m \in Elems(FreeList(q)')
    BY <1>1, <1>15 DEF ListsOk
  <2>1. /\ Once(FreeList(q))
        /\ \A m \in Elems(FreeList(q)) : Free(m) /\ Order(m) = q
        /\ \A m \in Nodes : Free(m) /\ m # root /\ Order(m) = q => m \in Elems(FreeList(q))
    BY DEF Inv, ListsOk
  <2>2. \A m : Free(m) => m \in Nodes /\ m \in Nodes'
    BY <1>9 DEF Free
  <2>3. CASE q = h
    <3>1. /\ Elems(FreeList(q)') = Elems(FreeList(q)) \cup {r} /\ Once(FreeList(q)')
      BY <1>19, <1>20, <2>3
    <3> QED
      BY <1>9, <1>16, <1>17, <2>1, <2>2, <2>3, <3>1
  <2>4. CASE q # h
    <3>1. FreeList(q)' = FreeList(q)
      BY <1>20, <2>4
    <3> QED
      BY <1>16, <1>17, <2>1, <2>2, <2>4, <3>1
  <2> QED
    BY <2>3, <2>4
<1>26. HeldOk'
  <2> SUFFICES ASSUME NEW q \in DOMAIN running_rec, NEW m, m = running_rec[q]
               PROVE  /\ Leaf(m)' /\ m # l /\ tree'[m].is_used /\ tree'[m].pname = q
                      /\ Fits(tree'[m].bytes, Order(m))
    BY <1>1, <1>14, <1>15 DEF HeldOk, Fits, Leaf
  <2>1. /\ Leaf(m) /\ m # n /\ tree[m].is_used /\ tree[m].pname = q
        /\ Fits(tree[m].bytes, Order(m))
    BY <1>2 DEF Inv, HeldOk
  <2>2. m \in Nodes
    BY <2>1 DEF Leaf
  <2> QED
    BY <1>7, <1>9, <1>12, <2>1, <2>2
<1>27. NothingLost'
  <2> SUFFICES ASSUME ~Again, NEW m \in Nodes', Leaf(m)', tree'[m].is_used
               PROVE  /\ tree'[m].pname \in DOMAIN running_rec
                      /\ running_rec[tree'[m].pname] = m
    BY <1>1 DEF NothingLost
  <2>1. m \in Nodes /\ m # n
    BY <1>9, <1>10, <1>13
  <2>2. Leaf(m) /\ tree'[m] = tree[m] /\ m \notin Current
    BY <1>2, <1>9, <1>12, <2>1
  <2> QED
    BY <2>1, <2>2 DEF Inv, NothingLost
<1>28. SplitOk'
  <2>1. free_map'[o] = free_map[o]
    BY <1>2, <1>4, <1>19
  <2>2. Head(free_map'[o]) \in Nodes' /\ ~Leaf(Head(free_map[o]))'
    <3>1. PICK g : g = Head(free_map[o])
      OBVIOUS
    <3>2. g \in Nodes /\ (g = n \/ ~Leaf(g))
      BY <1>1, <1>a, <3>1 DEF Inv, SplitOk
    <3>3. g \in Nodes' /\ ~Leaf(g)'
      BY <1>9, <1>12, <1>13, <3>2
    <3>4. Head(free_map'[o]) = g
      BY <2>1, <3>1
    <3> QED
      BY <3>3, <3>4 DEF Leaf
  <2> QED
    BY <1>1, <1>2, <1>4, <1>9, <1>10, <1>14, <1>15, <1>16, <1>a, <2>1, <2>2 DEF SplitOk, Fits
<1>29. Buddies'
  <2> SUFFICES ASSUME NEW m \in Nodes', m # root
               PROVE  \/ tree'[m].is_used \/ tree'[Sibling(m)].is_used
                      \/ l \in {m, Sibling(m)}
    BY <1>14 DEF Buddies
  <2>1. CASE m \in {l, r}
    BY <1>6, <2>1
  <2>2. CASE m \in Nodes
    <3>1. tree[m].is_used \/ tree[Sibling(m)].is_used \/ n \in {m, Sibling(m)}
      BY <1>2, <2>2 DEF Inv, Buddies
    <3>2. Sibling(m) \in Nodes
      BY <1>3, <2>2, NodeFacts
    <3> QED
      BY <1>9, <1>10, <2>2, <3>1, <3>2
  <2> QED
    BY <1>9, <2>1, <2>2
<1> QED
  BY <1>21, <1>22, <1>23, <1>24, <1>25, <1>26, <1>27, <1>28, <1>29 DEF Inv

\* A process releases its block, which the coalescing loop takes into its hand.
LEMMA ReleaseOk ==
    ASSUME Inv, NEW p \in Names, Release(p)
    PROVE  Inv'
<1>a. PICK n : n = running_rec[p]
  OBVIOUS
<1>1. /\ job = Idle /\ p \in DOMAIN running_rec
      /\ tree' = [tree EXCEPT ![n].is_used = FALSE] /\ job' = Coalescing(n)
      /\ running_rec' = [q \in DOMAIN running_rec \ {p} |-> running_rec[q]]
      /\ UNCHANGED <<U, L, free_map>>
  BY <1>a DEF Release
<1>2. TypeOK /\ Shape /\ Rooted
  BY DEF Inv
<1>3. job.pc = "idle" /\ Current = {} /\ \A q : FreeList(q) = free_map[q]
  BY <1>1, <1>2, JobCases DEF Current, FreeList
<1>4. Leaf(n) /\ tree[n].is_used /\ tree[n].pname = p /\ n \in Nodes
  BY <1>1, <1>a DEF Inv, HeldOk, Leaf
<1>5. n \in Paths /\ tree[n] \in Block /\ tree \in [Nodes -> Block]
  BY <1>2, <1>4 DEF TypeOK, Nodes
<1>6. /\ job' \in [pc : {"coalesce"}, temp : Paths] /\ job'.pc = "coalesce" /\ job'.temp = n
  BY <1>1, <1>5 DEF Coalescing
<1>7. Current' = {n} /\ \A q : FreeList(q)' = free_map[q]
  BY <1>1, <1>6 DEF Current, FreeList
<1>8. /\ tree' \in [Nodes -> Block] /\ Nodes' = Nodes /\ ~tree'[n].is_used
      /\ \A m \in Nodes : m # n => tree'[m] = tree[m]
  BY <1>1, <1>4, <1>5, BlockFields DEF Nodes
<1>9. \A m : Leaf(m)' = Leaf(m) /\ Order(m)' = Order(m)
  BY <1>1, <1>8 DEF Leaf, Order
<1>10. \A m : Free(m)' <=> Free(m)
  BY <1>3, <1>4, <1>7, <1>8, <1>9 DEF Free
<1>11. TypeOK'
  <2>1. /\ DOMAIN running_rec' \subseteq Names
        /\ running_rec' \in [DOMAIN running_rec' -> Paths]
    BY <1>1, <1>2 DEF TypeOK
  <2> QED
    BY <1>1, <1>2, <1>5, <1>6, <1>8, <2>1 DEF TypeOK, Jobs
<1>12. Shape'
  <2>1. \A m \in Nodes : m # root => parent(m) \in Nodes /\ parent(m) # n
    BY <1>2, <1>4, NodeFacts
  <2> QED
    BY <1>1, <1>2, <1>8, <2>1 DEF Shape
<1>13. Rooted' /\ CurrentOk' /\ SplitOk'
  BY <1>2, <1>4, <1>6, <1>7, <1>8, <1>9 DEF Rooted, CurrentOk, SplitOk
<1>14. ListsOk'
  BY <1>1, <1>3, <1>7, <1>8, <1>9, <1>10 DEF Inv, ListsOk
<1>15. HeldOk'
  <2> SUFFICES ASSUME NEW q \in DOMAIN running_rec, q # p, NEW m, m = running_rec[q]
               PROVE  /\ Leaf(m)' /\ m # n /\ tree'[m].is_used /\ tree'[m].pname = q
                      /\ Fits(tree'[m].bytes, Order(m))
    BY <1>1, <1>7, <1>9 DEF HeldOk, Fits, Leaf
  <2>1. /\ Leaf(m) /\ tree[m].is_used /\ tree[m].pname = q /\ Fits(tree[m].bytes, Order(m))
    BY DEF Inv, HeldOk
  <2>2. m \in Nodes /\ m # n
    BY <1>4, <2>1 DEF Leaf
  <2> QED
    BY <1>8, <1>9, <2>1, <2>2
<1>16. NothingLost'
  <2> SUFFICES ASSUME ~Again, NEW m \in Nodes, Leaf(m)', tree'[m].is_used, m # n
               PROVE  /\ tree'[m].pname \in DOMAIN running_rec'
                      /\ running_rec'[tree'[m].pname] = m
    BY <1>7, <1>8 DEF NothingLost
  <2>1. tree'[m] = tree[m] /\ Leaf(m) /\ tree[m].is_used /\ m \notin Current
    BY <1>3, <1>8, <1>9
  <2>2. tree[m].pname \in DOMAIN running_rec /\ running_rec[tree[m].pname] = m
    BY <2>1 DEF Inv, NothingLost
  <2>3. tree[m].pname # p
    BY <1>a, <2>2
  <2> QED
    BY <1>1, <2>1, <2>2, <2>3
<1>17. Buddies'
  <2> SUFFICES ASSUME NEW m \in Nodes, m # root, n \notin {m, Sibling(m)}
               PROVE  tree'[m].is_used \/ tree'[Sibling(m)].is_used
    BY <1>7, <1>8 DEF Buddies
  <2>1. tree[m].is_used \/ tree[Sibling(m)].is_used
    BY <1>3 DEF Inv, Buddies
  <2>2. Sibling(m) \in Nodes
    BY <1>2, NodeFacts
  <2> QED
    BY <1>8, <2>1, <2>2
<1> QED
  BY <1>11, <1>12, <1>13, <1>14, <1>15, <1>16, <1>17 DEF Inv

\* The end of a release: the block in hand goes on its list.
LEMMA ReleaseDoneOk ==
    ASSUME Inv, ReleaseDone
    PROVE  Inv'
<1>a. PICK n : n = job.temp
  OBVIOUS
<1>1. /\ job.pc = "coalesce" /\ ~BuddyFree(n) /\ tree' = [tree EXCEPT ![n] = create]
      /\ free_map' = IF n = root THEN free_map
                     ELSE [free_map EXCEPT ![Order(n)] = <<n>> \o free_map[Order(n)]]
      /\ job' = Idle /\ UNCHANGED <<U, L, running_rec>>
  BY <1>a DEF ReleaseDone
<1>2. TypeOK /\ Shape /\ Rooted
  BY DEF Inv
<1>3. Current = {n} /\ \A q : FreeList(q) = free_map[q]
  BY <1>1, <1>a DEF Current, FreeList
<1>4. Leaf(n) /\ n \in Nodes
  BY <1>3 DEF Inv, CurrentOk, Leaf
<1>5. /\ n \in Paths /\ tree \in [Nodes -> Block] /\ Order(n) \in L .. U
      /\ free_map \in [L .. U -> Seq(Paths)]
  BY <1>2, <1>4, NodeFacts DEF TypeOK, Nodes
<1>6. create \in Block /\ ~create.is_used
  BY DEF Block, create
<1>7. /\ tree' \in [Nodes -> Block] /\ Nodes' = Nodes /\ tree'[n] = create
      /\ \A m \in Nodes : m # n => tree'[m] = tree[m]
  BY <1>1, <1>4, <1>5, <1>6 DEF Nodes
<1>8. \A m : Leaf(m)' = Leaf(m) /\ Order(m)' = Order(m)
  BY <1>1, <1>7 DEF Leaf, Order
<1>9. job'.pc = "idle" /\ Current' = {} /\ \A q : FreeList(q)' = free_map'[q]
  BY <1>1 DEF Idle, Current, FreeList
<1>10. \A m \in Nodes : Free(m)' <=> Free(m) \/ m = n
  BY <1>3, <1>4, <1>6, <1>7, <1>8, <1>9 DEF Free
<1>11. ASSUME NEW q \in L .. U
       PROVE  /\ free_map'[q] \in Seq(Paths) /\ Once(free_map'[q])
              /\ Elems(free_map'[q]) = IF n # root /\ q = Order(n)
                                       THEN Elems(FreeList(q)) \cup {n} ELSE Elems(FreeList(q))
  <2>1. free_map[q] \in Seq(Paths) /\ FreeList(q) = free_map[q] /\ Once(free_map[q])
    BY <1>3, <1>5 DEF Inv, ListsOk
  <2>2. CASE n # root /\ q = Order(n)
    <3>1. free_map'[q] = <<n>> \o free_map[q]
      BY <1>1, <1>5, <2>2
    <3>2. n \notin Elems(free_map[q])
      BY <1>3, <2>1 DEF Inv, ListsOk, Free
    <3> QED
      BY <1>5, <2>1, <2>2, <3>1, <3>2, PushFacts
  <2>3. CASE ~(n # root /\ q = Order(n))
    BY <1>1, <1>5, <2>1, <2>3
  <2> QED
    BY <2>2, <2>3
<1>12. free_map' \in [L .. U -> Seq(Paths)]
  <2>1. DOMAIN free_map' = L .. U /\ free_map' = [q \in L .. U |-> free_map'[q]]
    BY <1>1, <1>5
  <2> QED
    BY <1>11, <2>1
<1>13. TypeOK'
  BY <1>1, <1>2, <1>5, <1>7, <1>12 DEF TypeOK, Jobs
<1>14. Shape'
  <2>1. \A m \in Nodes : m # root => parent(m) \in Nodes /\ parent(m) # n
    BY <1>2, <1>4, NodeFacts
  <2> QED
    BY <1>1, <1>2, <1>7, <2>1 DEF Shape
<1>15. Rooted' /\ CurrentOk' /\ SplitOk'
  BY <1>2, <1>7, <1>9 DEF Rooted, CurrentOk, SplitOk
<1>16. ListsOk'
  <2> SUFFICES ASSUME NEW q \in L .. U
               PROVE  /\ Once(free_map'[q])
                      /\ \A m \in Elems(free_map'[q]) : Free(m)' /\ Order(m) = q
                      /\ \A m \in Nodes : Free(m)' /\ m # root /\ Order(m) = q
                           => m \in Elems(free_map'[q])
    BY <1>1, <1>7, <1>8, <1>9 DEF ListsOk
  <2>1. /\ \A m \in Elems(FreeList(q)) : Free(m) /\ Order(m) = q
        /\ \A m \in Nodes : Free(m) /\ m # root /\ Order(m) = q => m \in Elems(FreeList(q))
    BY DEF Inv, ListsOk
  <2>2. \A m : Free(m) => m \in Nodes
    BY DEF Free
  <2> QED
    BY <1>4, <1>10, <1>11, <2>1, <2>2
<1>17. HeldOk'
  <2> SUFFICES ASSUME NEW q \in DOMAIN running_rec, NEW m, m = running_rec[q]
               PROVE  /\ Leaf(m)' /\ tree'[m].is_used /\ tree'[m].pname = q
                      /\ Fits(tree'[m].bytes, Order(m))
    BY <1>1, <1>8, <1>9 DEF HeldOk, Fits, Leaf
  <2>1. /\ Leaf(m) /\ m # n /\ tree[m].is_used /\ tree[m].pname = q
        /\ Fits(tree[m].bytes, Order(m))
    BY <1>3 DEF Inv, HeldOk
  <2>2. m \in Nodes
    BY <2>1 DEF Leaf
  <2> QED
    BY <1>7, <1>8, <2>1, <2>2
<1>18. NothingLost'
  <2> SUFFICES ASSUME ~Again, NEW m \in Nodes, Leaf(m)', tree'[m].is_used
               PROVE  /\ tree'[m].pname \in DOMAIN running_rec
                      /\ running_rec[tree'[m].pname] = m
    BY <1>1, <1>7 DEF NothingLost
  <2>1. m # n /\ tree'[m] = tree[m] /\ Leaf(m) /\ m \notin Current
    BY <1>3, <1>6, <1>7, <1>8
  <2> QED
    BY <2>1 DEF Inv, NothingLost
<1>19. Buddies'
  <2> SUFFICES ASSUME NEW m \in Nodes, m # root
               PROVE  tree'[m].is_used \/ tree'[Sibling(m)].is_used
    BY <1>7 DEF Buddies
  <2>1. /\ Sibling(m) \in Nodes /\ Sibling(m) # m /\ Sibling(Sibling(m)) = m
        /\ Sibling(m) # root
    BY <1>2, NodeFacts, Child
  <2>2. CASE n \notin {m, Sibling(m)}
    <3>1. tree[m].is_used \/ tree[Sibling(m)].is_used
      BY <1>3, <2>2 DEF Inv, Buddies
    <3> QED
      BY <1>7, <2>1, <2>2, <3>1
  <2>3. CASE m = n
    BY <1>1, <1>7, <2>1, <2>3 DEF BuddyFree
  <2>4. CASE Sibling(m) = n
    BY <1>1, <1>7, <2>1, <2>4 DEF BuddyFree
  <2> QED
    BY <2>2, <2>3, <2>4
<1> QED
  BY <1>13, <1>14, <1>15, <1>16, <1>17, <1>18, <1>19 DEF Inv

\* One iteration of the coalescing loop: the free buddy leaves its list, both halves
\* the tree, and their parent is in hand.
LEMMA CoalesceStepOk ==
    ASSUME Inv, CoalesceStep
    PROVE  Inv'
<1>a. PICK t, n, s, h : t = job.temp /\ n = parent(t) /\ s = Sibling(t) /\ h = Order(n) - 1
  OBVIOUS
<1>1. /\ job.pc = "coalesce" /\ t # root /\ ~tree[s].is_used /\ coalesce(n, s)
      /\ job' = Coalescing(n) /\ UNCHANGED <<U, L, running_rec>>
  BY <1>a DEF CoalesceStep, BuddyFree
<1>2. TypeOK /\ Shape /\ Rooted
  BY DEF Inv
<1>3. Current = {t} /\ \A q : FreeList(q) = free_map[q]
  BY <1>1, <1>a DEF Current, FreeList
<1>4. Leaf(t) /\ t \in Nodes
  BY <1>3 DEF Inv, CurrentOk, Leaf
<1>5. /\ tree \in [Nodes -> Block] /\ Nodes \subseteq Paths
      /\ free_map \in [L .. U -> Seq(Paths)]
  BY <1>2 DEF TypeOK, Nodes
<1>6. /\ t \in Paths /\ n \in Paths /\ s \in Paths /\ s # t /\ s # root
      /\ {left(n), right(n)} = {t, s}
      /\ parent(t) = n /\ parent(s) = n /\ Sibling(t) = s /\ Sibling(s) = t
      /\ Len(t) = Len(n) + 1 /\ Len(s) = Len(n) + 1 /\ Len(n) \in Nat
  <2>1. t \in Paths
    BY <1>4, <1>5
  <2>2. /\ parent(t) \in Paths /\ Len(parent(t)) = Len(t) - 1
        /\ \/ t = left(parent(t)) /\ Sibling(t) = right(parent(t))
           \/ t = right(parent(t)) /\ Sibling(t) = left(parent(t))
        /\ Sibling(t) \in Paths /\ Sibling(t) # t /\ Sibling(t) # root
        /\ Sibling(Sibling(t)) = t /\ parent(Sibling(t)) = parent(t)
        /\ Len(Sibling(t)) = Len(t) /\ Len(t) \in Nat /\ Len(parent(t)) \in Nat
    BY <1>1, <2>1, Child, Root
  <2> QED
    BY <1>a, <2>1, <2>2
<1>7. /\ n \in Nodes /\ s \in Nodes /\ tree[n].is_used /\ n # t /\ n # s
      /\ Leaf(s) /\ ~Leaf(n)
  <2>1. n \in Nodes /\ s \in Nodes /\ tree[n].is_used /\ ~Leaf(n)
    BY <1>1, <1>2, <1>4, <1>a, NodeFacts
  <2>2. Leaf(s)
    BY <1>1, <1>2, <2>1, UnusedIsLeaf
  <2> QED
    BY <1>4, <2>1, <2>2
<1>8. h \in L .. U /\ Order(s) = h
  <2>1. Order(s) \in L .. U
    BY <1>2, <1>7, NodeFacts
  <2>2. U \in Nat
    BY <1>2, Bounds
  <2>3. Order(s) = h
    BY <1>6, <1>a, <2>2 DEF Order
  <2> QED
    BY <2>1, <2>3
<1>9. Free(s)
  BY <1>1, <1>3, <1>6, <1>7 DEF Free
<1>10. /\ free_map[h] \in Seq(Paths) /\ Once(free_map[h]) /\ s \in Elems(free_map[h])
  BY <1>3, <1>5, <1>6, <1>7, <1>8, <1>9 DEF Inv, ListsOk
<1>11. /\ tree' = [m \in Nodes \ {t, s} |-> tree[m]]
       /\ free_map' = [free_map EXCEPT ![h] = Unlist(free_map[h], s)]
  BY <1>1, <1>6, <1>a DEF coalesce
<1>12. /\ Nodes' = Nodes \ {t, s} /\ tree' \in [Nodes' -> Block] /\ n \in Nodes'
       /\ \A m \in Nodes' : m \in Nodes /\ tree'[m] = tree[m]
  BY <1>5, <1>7, <1>11 DEF Nodes
<1>13. /\ job' \in [pc : {"coalesce"}, temp : Paths] /\ job'.pc = "coalesce" /\ job'.temp = n
       /\ Current' = {n} /\ \A q : FreeList(q)' = free_map'[q]
  <2>1. job' \in [pc : {"coalesce"}, temp : Paths] /\ job'.pc = "coalesce" /\ job'.temp = n
    BY <1>1, <1>6 DEF Coalescing
  <2> QED
    BY <2>1 DEF Current, FreeList
<1>14. \A m : Order(m)' = Order(m)
  BY <1>1 DEF Order
<1>15. \A m \in Nodes' : m # n => (Leaf(m)' <=> Leaf(m))
  <2> SUFFICES ASSUME NEW m \in Nodes', m # n PROVE Leaf(m)' <=> Leaf(m)
    OBVIOUS
  <2>1. m \in Paths
    BY <1>5, <1>12
  <2>2. parent(left(m)) = m /\ parent(right(m)) = m
    BY <2>1, Children
  <2>3. left(m) \notin {t, s} /\ right(m) \notin {t, s}
    BY <1>6, <2>2
  <2> QED
    BY <1>12, <2>3 DEF Leaf
<1>16. Leaf(n)'
  BY <1>6, <1>12 DEF Leaf
<1>17. \A m \in Nodes' : Free(m)' <=> Free(m)
  BY <1>3, <1>7, <1>12, <1>13, <1>15 DEF Free
<1>18. ASSUME NEW q \in L .. U
       PROVE  /\ free_map'[q] \in Seq(Paths) /\ Once(free_map'[q])
              /\ Elems(free_map'[q]) = Elems(FreeList(q)) \ {s}
  <2>1. free_map[q] \in Seq(Paths) /\ FreeList(q) = free_map[q] /\ Once(free_map[q])
    BY <1>3, <1>5 DEF Inv, ListsOk
  <2>2. CASE q = h
    <3>1. free_map'[q] = Unlist(free_map[q], s)
      BY <1>5, <1>11, <2>2
    <3> QED
      BY <1>10, <2>1, <2>2, <3>1, UnlistFacts
  <2>3. CASE q # h
    <3>1. free_map'[q] = free_map[q]
      BY <1>5, <1>11, <2>3
    <3>2. s \notin Elems(free_map[q])
      BY <1>8, <2>1, <2>3 DEF Inv, ListsOk
    <3> QED
      BY <2>1, <3>1, <3>2
  <2> QED
    BY <2>2, <2>3
<1>19. free_map' \in [L .. U -> Seq(Paths)]
  <2>1. free_map' = [q \in L .. U |-> free_map'[q]]
    BY <1>5, <1>11
  <2> QED
    BY <1>18, <2>1
<1>20. TypeOK'
  BY <1>1, <1>2, <1>5, <1>12, <1>13, <1>19 DEF TypeOK, Jobs
<1>21. Shape'
  <2>1. root \in Nodes'
    BY <1>1, <1>2, <1>6, <1>12 DEF Shape
  <2>2. ASSUME NEW m \in Nodes'
        PROVE  /\ Len(m) <= U - L
               /\ m # root => /\ parent(m) \in Nodes' /\ Sibling(m) \in Nodes'
                              /\ tree'[parent(m)].is_used
    <3>1. /\ m \in Nodes /\ m # t /\ m # s /\ Len(m) <= U - L
          /\ m # root => /\ parent(m) \in Nodes /\ Sibling(m) \in Nodes
                         /\ tree[parent(m)].is_used /\ ~Leaf(parent(m))
      BY <1>2, <1>12, NodeFacts
    <3>2. ASSUME m # root
          PROVE  /\ parent(m) \in Nodes' /\ Sibling(m) \in Nodes'
                 /\ tree'[parent(m)].is_used
      <4>1. parent(m) \notin {t, s}
        BY <1>4, <1>7, <3>1, <3>2
      <4>2. Sibling(Sibling(m)) = m
        BY <1>5, <3>1, <3>2, Child
      <4>3. Sibling(m) \notin {t, s}
        BY <1>6, <3>1, <4>2
      <4> QED
        BY <1>12, <3>1, <3>2, <4>1, <4>3
    <3> QED
      BY <3>1, <3>2
  <2> QED
    BY <1>1, <2>1, <2>2 DEF Shape
<1>22. Rooted'
  <2> SUFFICES ASSUME NEW m \in Nodes', NEW k \in 0 .. Len(m)
               PROVE  SubSeq(m, 1, k) \in Nodes'
    BY DEF Rooted
  <2>1. m \in Nodes /\ m \in Paths /\ m # t /\ m # s /\ Len(m) \in Nat
    BY <1>5, <1>12, Root
  <2>2. SubSeq(m, 1, k) \in Nodes
    BY <1>2, <2>1 DEF Rooted
  <2>3. CASE k = Len(m)
    BY <1>12, <2>1, <2>3, SubSeqFull DEF Paths
  <2>4. CASE k # Len(m)
    <3>1. k + 1 \in 0 .. Len(m) /\ k \in 0 .. Len(m) - 1
      BY <2>1, <2>4
    <3>2. SubSeq(m, 1, k + 1) \in Nodes
      BY <1>2, <2>1, <3>1 DEF Rooted
    <3>3. ~Leaf(SubSeq(m, 1, k))
      BY <2>1, <2>2, <3>1, <3>2, NextTurn DEF Leaf
    <3> QED
      BY <1>4, <1>7, <1>12, <2>2, <3>3
  <2> QED
    BY <2>3, <2>4
<1>23. CurrentOk' /\ SplitOk'
  BY <1>13, <1>16 DEF CurrentOk, SplitOk
<1>24. ListsOk'
  <2> SUFFICES ASSUME NEW q \in L .. U
               PROVE  /\ Once(free_map'[q])
                      /\ \A m \in Elems(free_map'[q]) : Free(m)' /\ Order(m) = q
                      /\ \A m \in Nodes' : Free(m)' /\ m # root /\ Order(m) = q
                           => m \in Elems(free_map'[q])
    BY <1>1, <1>13, <1>14 DEF ListsOk
  <2>1. /\ \A m \in Elems(FreeList(q)) : Free(m) /\ Order(m) = q
        /\ \A m \in Nodes : Free(m) /\ m # root /\ Order(m) = q => m \in Elems(FreeList(q))
    BY DEF Inv, ListsOk
  <2>2. \A m : Free(m) => m \in Nodes /\ m # t
    BY <1>3 DEF Free
  <2> QED
    BY <1>12, <1>17, <1>18, <2>1, <2>2
<1>25. HeldOk'
  <2> SUFFICES ASSUME NEW q \in DOMAIN running_rec, NEW m, m = running_rec[q]
               PROVE  /\ Leaf(m)' /\ m # n /\ tree'[m].is_used /\ tree'[m].pname = q
                      /\ Fits(tree'[m].bytes, Order(m))
    BY <1>1, <1>13, <1>14 DEF HeldOk, Fits, Leaf
  <2>1. /\ Leaf(m) /\ m # t /\ tree[m].is_used /\ tree[m].pname = q
        /\ Fits(tree[m].bytes, Order(m))
    BY <1>3 DEF Inv, HeldOk
  <2>2. m \in Nodes /\ m # n /\ m # s
    BY <1>1, <1>7, <2>1 DEF Leaf
  <2> QED
    BY <1>12, <1>15, <2>1, <2>2
<1>26. NothingLost'
  <2> SUFFICES ASSUME ~Again, NEW m \in Nodes', Leaf(m)', tree'[m].is_used, m # n
               PROVE  /\ tree'[m].pname \in DOMAIN running_rec
                      /\ running_rec[tree'[m].pname] = m
    BY <1>1, <1>13 DEF NothingLost
  <2>1. m \in Nodes /\ tree'[m] = tree[m] /\ Leaf(m) /\ m \notin Current
    BY <1>3, <1>12, <1>15
  <2> QED
    BY <2>1 DEF Inv, NothingLost
<1>27. Buddies'
  <2> SUFFICES ASSUME NEW m \in Nodes', m # root
               PROVE  tree'[m].is_used \/ tree'[Sibling(m)].is_used
    BY DEF Buddies
  <2>1. m \in Nodes /\ m # t /\ m # s /\ Sibling(m) \in Nodes' /\ Sibling(m) \in Nodes
    BY <1>12, <1>21 DEF Shape
  <2>2. Sibling(m) \notin {t, s}
    BY <1>12, <2>1
  <2>3. tree[m].is_used \/ tree[Sibling(m)].is_used
    BY <1>3, <2>1, <2>2 DEF Inv, Buddies
  <2> QED
    BY <1>12, <2>1, <2>3
<1> QED
  BY <1>20, <1>21, <1>22, <1>23, <1>24, <1>25, <1>26, <1>27 DEF Inv

\* The requests of the input are natural numbers.
LEMMA RequestsAreNumbers ==
    ASSUME TypeOK, NEW b \in Bytes
    PROVE  b \in Nat
<1>1. 2 ^ U \in Nat
  BY Bounds, Power
<1> QED
  BY <1>1 DEF Bytes

\* Every step keeps the invariant.
LEMMA NextOk == Inv /\ [Next]_vars => Inv'
<1> SUFFICES ASSUME Inv, [Next]_vars PROVE Inv'
  OBVIOUS
<1>1. TypeOK
  BY DEF Inv
<1>2. ASSUME NEW c \in Cases, NextCase(c) PROVE Inv'
  <2>1. Init'
    BY <1>2 DEF NextCase, Init, Start
  <2> QED
    BY <2>1, InitOk, PTL
<1>3. ASSUME NEW p \in Names, NEW b \in Bytes, AllotExact(p, b) PROVE Inv'
  BY <1>1, <1>3, AllotExactOk, RequestsAreNumbers
<1>4. ASSUME NEW p \in Names, NEW b \in Bytes, AllotSplit(p, b) PROVE Inv'
  BY <1>1, <1>4, AllotSplitOk, RequestsAreNumbers
<1>5. ASSUME NEW p \in Names, NEW b \in Bytes, Ignore(p, b) PROVE Inv'
  <2>1. UNCHANGED <<U, L, tree, free_map, running_rec>> /\ job = Idle /\ job' = Idle
    BY <1>5 DEF Ignore, Asks, vars
  <2> QED
    BY <1>1, <2>1, SameOk
<1>6. CASE SplitStep
  BY <1>6, SplitStepOk
<1>7. CASE SplitDone
  BY <1>7, SplitDoneOk
<1>8. ASSUME NEW b \in Bytes, TooLarge(b) PROVE Inv'
  BY <1>8, SameOk DEF TooLarge
<1>9. ASSUME NEW p \in Names, Release(p) PROVE Inv'
  BY <1>9, ReleaseOk
<1>10. ASSUME NEW p \in Names, ReleaseNothing(p) PROVE Inv'
  BY <1>10, SameOk DEF ReleaseNothing
<1>11. CASE CoalesceStep
  BY <1>11, CoalesceStepOk
<1>12. CASE ReleaseDone
  BY <1>12, ReleaseDoneOk
<1>13. CASE UNCHANGED vars
  <2>1. UNCHANGED <<U, L, tree, free_map, running_rec, job>>
    BY <1>13 DEF vars
  <2>2. /\ Nodes' = Nodes /\ Current' = Current /\ \A o : FreeList(o)' = FreeList(o)
        /\ \A n : Leaf(n)' = Leaf(n) /\ Order(n)' = Order(n)
    BY <2>1 DEF Nodes, Current, FreeList, Leaf, Order
  <2>3. \A n : Free(n)' = Free(n)
    BY <2>1, <2>2 DEF Free
  <2>4. TypeOK' /\ Shape' /\ Rooted' /\ CurrentOk' /\ Buddies' /\ NothingLost'
    BY <2>1, <2>2 DEF Inv, TypeOK, Jobs, Shape, Rooted, CurrentOk, Buddies, NothingLost
  <2>5. ListsOk'
    BY <2>1, <2>2, <2>3 DEF Inv, ListsOk
  <2>6. HeldOk'
    BY <2>1, <2>2 DEF Inv, HeldOk, Fits
  <2>7. SplitOk'
    BY <2>1, <2>2 DEF Inv, SplitOk, Fits, Leaf
  <2> QED
    BY <2>4, <2>5, <2>6, <2>7 DEF Inv
<1> QED
  BY <1>2, <1>3, <1>4, <1>5, <1>6, <1>7, <1>8, <1>9, <1>10, <1>11, <1>12, <1>13 DEF Next

\* The inductive invariant.
THEOREM Invariant == Spec => []Inv
  BY InitOk, NextOk, PTL DEF Spec

-----------------------------------------------------------------------------
(* What it says *)

\* Whatever is on a list, also during a split, is not held.
LEMMA HeldNotListed ==
    ASSUME Inv, NEW p \in DOMAIN running_rec
    PROVE  running_rec[p] \notin Listed
<1>1. PICK n : n = running_rec[p]
  OBVIOUS
<1>2. Leaf(n) /\ n \notin Current /\ tree[n].is_used
  BY <1>1 DEF Inv, HeldOk
<1> SUFFICES ASSUME NEW o \in L .. U, NEW i \in 1 .. Len(free_map[o]), free_map[o][i] = n
             PROVE  FALSE
  BY <1>1 DEF Listed
<1>3. free_map[o] \in Seq(Paths) /\ n \in Elems(free_map[o])
  BY DEF Inv, TypeOK, Elems
<1>4. \A m \in Elems(FreeList(o)) : m # n
  BY <1>2 DEF Inv, ListsOk, Free
<1>5. CASE job.pc = "split" /\ o = job.can_get
  <2>1. FreeList(o) = Tail(free_map[o]) /\ Current = {job.curr}
    BY <1>5 DEF FreeList, Current
  <2>2. Head(free_map[o]) # n
    BY <1>2, <1>5, <2>1 DEF Inv, SplitOk
  <2>3. /\ free_map[o] # <<>> /\ Len(free_map[o]) \in Nat /\ Head(free_map[o]) = free_map[o][1]
    BY <1>3, LenProperties
  <2>4. /\ Len(Tail(free_map[o])) = Len(free_map[o]) - 1
        /\ \A j \in 1 .. Len(Tail(free_map[o])) : Tail(free_map[o])[j] = free_map[o][j + 1]
    BY <1>3, <2>3, HeadTailProperties
  <2>5. i # 1
    BY <2>2, <2>3
  <2>6. i - 1 \in 1 .. Len(Tail(free_map[o])) /\ (i - 1) + 1 = i
    BY <2>3, <2>4, <2>5
  <2>7. Tail(free_map[o])[i - 1] = n
    BY <2>4, <2>6
  <2> QED
    BY <1>4, <2>1, <2>6, <2>7 DEF Elems
<1>6. CASE ~(job.pc = "split" /\ o = job.can_get)
  BY <1>3, <1>4, <1>6 DEF FreeList
<1> QED
  BY <1>5, <1>6

\* A node below a leaf is the leaf.
LEMMA NothingInsideLeaf ==
    ASSUME Inv, NEW n, Leaf(n), NEW m \in Nodes, Inside(m, n)
    PROVE  m = n
<1>1. n \in Nodes /\ n \in Paths /\ m \in Paths /\ Len(n) \in Nat /\ Len(m) \in Nat
  BY Root DEF Leaf, Inv, TypeOK, Nodes
<1>2. Len(n) <= Len(m) /\ SubSeq(m, 1, Len(n)) = n
  BY DEF Inside
<1>3. CASE Len(n) = Len(m)
  BY <1>1, <1>2, <1>3, SubSeqFull DEF Paths
<1>4. CASE Len(n) # Len(m)
  <2>1. Len(n) \in 0 .. Len(m) - 1 /\ Len(n) + 1 \in 0 .. Len(m)
    BY <1>1, <1>2, <1>4
  <2>2. SubSeq(m, 1, Len(n) + 1) \in Nodes
    BY <2>1 DEF Inv, Rooted
  <2>3. \/ SubSeq(m, 1, Len(n) + 1) = left(n)
        \/ SubSeq(m, 1, Len(n) + 1) = right(n)
    BY <1>1, <1>2, <2>1, NextTurn
  <2> QED
    BY <2>2, <2>3 DEF Leaf
<1> QED
  BY <1>3, <1>4

\* The parts of BlocksSound that hold whether or not a process asks again.
LEMMA BlocksSoundIf ==
    ASSUME Inv
    PROVE  TreeIsWhole /\ BlocksDisjoint /\ FitIsTight
<1>1. TreeIsWhole
  BY DEF Inv, Shape, TreeIsWhole
<1>2. BlocksDisjoint
  <2> SUFFICES ASSUME NEW p \in DOMAIN running_rec, NEW n, n = running_rec[p]
               PROVE  /\ Leaf(n) /\ tree[n].is_used /\ tree[n].pname = p /\ n \notin Listed
                      /\ \A q \in DOMAIN running_rec \ {p} : ~Inside(running_rec[q], n)
    BY DEF BlocksDisjoint
  <2>1. Leaf(n) /\ tree[n].is_used /\ tree[n].pname = p
    BY DEF Inv, HeldOk
  <2>2. n \notin Listed
    BY HeldNotListed
  <2>3. ASSUME NEW q \in DOMAIN running_rec, q # p PROVE ~Inside(running_rec[q], n)
    <3>1. running_rec[q] \in Nodes /\ tree[running_rec[q]].pname = q
      BY DEF Inv, HeldOk, Leaf
    <3>2. running_rec[q] # n
      BY <2>1, <2>3, <3>1
    <3> QED
      BY <2>1, <3>1, <3>2, NothingInsideLeaf
  <2> QED
    BY <2>1, <2>2, <2>3
<1>3. FitIsTight
  BY DEF Inv, HeldOk, Fits, FitIsTight
<1> QED
  BY <1>1, <1>2, <1>3

\* Whatever processes ask for and release, also when a process asks again while it
\* holds a block: the blocks form a tree, those that are held are disjoint leaves of it
\* and on no list, and each is the smallest that fits.
THEOREM BlocksApart == Spec => [](TreeIsWhole /\ BlocksDisjoint /\ FitIsTight)
  BY BlocksSoundIf, Invariant, PTL

\* Where a process asks only when it holds nothing, no block is lost either.
THEOREM BlocksAreSound ==
    ASSUME ~Again
    PROVE  Spec => []BlocksSound
<1>1. Inv => NoLeak
  <2> SUFFICES ASSUME Inv, AtRest, NEW n \in Nodes, Leaf(n), tree[n].is_used
               PROVE  /\ tree[n].pname \in DOMAIN running_rec
                      /\ running_rec[tree[n].pname] = n
    BY DEF NoLeak
  <2>1. Current = {}
    BY DEF AtRest, Current
  <2> QED
    BY <2>1 DEF Inv, NothingLost
<1>2. Inv => BlocksSound
  BY <1>1, BlocksSoundIf DEF BlocksSound
<1> QED
  BY <1>2, Invariant, PTL

\* Between requests each list holds exactly the free blocks of its size, each once, but
\* for a free root, and no two buddies are both free.
THEOREM FreeIsUsable == Spec => []FreeMemoryUsable
<1>1. Inv => FreeMemoryUsable
  <2> SUFFICES ASSUME Inv, AtRest PROVE FreeMemoryUsable
    BY DEF FreeMemoryUsable
  <2>1. Current = {} /\ \A o : FreeList(o) = free_map[o]
    BY DEF AtRest, Current, FreeList
  <2>2. ASSUME NEW o \in L .. U
        PROVE  /\ Elems(free_map[o]) \subseteq {n \in Nodes : Leaf(n) /\ ~tree[n].is_used /\ Order(n) = o}
               /\ {n \in Nodes : Leaf(n) /\ ~tree[n].is_used /\ Order(n) = o} \ {root}
                    \subseteq Elems(free_map[o])
               /\ Len(free_map[o]) = Cardinality(Elems(free_map[o]))
    <3>1. /\ Once(free_map[o])
          /\ \A n \in Elems(free_map[o]) : Free(n) /\ Order(n) = o
          /\ \A n \in Nodes : Free(n) /\ n # root /\ Order(n) = o => n \in Elems(free_map[o])
      BY <2>1 DEF Inv, ListsOk
    <3>2. free_map[o] \in Seq(Paths)
      BY DEF Inv, TypeOK
    <3>3. Len(free_map[o]) = Cardinality(Elems(free_map[o]))
      BY <3>1, <3>2, OnceCounts
    <3> QED
      BY <2>1, <3>1, <3>3 DEF Free
  <2>3. \A n \in Nodes \ {root} : tree[n].is_used \/ tree[Sibling(n)].is_used
    BY <2>1 DEF Inv, Buddies
  <2> QED
    BY <2>2, <2>3 DEF FreeMemoryUsable, Elems
<1> QED
  BY <1>1, Invariant, PTL

-----------------------------------------------------------------------------
(* Addresses *)

\* Doubling.
LEMMA PowerStep ==
    ASSUME NEW n \in Nat
    PROVE  2 ^ (n + 1) = 2 * 2 ^ n
<1>1. PICK A : A = 1 .. n
  OBVIOUS
<1>2. PICK x : x = n + 1
  OBVIOUS
<1>3. x \notin A /\ 1 .. n + 1 = A \cup {x}
  BY <1>1, <1>2
<1>4. /\ IsFiniteSet(A) /\ Cardinality(A) = n
      /\ IsFiniteSet(A \cup {x}) /\ Cardinality(A \cup {x}) = n + 1
  <2>1. /\ IsFiniteSet(1 .. n) /\ Cardinality(1 .. n) = n
        /\ IsFiniteSet(1 .. n + 1) /\ Cardinality(1 .. n + 1) = n + 1
    BY FS_Interval
  <2> QED
    BY <1>1, <1>3, <2>1
<1> DEFINE S == SUBSET A
           T == {X \cup {x} : X \in S}
           f == [X \in S |-> X \cup {x}]
<1>5. /\ IsFiniteSet(S) /\ Cardinality(S) = 2 ^ n
      /\ IsFiniteSet(SUBSET (A \cup {x})) /\ Cardinality(SUBSET (A \cup {x})) = 2 ^ (n + 1)
  BY <1>4, FS_SUBSET
<1>6. \A X \in S : x \notin X
  BY <1>3
<1>7. S \cap T = {}
  BY <1>6
<1>8. S \cup T = SUBSET (A \cup {x})
  <2>1. ASSUME NEW Z \in S \cup T PROVE Z \in SUBSET (A \cup {x})
    OBVIOUS
  <2>2. ASSUME NEW Z \in SUBSET (A \cup {x}) PROVE Z \in S \cup T
    <3>1. CASE x \in Z
      <4>1. Z \ {x} \in S
        OBVIOUS
      <4>2. Z = (Z \ {x}) \cup {x}
        BY <3>1
      <4> QED
        BY <4>1, <4>2
    <3>2. CASE x \notin Z
      BY <3>2
    <3> QED
      BY <3>1, <3>2
  <2> HIDE DEF S, T
  <2> QED
    BY <2>1, <2>2
<1>9. f \in [S -> T]
  OBVIOUS
<1>10. ASSUME NEW X \in S, NEW Y \in S, f[X] = f[Y] PROVE X = Y
  <2>1. X \cup {x} = Y \cup {x} /\ x \notin X /\ x \notin Y
    BY <1>6, <1>10
  <2> QED
    BY <2>1
<1>11. \A Z \in T : \E X \in S : f[X] = Z
  OBVIOUS
<1> HIDE DEF f, S, T
<1>12. f \in Bijection(S, T)
  <2>1. f \in Injection(S, T)
    BY <1>9, <1>10 DEF Injection, IsInjective
  <2>2. f \in Surjection(S, T)
    BY <1>9, <1>11 DEF Surjection
  <2> QED
    BY <2>1, <2>2 DEF Bijection
<1>13. IsFiniteSet(T) /\ Cardinality(T) = Cardinality(S)
  BY <1>5, <1>12, FS_Bijection DEF ExistsBijection
<1>14. Cardinality(S \cup T) = Cardinality(S) + Cardinality(T) - Cardinality(S \cap T)
  BY <1>5, <1>13, FS_Union
<1>15. Cardinality(S \cap T) = 0
  BY <1>7, FS_EmptySet
<1>16. Cardinality(S \cup T) = 2 ^ (n + 1) /\ Cardinality(T) = 2 ^ n /\ 2 ^ n \in Nat
  BY <1>5, <1>8, <1>13, Power
<1> QED
  BY <1>5, <1>14, <1>15, <1>16

\* The sum that Base computes, up to a turn.
Sums(n, j, f) ==
    f = [k \in 0 .. j |-> IF k = 0 THEN 0 ELSE f[k - 1] + n[k] * 2 ^ (U - k)]

\* Two paths have the same first turns.
Agree(n, m, j) == \A k \in 1 .. j : n[k] = m[k]

\* What each turn adds.
LEMMA TurnAdds ==
    ASSUME U \in Nat, NEW n \in Paths, Len(n) <= U, NEW k \in 1 .. Len(n)
    PROVE  n[k] * 2 ^ (U - k) \in Nat
<1>1. n[k] \in {0, 1} /\ Len(n) \in Nat
  BY ElementOfSeq, LenProperties DEF Paths
<1>2. U - k \in Nat
  BY <1>1
<1>3. 2 ^ (U - k) \in Nat
  BY <1>2, Power
<1> QED
  BY <1>1, <1>3

\* There is such a sum: take the shortest beginning of the path without one.
LEMMA SumExists ==
    ASSUME U \in Nat, NEW n \in Paths, Len(n) <= U, NEW j \in 0 .. Len(n)
    PROVE  \E f \in [0 .. j -> Nat] : Sums(n, j, f)
<1> DEFINE Good(i) == \E f \in [0 .. i -> Nat] : Sums(n, i, f)
           K == {i \in 0 .. Len(n) : ~Good(i)}
<1>1. Len(n) \in Nat
  BY LenProperties DEF Paths
<1> SUFFICES ASSUME K # {} PROVE FALSE
  OBVIOUS
<1>2. K \in SUBSET Nat
  BY <1>1
<1> HIDE DEF K
<1>3. PICK i \in K : \A h \in K : i <= h
  BY <1>2, LeastExists
<1>4. i \in 0 .. Len(n) /\ ~Good(i)
  BY <1>3 DEF K
<1>5. CASE i = 0
  <2> DEFINE f == [k \in 0 .. 0 |-> 0]
  <2>1. f \in [0 .. 0 -> Nat] /\ Sums(n, 0, f)
    BY DEF Sums
  <2> QED
    BY <1>4, <1>5, <2>1
<1>6. CASE i # 0
  <2>1. i - 1 \in 0 .. Len(n) /\ i - 1 < i /\ i \in 1 .. Len(n) /\ i \in Nat
    BY <1>1, <1>4, <1>6
  <2>2. i - 1 \notin K
    <3>1. \A h \in K : ~(h < i)
      BY <1>2, <1>3
    <3> QED
      BY <2>1, <3>1
  <2>3. Good(i - 1)
    BY <2>1, <2>2 DEF K
  <2>4. PICK g \in [0 .. i - 1 -> Nat] : Sums(n, i - 1, g)
    BY <2>3
  <2>5. PICK d \in Nat : d = n[i] * 2 ^ (U - i)
    BY <2>1, TurnAdds
  <2> DEFINE f == [k \in 0 .. i |-> IF k = i THEN g[i - 1] + d ELSE g[k]]
  <2>6. f \in [0 .. i -> Nat]
    BY <2>1
  <2>7. f = [k \in 0 .. i |-> IF k = 0 THEN 0 ELSE f[k - 1] + n[k] * 2 ^ (U - k)]
    <3> SUFFICES ASSUME NEW k \in 0 .. i
                 PROVE  f[k] = IF k = 0 THEN 0 ELSE f[k - 1] + n[k] * 2 ^ (U - k)
      BY Zenon
    <3>1. CASE k = i
      <4>1. f[k] = g[i - 1] + d /\ f[k - 1] = g[i - 1] /\ k # 0
        BY <1>6, <2>1, <3>1
      <4> QED
        BY <2>5, <3>1, <4>1
    <3>2. CASE k # i
      <4>1. k \in 0 .. i - 1 /\ f[k] = g[k]
        BY <2>1, <3>2
      <4>2. g[k] = IF k = 0 THEN 0 ELSE g[k - 1] + n[k] * 2 ^ (U - k)
        BY <2>4, <4>1 DEF Sums
      <4>3. k # 0 => f[k - 1] = g[k - 1]
        BY <2>1, <3>2
      <4> QED
        BY <4>1, <4>2, <4>3
    <3> QED
      BY <3>1, <3>2
  <2> HIDE DEF f
  <2>8. Sums(n, i, f)
    BY <2>7 DEF Sums
  <2> QED
    BY <1>4, <2>6, <2>8
<1> QED
  BY <1>5, <1>6

\* And only one, which depends on the turns so far: take the first place where two
\* differ.
LEMMA SumUnique ==
    ASSUME U \in Nat, NEW n, NEW m, NEW i \in Nat, NEW j \in i .. U, NEW f, NEW g,
           Sums(n, i, f), Sums(m, j, g), Agree(n, m, i)
    PROVE  f[i] = g[i]
<1> DEFINE K == {k \in 0 .. i : f[k] # g[k]}
<1>1. j \in Nat
  OBVIOUS
<1>2. K = {}
  <2> SUFFICES ASSUME K # {} PROVE FALSE
    OBVIOUS
  <2>1. K \in SUBSET Nat
    OBVIOUS
  <2> HIDE DEF K
  <2>2. PICK k \in K : \A h \in K : k <= h
    BY <2>1, LeastExists
  <2>3. k \in 0 .. i /\ k \in 0 .. j /\ f[k] # g[k]
    BY <1>1, <2>2 DEF K
  <2>4. /\ f[k] = IF k = 0 THEN 0 ELSE f[k - 1] + n[k] * 2 ^ (U - k)
        /\ g[k] = IF k = 0 THEN 0 ELSE g[k - 1] + m[k] * 2 ^ (U - k)
    BY <2>3 DEF Sums
  <2>5. k # 0 /\ k \in 1 .. i /\ k - 1 \in 0 .. i /\ k - 1 < k
    BY <2>3, <2>4
  <2>6. f[k - 1] = g[k - 1]
    <3>1. \A h \in K : ~(h < k)
      BY <2>1, <2>2
    <3> QED
      BY <2>5, <3>1 DEF K
  <2> QED
    BY <2>3, <2>4, <2>5, <2>6 DEF Agree
<1> QED
  BY <1>2

\* Base is the sum of all turns.
LEMMA BaseOf ==
    ASSUME U \in Nat, NEW n \in Paths, Len(n) <= U
    PROVE  \E f \in [0 .. Len(n) -> Nat] : Sums(n, Len(n), f) /\ Base(n) = f[Len(n)]
<1> DEFINE base == CHOOSE f : Sums(n, Len(n), f)
<1>1. Len(n) \in Nat
  BY LenProperties DEF Paths
<1>2. PICK g \in [0 .. Len(n) -> Nat] : Sums(n, Len(n), g)
  BY <1>1, SumExists
<1>3. Sums(n, Len(n), base)
  BY <1>2
<1>4. Base(n) = base[Len(n)]
  BY DEF Base, Sums
<1> HIDE DEF base
<1>5. base \in [0 .. Len(n) -> Nat]
  <2>1. ASSUME NEW k \in 0 .. Len(n) PROVE base[k] \in Nat
    <3>1. Sums(n, k, [i \in 0 .. k |-> base[i]])
      <4>1. ASSUME NEW i \in 0 .. k
            PROVE  base[i] = IF i = 0 THEN 0 ELSE [h \in 0 .. k |-> base[h]][i - 1] + n[i] * 2 ^ (U - i)
        <5>1. i \in 0 .. Len(n) /\ (i # 0 => i - 1 \in 0 .. k)
          BY <1>1
        <5>2. base[i] = IF i = 0 THEN 0 ELSE base[i - 1] + n[i] * 2 ^ (U - i)
          BY <1>3, <5>1 DEF Sums
        <5> QED
          BY <5>1, <5>2
      <4> QED
        BY <4>1, Zenon DEF Sums
    <3>2. k \in Nat /\ Len(n) \in k .. U
      BY <1>1
    <3>3. [i \in 0 .. k |-> base[i]][k] = g[k]
      BY <1>2, <3>1, <3>2, SumUnique DEF Agree
    <3> QED
      BY <1>2, <3>2, <3>3
  <2>2. base = [k \in 0 .. Len(n) |-> base[k]]
    BY <1>3 DEF Sums
  <2> QED
    BY <2>1, <2>2
<1> QED
  BY <1>3, <1>4, <1>5

\* A left turn stays where it is, a right turn skips the left half.
LEMMA BaseFacts ==
    ASSUME U \in Nat, NEW n \in Paths, Len(n) < U
    PROVE  /\ Base(n) \in Nat /\ Base(left(n)) = Base(n)
           /\ Base(right(n)) = Base(n) + 2 ^ (U - Len(n) - 1)
<1>0. PICK j : j = Len(n) + 1
  OBVIOUS
<1>1. Len(n) \in Nat /\ Len(n) <= U /\ j <= U /\ j \in 0 .. j /\ j # 0 /\ j - 1 = Len(n)
  BY <1>0, LenProperties DEF Paths
<1>2. PICK f \in [0 .. Len(n) -> Nat] : Sums(n, Len(n), f) /\ Base(n) = f[Len(n)]
  BY <1>1, BaseOf
<1>3. Base(n) \in Nat
  BY <1>1, <1>2
<1>4. 2 ^ (U - j) \in Nat
  BY <1>1, Power
<1>5. ASSUME NEW d \in {0, 1} PROVE Base(Append(n, d)) = Base(n) + d * 2 ^ (U - j)
  <2>1. PICK m : m = Append(n, d)
    OBVIOUS
  <2>2. /\ m \in Paths /\ Len(m) = j /\ m[j] = d
        /\ \A k \in 1 .. Len(n) : n[k] = m[k]
    BY <1>0, <2>1, AppendProperties DEF Paths
  <2>3. PICK g \in [0 .. j -> Nat] : Sums(m, j, g) /\ Base(m) = g[j]
    BY <1>1, <2>2, BaseOf
  <2>4. PICK i \in Nat : i = Len(n)
    BY <1>1
  <2>7. j \in i .. U /\ Sums(n, i, f) /\ Agree(n, m, i)
    BY <1>1, <1>2, <2>2, <2>4 DEF Agree
  <2>8. f[i] = g[i]
    BY <2>3, <2>7, SumUnique
  <2>5. f[Len(n)] = g[Len(n)]
    BY <2>4, <2>8
  <2>6. g[j] = g[j - 1] + m[j] * 2 ^ (U - j)
    BY <1>1, <2>3 DEF Sums
  <2> QED
    BY <1>1, <1>2, <2>1, <2>2, <2>3, <2>5, <2>6
<1>6. Base(left(n)) = Base(n) + 0 * 2 ^ (U - j) /\ Base(right(n)) = Base(n) + 1 * 2 ^ (U - j)
  BY <1>5 DEF left, right
<1>7. 0 * 2 ^ (U - j) = 0 /\ 1 * 2 ^ (U - j) = 2 ^ (U - j) /\ U - j = U - Len(n) - 1
  BY <1>0, <1>1, <1>4
<1> QED
  BY <1>3, <1>6, <1>7

\* The root is at address 0.
LEMMA BaseOfRoot ==
    ASSUME U \in Nat
    PROVE  Base(root) = 0
<1>1. root \in Paths /\ Len(root) = 0
  BY Root
<1>2. Len(root) <= U
  BY <1>1
<1>3. PICK f : Sums(root, Len(root), f) /\ Base(root) = f[Len(root)]
  BY <1>1, <1>2, BaseOf
<1>4. f = [k \in 0 .. 0 |-> IF k = 0 THEN 0 ELSE f[k - 1] + root[k] * 2 ^ (U - k)]
  BY <1>1, <1>3 DEF Sums
<1>5. f[0] = 0
  BY <1>4
<1> QED
  BY <1>1, <1>3, <1>5

\* Halves: a node that can be split has twice the bytes of its children.
LEMMA Halves ==
    ASSUME U \in Nat, NEW n \in Paths, Len(n) < U
    PROVE  /\ Order(left(n)) = Order(n) - 1 /\ Order(right(n)) = Order(n) - 1
           /\ 2 ^ (Order(n) - 1) \in Nat /\ 2 ^ Order(n) = 2 * 2 ^ (Order(n) - 1)
           /\ Base(n) \in Nat /\ Base(left(n)) = Base(n)
           /\ Base(right(n)) = Base(n) + 2 ^ (Order(n) - 1)
<1>1. Len(n) \in Nat /\ Len(left(n)) = Len(n) + 1 /\ Len(right(n)) = Len(n) + 1
  BY Root, Children
<1>2. /\ Order(n) = U - Len(n) /\ Order(left(n)) = Order(n) - 1
      /\ Order(right(n)) = Order(n) - 1 /\ U - Len(n) - 1 = Order(n) - 1
  BY <1>1 DEF Order
<1>3. PICK o \in Nat : o = Order(n) - 1 /\ o + 1 = Order(n)
  BY <1>1, <1>2
<1>4. 2 ^ o \in Nat /\ 2 ^ (o + 1) = 2 * 2 ^ o
  BY <1>3, Power, PowerStep
<1> QED
  BY <1>2, <1>3, <1>4, BaseFacts

\* A path of a memory, its bytes and its address.
LEMMA AddressType ==
    ASSUME U \in Nat, NEW n \in Paths, Len(n) <= U
    PROVE  /\ Len(n) \in Nat /\ Order(n) \in Nat /\ Order(n) = U - Len(n)
           /\ Base(n) \in Nat /\ 2 ^ Order(n) \in Nat
<1>1. Len(n) \in Nat /\ Order(n) \in Nat /\ Order(n) = U - Len(n)
  BY Root DEF Order
<1>2. PICK f \in [0 .. Len(n) -> Nat] : Base(n) = f[Len(n)]
  BY BaseOf
<1> QED
  BY <1>1, <1>2, Power

\* What a node of the tree is at: a multiple of its size.
Numbered(n) == \E k \in 0 .. 2 ^ Len(n) - 1 : Base(n) = k * 2 ^ Order(n)

\* Doubling a multiple.
LEMMA Doubled ==
    ASSUME NEW k \in Nat, NEW w \in Nat, NEW p \in Nat, k <= p - 1
    PROVE  /\ k * (2 * w) = (2 * k) * w /\ k * (2 * w) + w = (2 * k + 1) * w
           /\ 2 * k \in 0 .. 2 * p - 1 /\ 2 * k + 1 \in 0 .. 2 * p - 1
<1>1. k * (2 * w) = (2 * k) * w
  OBVIOUS
<1>2. (2 * k + 1) * w = (2 * k) * w + w
  OBVIOUS
<1> QED
  BY <1>1, <1>2

\* Blocks are aligned: take a shortest path whose block is not.
LEMMA Aligned ==
    ASSUME U \in Nat, NEW n \in Paths, Len(n) <= U
    PROVE  Numbered(n)
<1> DEFINE K == {i \in Nat : \E m \in Paths : Len(m) = i /\ i <= U /\ ~Numbered(m)}
<1> SUFFICES ASSUME K # {} PROVE FALSE
  BY Root
<1>1. K \in SUBSET Nat
  OBVIOUS
<1> HIDE DEF K
<1>2. PICK i \in K : \A h \in K : i <= h
  BY <1>1, LeastExists
<1>3. PICK m \in Paths : Len(m) = i /\ i \in Nat /\ i <= U /\ ~Numbered(m)
  BY <1>2 DEF K
<1>4. CASE m = root
  <2>1. Len(m) = 0 /\ Base(m) = 0 /\ Order(m) = U
    BY <1>4, BaseOfRoot, Root DEF Order
  <2>2. 2 ^ 0 \in Nat /\ 2 ^ U \in Nat /\ 2 ^ 0 = 1
    <3>1. Cardinality(SUBSET {}) = 2 ^ Cardinality({}) /\ Cardinality({}) = 0
      BY FS_EmptySet, FS_SUBSET
    <3>2. SUBSET {} = {{}}
      OBVIOUS
    <3>3. Cardinality({{}}) = 1
      BY FS_Singleton
    <3> QED
      BY <3>1, <3>2, <3>3, Power
  <2>3. 0 \in 0 .. 2 ^ 0 - 1 /\ 0 = 0 * 2 ^ U
    BY <2>2
  <2> QED
    BY <1>3, <2>1, <2>3 DEF Numbered
<1>5. CASE m # root
  <2>1. PICK p : p = parent(m)
    OBVIOUS
  <2>2. p \in Paths /\ Len(p) = Len(m) - 1 /\ (m = left(p) \/ m = right(p)) /\ Len(p) \in Nat
    BY <1>5, <2>1, Child, Root
  <2>3. Len(p) \in Nat /\ Len(p) < i /\ Len(p) < U /\ Len(p) <= U
    BY <1>3, <2>2
  <2>4. Numbered(p)
    <3>1. Len(p) \notin K
      <4>1. \A h \in K : ~(h < i)
        BY <1>1, <1>2
      <4> QED
        BY <2>3, <4>1
    <3> QED
      BY <2>2, <2>3, <3>1 DEF K
  <2>5. PICK k \in 0 .. 2 ^ Len(p) - 1 : Base(p) = k * 2 ^ Order(p)
    BY <2>4 DEF Numbered
  <2>6. PICK w \in Nat : /\ w = 2 ^ (Order(p) - 1) /\ Base(p) = k * (2 * w)
                         /\ Order(m) = Order(p) - 1
                         /\ m = left(p) => Base(m) = Base(p)
                         /\ m = right(p) => Base(m) = Base(p) + w
    BY <2>2, <2>3, <2>5, Halves
  <2>7. PICK s \in Nat : s = 2 ^ Len(p) /\ 2 ^ Len(m) = 2 * s
    <3>1. 2 ^ Len(p) \in Nat /\ 2 ^ (Len(p) + 1) = 2 * 2 ^ Len(p)
      BY <2>3, Power, PowerStep
    <3>2. Len(m) = Len(p) + 1
      BY <1>3, <2>2
    <3> QED
      BY <3>1, <3>2
  <2>8. k \in Nat /\ k <= s - 1
    BY <2>5, <2>7
  <2>9. /\ k * (2 * w) = (2 * k) * w /\ k * (2 * w) + w = (2 * k + 1) * w
        /\ 2 * k \in 0 .. 2 ^ Len(m) - 1 /\ 2 * k + 1 \in 0 .. 2 ^ Len(m) - 1
    BY <2>7, <2>8, Doubled
  <2>10. CASE m = left(p)
    <3>1. Base(m) = (2 * k) * 2 ^ Order(m)
      BY <2>6, <2>9, <2>10
    <3> QED
      BY <1>3, <2>9, <3>1 DEF Numbered
  <2>11. CASE m = right(p)
    <3>1. Base(m) = (2 * k + 1) * 2 ^ Order(m)
      BY <2>6, <2>9, <2>11
    <3> QED
      BY <1>3, <2>9, <3>1 DEF Numbered
  <2> QED
    BY <2>2, <2>10, <2>11
<1> QED
  BY <1>4, <1>5

\* There is a byte in every block.
LEMMA PowerPositive ==
    ASSUME NEW n \in Nat
    PROVE  2 ^ n \in Nat \ {0}
<1>1. IsFiniteSet(1 .. n) /\ Cardinality(1 .. n) = n
  BY FS_Interval
<1>2. IsFiniteSet(SUBSET (1 .. n)) /\ Cardinality(SUBSET (1 .. n)) = 2 ^ n
  BY <1>1, FS_SUBSET
<1>3. {} \in SUBSET (1 .. n)
  OBVIOUS
<1>4. 2 ^ n # 0
  BY <1>2, <1>3, FS_EmptySet
<1> QED
  BY <1>4, Power

\* Multiples of a number are as far apart.
LEMMA MultiplesApart ==
    ASSUME NEW w \in Nat \ {0}, NEW a \in Nat, NEW b \in Nat
    PROVE  /\ a * w \in Nat /\ b * w \in Nat
           /\ a < b => a * w + w <= b * w
           /\ a * w = b * w => a = b
<1>1. a * w \in Nat /\ b * w \in Nat
  OBVIOUS
<1>2. a < b => a * w + w <= b * w
  OBVIOUS
<1>3. b < a => b * w + w <= a * w
  OBVIOUS
<1> QED
  BY <1>1, <1>2, <1>3

\* A number is even or odd.
LEMMA Parity ==
    ASSUME NEW k \in Nat, NEW h \in Nat, NEW d \in {0, 1}, NEW e \in {0, 1},
           2 * k + d = 2 * h + e
    PROVE  k = h /\ d = e
  OBVIOUS

\* A child is at twice its parent's number of sizes, and one more to the right.
LEMMA ChildAt ==
    ASSUME U \in Nat, NEW m \in Paths, m # root, Len(m) <= U
    PROVE  \E k \in Nat, d \in {0, 1} :
             /\ Base(m) = (2 * k + d) * 2 ^ Order(m)
             /\ Base(parent(m)) = k * (2 * 2 ^ Order(m))
             /\ m = IF d = 0 THEN left(parent(m)) ELSE right(parent(m))
<1>1. PICK p : p = parent(m)
  OBVIOUS
<1>2. p \in Paths /\ Len(p) = Len(m) - 1 /\ (m = left(p) \/ m = right(p)) /\ Len(p) \in Nat
  BY <1>1, Child, Root
<1>3. Len(p) < U /\ Len(p) <= U
  BY <1>2, Root
<1>4. PICK k \in 0 .. 2 ^ Len(p) - 1 : Base(p) = k * 2 ^ Order(p)
  BY <1>2, <1>3, Aligned DEF Numbered
<1>5. PICK w \in Nat : /\ w = 2 ^ (Order(p) - 1) /\ 2 ^ Order(p) = 2 * w
                       /\ Order(m) = Order(p) - 1
                       /\ m = left(p) => Base(m) = Base(p)
                       /\ m = right(p) => Base(m) = Base(p) + w
  BY <1>2, <1>3, Halves
<1>6. k \in Nat /\ 2 ^ Len(p) \in Nat /\ k <= 2 ^ Len(p) - 1
  BY <1>2, <1>4, Power
<1>7. k * (2 * w) = (2 * k) * w /\ k * (2 * w) + w = (2 * k + 1) * w
  BY <1>6, Doubled
<1>8. Base(p) = k * (2 * 2 ^ Order(m)) /\ w = 2 ^ Order(m)
  BY <1>4, <1>5
<1>9. CASE m = left(p)
  <2>1. 2 * k + 0 = 2 * k
    BY <1>6
  <2>2. Base(m) = (2 * k + 0) * 2 ^ Order(m)
    BY <1>4, <1>5, <1>7, <1>8, <1>9, <2>1
  <2>3. 0 \in {0, 1} /\ m = IF 0 = 0 THEN left(p) ELSE right(p)
    BY <1>9
  <2> QED
    BY <1>1, <1>6, <1>8, <2>2, <2>3
<1>10. CASE m = right(p)
  <2>1. Base(m) = (2 * k + 1) * 2 ^ Order(m)
    BY <1>4, <1>5, <1>7, <1>8, <1>10
  <2>2. 1 \in {0, 1} /\ m = IF 1 = 0 THEN left(p) ELSE right(p)
    BY <1>10
  <2> QED
    BY <1>1, <1>6, <1>8, <2>1, <2>2
<1> QED
  BY <1>2, <1>9, <1>10

\* Blocks of the same size at the same address are the same: take two shortest paths
\* that are not.
LEMMA SamePlace ==
    ASSUME U \in Nat, NEW n \in Paths, NEW m \in Paths, Len(n) = Len(m), Len(m) <= U,
           Base(n) = Base(m)
    PROVE  n = m
<1> DEFINE Twins(i, x, y) == /\ Len(x) = i /\ Len(y) = i /\ i <= U /\ Base(x) = Base(y)
                             /\ x # y
           K == {i \in Nat : \E x, y \in Paths : Twins(i, x, y)}
<1> SUFFICES ASSUME K # {} PROVE FALSE
  BY Root
<1>1. K \in SUBSET Nat
  OBVIOUS
<1> HIDE DEF K
<1>2. PICK i \in K : \A h \in K : i <= h
  BY <1>1, LeastExists
<1>3. PICK x \in Paths, y \in Paths : Twins(i, x, y) /\ i \in Nat
  BY <1>2 DEF K
<1>4. x # root /\ y # root
  BY <1>3, Root
<1>5. Len(x) <= U /\ Len(y) <= U
  BY <1>3
<1>6. PICK k \in Nat, d \in {0, 1} :
         /\ Base(x) = (2 * k + d) * 2 ^ Order(x)
         /\ Base(parent(x)) = k * (2 * 2 ^ Order(x))
         /\ x = IF d = 0 THEN left(parent(x)) ELSE right(parent(x))
  BY <1>4, <1>5, ChildAt
<1>7. PICK h \in Nat, e \in {0, 1} :
         /\ Base(y) = (2 * h + e) * 2 ^ Order(y)
         /\ Base(parent(y)) = h * (2 * 2 ^ Order(y))
         /\ y = IF e = 0 THEN left(parent(y)) ELSE right(parent(y))
  BY <1>4, <1>5, ChildAt
<1>8. Order(y) = Order(x) /\ Order(x) \in Nat
  BY <1>3, AddressType DEF Order
<1>9. PICK w \in Nat \ {0} : w = 2 ^ Order(x)
  BY <1>8, PowerPositive
<1>10. 2 * k + d = 2 * h + e
  <2>1. (2 * k + d) * w = (2 * h + e) * w
    BY <1>3, <1>6, <1>7, <1>8, <1>9
  <2>2. 2 * k + d \in Nat /\ 2 * h + e \in Nat
    OBVIOUS
  <2> QED
    BY <2>1, <2>2, MultiplesApart
<1>11. k = h /\ d = e
  BY <1>10, Parity
<1>12. Base(parent(x)) = Base(parent(y))
  BY <1>6, <1>7, <1>8, <1>11
<1>13. /\ parent(x) \in Paths /\ parent(y) \in Paths
       /\ Len(parent(x)) = i - 1 /\ Len(parent(y)) = i - 1 /\ i - 1 \in Nat /\ i - 1 < i
  BY <1>3, <1>4, Child, Root
<1>14. i - 1 \notin K
  <2>1. \A j \in K : ~(j < i)
    BY <1>1, <1>2
  <2> QED
    BY <1>13, <2>1
<1>15. parent(x) = parent(y)
  BY <1>3, <1>12, <1>13, <1>14 DEF K
<1> QED
  BY <1>3, <1>6, <1>7, <1>11, <1>15

\* Blocks of the same size do not overlap.
LEMMA SameSizeApart ==
    ASSUME U \in Nat, NEW n \in Paths, NEW m \in Paths, Len(n) = Len(m), Len(m) <= U, n # m
    PROVE  Addresses(n) \cap Addresses(m) = {}
<1>1. Order(n) = Order(m) /\ Order(m) \in Nat /\ Len(n) \in Nat
  BY AddressType DEF Order
<1>2. PICK w \in Nat \ {0} : w = 2 ^ Order(m) /\ w = 2 ^ Order(n)
  BY <1>1, PowerPositive
<1>3. PICK k \in Nat : Base(n) = k * w
  BY <1>1, <1>2, Aligned, Power DEF Numbered
<1>4. PICK h \in Nat : Base(m) = h * w
  BY <1>1, <1>2, Aligned, Power DEF Numbered
<1>5. k # h
  BY <1>3, <1>4, SamePlace
<1>6. Addresses(n) = k * w .. k * w + w - 1 /\ Addresses(m) = h * w .. h * w + w - 1
  BY <1>2, <1>3, <1>4 DEF Addresses
<1>7. k * w \in Nat /\ h * w \in Nat /\ (k < h => k * w + w <= h * w)
  BY MultiplesApart
<1>8. h < k => h * w + w <= k * w
  BY MultiplesApart
<1>9. PICK a \in Nat, b \in Nat : a = k * w /\ b = h * w /\ (a + w <= b \/ b + w <= a)
  BY <1>5, <1>7, <1>8
<1>10. Addresses(n) = a .. a + w - 1 /\ Addresses(m) = b .. b + w - 1
  BY <1>6, <1>9
<1> QED
  BY <1>9, <1>10

\* A child's memory is a part of its parent's.
LEMMA ChildWithin ==
    ASSUME U \in Nat, NEW m \in Paths, m # root, Len(m) <= U
    PROVE  Addresses(m) \subseteq Addresses(parent(m))
<1>1. PICK p : p = parent(m)
  OBVIOUS
<1>2. p \in Paths /\ Len(p) = Len(m) - 1 /\ (m = left(p) \/ m = right(p)) /\ Len(p) \in Nat
  BY <1>1, Child, Root
<1>3. Len(p) < U
  BY <1>2, Root
<1>4. PICK w \in Nat, a \in Nat, b \in Nat :
         /\ 2 ^ Order(p) = 2 * w /\ Base(p) = a
         /\ 2 ^ Order(m) = w /\ Base(m) = b /\ (b = a \/ b = a + w)
  <2>1. /\ 2 ^ (Order(p) - 1) \in Nat /\ 2 ^ Order(p) = 2 * 2 ^ (Order(p) - 1)
        /\ Base(p) \in Nat /\ Order(m) = Order(p) - 1
        /\ Base(m) = Base(p) \/ Base(m) = Base(p) + 2 ^ (Order(p) - 1)
    BY <1>2, <1>3, Halves
  <2> QED
    BY <2>1
<1>5. Addresses(p) = a .. a + 2 * w - 1 /\ Addresses(m) = b .. b + w - 1
  BY <1>4 DEF Addresses
<1> QED
  BY <1>1, <1>4, <1>5

\* A node's memory is a part of each ancestor's: take the nearest one of which it is not.
LEMMA Within ==
    ASSUME U \in Nat, NEW m \in Paths, Len(m) <= U, NEW k \in 0 .. Len(m)
    PROVE  Addresses(m) \subseteq Addresses(SubSeq(m, 1, k))
<1> DEFINE Good(d) == Addresses(m) \subseteq Addresses(SubSeq(m, 1, Len(m) - d))
           K == {d \in 0 .. Len(m) : ~Good(d)}
<1>1. Len(m) \in Nat /\ SubSeq(m, 1, Len(m)) = m
  BY Root, SubSeqFull DEF Paths
<1>2. Len(m) - k \in 0 .. Len(m) /\ Len(m) - (Len(m) - k) = k
  BY <1>1
<1> SUFFICES ASSUME K # {} PROVE FALSE
  BY <1>2
<1>3. K \in SUBSET Nat
  BY <1>1
<1> HIDE DEF K
<1>4. PICK d \in K : \A h \in K : d <= h
  BY <1>3, LeastExists
<1>5. d \in 0 .. Len(m) /\ ~Good(d)
  BY <1>4 DEF K
<1>5a. d \in 0 .. Len(m)
  BY <1>5
<1>6. d # 0
  <2> SUFFICES ASSUME d = 0 PROVE FALSE
    OBVIOUS
  <2>1. Len(m) - d = Len(m)
    BY <1>1
  <2>2. SubSeq(m, 1, Len(m) - d) = m
    BY <1>1, <2>1
  <2> QED
    BY <1>5, <2>2
<1> HIDE DEF Good
<1>7. PICK j \in 0 .. Len(m) - 1 : j = Len(m) - d /\ j + 1 = Len(m) - (d - 1)
  <2>1. /\ Len(m) - d \in 0 .. Len(m) - 1
        /\ (Len(m) - d) + 1 = Len(m) - (d - 1)
    BY <1>1, <1>5a, <1>6
  <2> QED
    BY <2>1
<1>8. d - 1 \notin K
  <2>1. \A h \in K : ~(h < d)
    BY <1>3, <1>4
  <2> QED
    BY <1>1, <1>5, <1>6, <2>1
<1>9. d - 1 \in 0 .. Len(m)
  BY <1>1, <1>5, <1>6
<1>10. Good(d - 1)
  BY <1>8, <1>9 DEF K
<1>11. Addresses(m) \subseteq Addresses(SubSeq(m, 1, j + 1))
  BY <1>7, <1>10 DEF Good
<1>12. PICK x, y : x = SubSeq(m, 1, j) /\ y = SubSeq(m, 1, j + 1)
  OBVIOUS
<1>13. x \in Paths /\ y \in Paths /\ Len(y) = j + 1
  <2>1. /\ m \in Seq({0, 1}) /\ \A i \in 1 .. Len(m) : m[i] \in {0, 1}
    BY ElementOfSeq DEF Paths
  <2>2. /\ j \in Int /\ j + 1 \in Int /\ 1 \in Int /\ j >= 0 /\ j + 1 >= 0
        /\ \A i \in 1 .. j : m[i] \in {0, 1}
        /\ \A i \in 1 .. j + 1 : m[i] \in {0, 1}
    BY <1>1, <2>1
  <2> QED
    BY <1>12, <2>1, <2>2, SubSeqProperties DEF Paths
<1>14. y = left(x) \/ y = right(x)
  BY <1>7, <1>12, NextTurn
<1>15. y # root /\ parent(y) = x /\ Len(y) <= U
  <2>1. y # root /\ parent(y) = x
    BY <1>13, <1>14, Children
  <2>2. Len(y) <= Len(m)
    BY <1>1, <1>7, <1>13
  <2> QED
    BY <1>1, <1>13, <2>1, <2>2
<1>16. Addresses(y) \subseteq Addresses(x)
  BY <1>13, <1>15, ChildWithin
<1>17. Addresses(m) \subseteq Addresses(SubSeq(m, 1, Len(m) - d))
  BY <1>7, <1>11, <1>12, <1>16
<1> QED
  BY <1>5, <1>17 DEF Good

\* Blocks overlap only when one lies inside the other.
LEMMA Apart ==
    ASSUME U \in Nat, NEW n \in Paths, NEW m \in Paths, Len(n) <= U, Len(m) <= U,
           ~Inside(n, m), ~Inside(m, n)
    PROVE  Addresses(n) \cap Addresses(m) = {}
<1>1. ASSUME NEW x \in Paths, NEW y \in Paths, Len(x) <= Len(y), Len(y) <= U, ~Inside(y, x)
      PROVE  Addresses(x) \cap Addresses(y) = {}
  <2>1. Len(x) \in 0 .. Len(y) /\ Len(y) \in Nat
    BY <1>1, Root
  <2>2. PICK z : z = SubSeq(y, 1, Len(x))
    OBVIOUS
  <2>3. z \in Paths /\ Len(z) = Len(x)
    <3>1. y \in Seq({0, 1}) /\ \A i \in 1 .. Len(y) : y[i] \in {0, 1}
      BY ElementOfSeq DEF Paths
    <3>2. /\ Len(x) \in Int /\ 1 \in Int /\ Len(x) >= 0
          /\ \A i \in 1 .. Len(x) : y[i] \in {0, 1}
      BY <2>1, <3>1
    <3> QED
      BY <2>1, <2>2, <3>1, <3>2, SubSeqProperties DEF Paths
  <2>4. z # x
    BY <1>1, <2>2 DEF Inside
  <2>5. Len(x) <= U
    BY <1>1, <2>1
  <2>6. Addresses(z) \cap Addresses(x) = {}
    BY <2>3, <2>4, <2>5, SameSizeApart
  <2>7. Addresses(y) \subseteq Addresses(z)
    BY <1>1, <2>1, <2>2, Within
  <2> QED
    BY <2>6, <2>7
<1>2. Len(n) \in Nat /\ Len(m) \in Nat
  BY Root
<1>3. CASE Len(n) <= Len(m)
  BY <1>1, <1>3
<1>4. CASE Len(m) <= Len(n)
  <2>1. Addresses(m) \cap Addresses(n) = {}
    BY <1>1, <1>4
  <2> QED
    BY <2>1
<1> QED
  BY <1>2, <1>3, <1>4

\* So leaves of the tree are disjoint blocks.
LEMMA LeavesApart ==
    ASSUME Inv, NEW n, NEW m, Leaf(n), Leaf(m), n # m
    PROVE  Addresses(n) \cap Addresses(m) = {}
<1>1. n \in Nodes /\ m \in Nodes
  BY DEF Leaf
<1>2. ~Inside(n, m) /\ ~Inside(m, n)
  BY <1>1, NothingInsideLeaf
<1>3. U \in Nat /\ n \in Paths /\ m \in Paths /\ Len(n) <= U /\ Len(m) <= U
  <2>1. TypeOK /\ Shape
    BY DEF Inv
  <2>2. U \in Nat /\ L \in Nat /\ 0 < L /\ L < U
    BY <2>1, Bounds
  <2>3. /\ n \in Paths /\ Len(n) \in Nat /\ Len(n) <= U - L
        /\ m \in Paths /\ Len(m) \in Nat /\ Len(m) <= U - L
    BY <1>1, <2>1, NodeFacts
  <2> QED
    BY <2>2, <2>3
<1> QED
  BY <1>2, <1>3, Apart

-----------------------------------------------------------------------------
(* The refinement *)

\* A node's memory is one of the allocator's blocks.
LEMMA IsABlock ==
    ASSUME Inv, NEW n \in Nodes
    PROVE  \E o \in Abstract!Orders : Addresses(n) \in Abstract!BlocksOf(o)
<1>1. U \in Nat /\ L \in Nat /\ n \in Paths /\ Len(n) <= U /\ Order(n) \in L .. U
  <2>1. TypeOK /\ Shape
    BY DEF Inv
  <2>2. U \in Nat /\ L \in Nat /\ 0 < L /\ L < U
    BY <2>1, Bounds
  <2>3. n \in Paths /\ Len(n) \in Nat /\ Len(n) <= U - L /\ Order(n) \in L .. U
    BY <2>1, NodeFacts
  <2> QED
    BY <2>2, <2>3
<1>2. Order(n) = U - Len(n) /\ Order(n) \in Nat /\ Len(n) \in Nat
  BY <1>1, AddressType
<1>3. PICK k \in 0 .. 2 ^ Len(n) - 1 : Base(n) = k * 2 ^ Order(n)
  BY <1>1, Aligned DEF Numbered
<1>4. U - Order(n) = Len(n)
  BY <1>1, <1>2
<1>5. k \in 0 .. 2 ^ (U - Order(n)) - 1
  BY <1>3, <1>4
<1>6. Addresses(n) = (k * 2 ^ Order(n)) .. (k * 2 ^ Order(n) + 2 ^ Order(n) - 1)
  BY <1>3 DEF Addresses
<1>7. Addresses(n) \in Abstract!BlocksOf(Order(n))
  BY <1>5, <1>6 DEF Abstract!BlocksOf
<1>8. Order(n) \in Abstract!Orders
  BY <1>1 DEF Abstract!Orders
<1> QED
  BY <1>7, <1>8

\* The address of a block depends on the size of the memory only.
LEMMA HeldNext ==
    ASSUME U' = U
    PROVE  [q \in DOMAIN running_rec |-> Addresses(running_rec[q])]'
             = [q \in DOMAIN running_rec' |-> Addresses(running_rec'[q])]
<1>1. ASSUME NEW q PROVE Base(running_rec[q])' = Base(running_rec'[q])
  BY DEF Base
<1>2. ASSUME NEW q PROVE Addresses(running_rec[q])' = Addresses(running_rec'[q])
  BY <1>1 DEF Addresses, Order
<1> QED
  BY <1>2

\* A process that holds nothing is given a free leaf: a block disjoint from all held.
LEMMA AllotMaps ==
    ASSUME Inv, NEW n, Leaf(n), ~tree[n].is_used, NEW o, NEW p, NEW b,
           p \notin DOMAIN running_rec, allot(n, o, p, b), UNCHANGED <<U, L>>
    PROVE  Abstract!Take(p)
<1> DEFINE held == [q \in DOMAIN running_rec |-> Addresses(running_rec[q])]
<1>1. n \in Nodes /\ U' = U /\ L' = L
  BY DEF Leaf
<1>2. PICK k \in Abstract!Orders : Addresses(n) \in Abstract!BlocksOf(k)
  BY <1>1, IsABlock
<1>3. ASSUME NEW q \in DOMAIN running_rec
      PROVE  Addresses(n) \cap held[q] = {}
  <2>1. Leaf(running_rec[q]) /\ tree[running_rec[q]].is_used
    BY DEF Inv, HeldOk
  <2>2. Addresses(n) \cap Addresses(running_rec[q]) = {}
    BY <2>1, LeavesApart
  <2> QED
    BY <2>2
<1>4. running_rec' = [q \in DOMAIN running_rec \cup {p} |->
                         IF q = p THEN n ELSE running_rec[q]]
  BY DEF allot
<1>5. DOMAIN held = DOMAIN running_rec
  OBVIOUS
<1>6. held' = [q \in DOMAIN held \cup {p} |-> IF q = p THEN Addresses(n) ELSE held[q]]
  <2>1. held' = [q \in DOMAIN running_rec' |-> Addresses(running_rec'[q])]
    BY <1>1, HeldNext
  <2> QED
    BY <1>4, <2>1
<1> QED
  BY <1>1, <1>2, <1>3, <1>5, <1>6 DEF Abstract!Take

\* A release takes away the block of that process and no other.
LEMMA ReleaseMaps ==
    ASSUME NEW p, Release(p)
    PROVE  Abstract!Give(p)
<1> DEFINE held == [q \in DOMAIN running_rec |-> Addresses(running_rec[q])]
<1>1. /\ p \in DOMAIN running_rec /\ U' = U /\ L' = L
      /\ running_rec' = [q \in DOMAIN running_rec \ {p} |-> running_rec[q]]
  BY DEF Release
<1>2. held' = [q \in DOMAIN running_rec' |-> Addresses(running_rec'[q])]
  BY <1>1, HeldNext
<1>3. held' = [q \in DOMAIN held \ {p} |-> held[q]]
  BY <1>1, <1>2
<1> QED
  BY <1>1, <1>3 DEF Abstract!Give

\* The other steps do not show.
LEMMA Unseen ==
    ASSUME UNCHANGED <<U, L, running_rec>>
    PROVE  UNCHANGED Abstract!vars
  BY HeldNext DEF Abstract!vars

\* Every step is one of the allocator's, or does not show.
LEMMA StepMaps ==
    ASSUME ~Again, Inv, [Next]_vars
    PROVE  [Abstract!Next]_Abstract!vars
<1>1. TypeOK
  BY DEF Inv
<1>2. ASSUME NEW c \in Cases, NextCase(c) PROVE Abstract!Restart
  <2>1. DOMAIN running_rec' = {}
    BY <1>2 DEF NextCase
  <2>2. [q \in DOMAIN running_rec |-> Addresses(running_rec[q])]' = [q \in {} |-> {}]
    BY <2>1
  <2> QED
    BY <2>2 DEF Abstract!Restart, Abstract!Nothing
<1>3. ASSUME NEW p \in Names, NEW b \in Bytes, AllotExact(p, b) PROVE Abstract!Take(p)
  <2>1. PICK w : w = find_reqd_power_of_2(b)
    OBVIOUS
  <2>2. /\ job = Idle /\ b <= 2 ^ U /\ p \notin DOMAIN running_rec
        /\ Available(w) # {} /\ can_get(w) = w /\ allot(Head(free_map[w]), w, p, b)
        /\ UNCHANGED <<U, L>>
    BY <1>3, <2>1, Again = FALSE DEF AllotExact, Asks
  <2>3. b \in Nat
    BY <1>1, RequestsAreNumbers
  <2>4. w \in L .. U
    BY <1>1, <2>1, <2>2, <2>3, RequestFits
  <2>5. free_map[w] # <<>>
    BY <1>1, <2>2, <2>4, SearchStops
  <2>6. Free(Head(free_map[w]))
    BY <2>2, <2>4, <2>5, HeadOfList
  <2>7. Leaf(Head(free_map[w])) /\ ~tree[Head(free_map[w])].is_used
    BY <2>6 DEF Free
  <2> QED
    BY <2>2, <2>7, AllotMaps
<1>4. ASSUME SplitDone PROVE \E p \in Names : Abstract!Take(p)
  <2>1. /\ job.pc = "split" /\ allot(job.curr, job.can_get, job.p, job.b)
        /\ UNCHANGED <<U, L>>
    BY <1>4 DEF SplitDone
  <2>2. /\ Leaf(job.curr) /\ ~tree[job.curr].is_used /\ job.p \in Names
        /\ job.p \notin DOMAIN running_rec
    BY <2>1, InHand
  <2>3. PICK n, o, p, b : n = job.curr /\ o = job.can_get /\ p = job.p /\ b = job.b
    OBVIOUS
  <2>4. Abstract!Take(p)
    BY <2>1, <2>2, <2>3, AllotMaps
  <2> QED
    BY <2>2, <2>3, <2>4
<1>5. ASSUME NEW p \in Names, Release(p) PROVE Abstract!Give(p)
  BY <1>5, ReleaseMaps
<1>6. \/ \E c \in Cases : NextCase(c)
      \/ \E p \in Names, b \in Bytes : AllotExact(p, b)
      \/ SplitDone
      \/ \E p \in Names : Release(p)
      \/ UNCHANGED <<U, L, running_rec>>
  BY DEF Next, vars, AllotSplit, Ignore, SplitStep, TooLarge, ReleaseNothing,
         CoalesceStep, ReleaseDone
<1> QED
  BY <1>2, <1>3, <1>4, <1>5, <1>6, Unseen DEF Abstract!Next

\* At first no process holds memory.
LEMMA InitMaps == Init => Abstract!Init
<1> SUFFICES ASSUME Init PROVE Abstract!Init
  OBVIOUS
<1>1. PICK c \in Cases : Start(c[1], c[2])
  BY DEF Init
<1>2. c \in Nat \X Nat
  BY CasesAssumption
<1>3. U \in Nat /\ L \in Nat /\ DOMAIN running_rec = {}
  BY <1>1, <1>2 DEF Start
<1>4. [q \in DOMAIN running_rec |-> Addresses(running_rec[q])] = [q \in {} |-> {}]
  BY <1>3
<1> QED
  BY <1>3, <1>4 DEF Abstract!Init, Abstract!Nothing

\* Where a process asks only when it holds nothing, the buddy tree implements the
\* allocator: every request that is answered gets an aligned block of a power of two of
\* bytes, disjoint from all memory held at the time, and it stays the process's until
\* its own release.
THEOREM Refinement ==
    ASSUME ~Again
    PROVE  Spec => ImplementsAllocator
<1>1. Inv /\ [Next]_vars => [Abstract!Next]_Abstract!vars
  BY StepMaps
<1>2. Spec => [][Abstract!Next]_Abstract!vars
  BY <1>1, Invariant, PTL DEF Spec
<1> QED
  BY <1>2, InitMaps, PTL DEF Spec, ImplementsAllocator, Abstract!Spec

=============================================================================
