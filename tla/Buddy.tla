-------------------------------- MODULE Buddy --------------------------------
(***************************************************************************)
(* The buddy allocator of "CS304 - PA/buddy.cpp": a binary tree of blocks, *)
(* one free list per block size, and the map from process names to blocks. *)
(*                                                                         *)
(* A tree node is named by its path from the root, a sequence of 0 (left)  *)
(* and 1 (right); a block of order o has 2^o bytes.  The splitting and the *)
(* coalescing loops of send_query take one iteration per step.             *)
(*                                                                         *)
(* Abstracted: printing, and the pid field, which is written only.         *)
(***************************************************************************)
EXTENDS Integers, Sequences, FiniteSets

CONSTANTS
    Names,      \* process names
    Cases,      \* the valid test cases, pairs <<U, L>>
    Again       \* may a process that holds a block request another one?

ASSUME CasesAssumption ==
    Cases # {} /\ \A c \in Cases : c \in Nat \X Nat /\ 0 < c[2] /\ c[2] < c[1]

ASSUME AgainAssumption == Again \in BOOLEAN

NULL == "_"     \* the pname of a free block
ASSUME NamesAssumption == NULL \notin Names

VARIABLES
    U, L,           \* total_size = 2^U, min_granularity = 2^L
    tree,           \* the nodes that exist, with their fields
    free_map,       \* order -> list of nodes, the head first
    running_rec,    \* process name -> node
    job             \* the loop of send_query in progress

vars == <<U, L, tree, free_map, running_rec, job>>

root == <<>>
Order(n) == U - Len(n)
parent(n) == SubSeq(n, 1, Len(n) - 1)
left(n) == Append(n, 0)
right(n) == Append(n, 1)
Sibling(n) == IF n = left(parent(n)) THEN right(parent(n)) ELSE left(parent(n))

Nodes == DOMAIN tree
Block == [is_used : BOOLEAN, pname : Names \cup {NULL}, bytes : Nat]
create == [is_used |-> FALSE, pname |-> NULL, bytes |-> 0]

\* What send_query is doing: nothing, splitting down to a block for a request,
\* or coalescing upwards from a block; or the program has ended.
Idle == [pc |-> "idle"]
Crashed == [pc |-> "null pointer"]
Exited == [pc |-> "exit(3)"]
Splitting(n, o, top, p, b) ==
    [pc |-> "split", curr |-> n, want |-> o, can_get |-> top, p |-> p, b |-> b]
Coalescing(n) == [pc |-> "coalesce", temp |-> n]

-----------------------------------------------------------------------------
(* One test case *)

\* initialize_free_map(), then the root in the list of its size.
initialize_free_map(u, l) ==
    [o \in l .. u |-> IF o = u THEN <<root>> ELSE <<>>]

Start(u, l) ==
    /\ U = u /\ L = l
    /\ tree = [n \in {root} |-> create]
    /\ free_map = initialize_free_map(u, l)
    /\ running_rec = [p \in {} |-> root]

Init == /\ job = Idle
        /\ \E c \in Cases : Start(c[1], c[2])

\* main() goes on to the next test case: clear(root), and everything anew.
NextCase(c) ==
    /\ job = Idle
    /\ U' = c[1] /\ L' = c[2]
    /\ tree' = [n \in {root} |-> create]
    /\ free_map' = initialize_free_map(c[1], c[2])
    /\ running_rec' = [p \in {} |-> root]
    /\ UNCHANGED job

-----------------------------------------------------------------------------
(* Requests: send_query(p, b) with b > 0 *)

\* The loop that doubles min_granularity until the request fits.
find_reqd_power_of_2(b) ==
    CHOOSE o \in L .. U : 2 ^ o >= b /\ (o = L \/ 2 ^ (o - 1) < b)

\* The sizes the search can stop at; it stops at the smallest.
Available(want) == {o \in want .. U : free_map[o] # <<>>}
can_get(want) == CHOOSE o \in Available(want) : \A q \in Available(want) : o <= q

\* Put the process into block n, whose free list loses its head.
allot(n, o, p, b) ==
    /\ tree' = [tree EXCEPT ![n] = [is_used |-> TRUE, pname |-> p, bytes |-> b]]
    /\ free_map' = [free_map EXCEPT ![o] = Tail(@)]
    /\ running_rec' = [q \in DOMAIN running_rec \cup {p} |->
                          IF q = p THEN n ELSE running_rec[q]]
    /\ job' = Idle

\* The requests of the input file that reach the search.
Asks(p, b) == /\ job = Idle /\ b <= 2 ^ U
              /\ Again \/ p \notin DOMAIN running_rec

\* A block of the wanted size is free.
AllotExact(p, b) ==
    /\ Asks(p, b)
    /\ LET want == find_reqd_power_of_2(b)
       IN  /\ Available(want) # {} /\ can_get(want) = want
           /\ allot(Head(free_map[want]), want, p, b)
    /\ UNCHANGED <<U, L>>

\* Only a larger block is free: it has to be split.
AllotSplit(p, b) ==
    /\ Asks(p, b)
    /\ LET want == find_reqd_power_of_2(b)
           top == can_get(want)
       IN  /\ Available(want) # {} /\ top # want
           /\ job' = Splitting(Head(free_map[top]), want, top, p, b)
    /\ UNCHANGED <<U, L, tree, free_map, running_rec>>

\* Mutant: the node that was split is not marked as used.
splitUnmarked(n) ==
    /\ tree' = [m \in Nodes \cup {left(n), right(n)} |->
                  IF m \in Nodes THEN tree[m] ELSE create]
    /\ free_map' = [free_map EXCEPT ![Order(n) - 1] = <<right(n)>> \o @]

\* split(n), and the mark that n or its children are occupied: two new leaves,
\* the right one at the head of the free list of its size.
split(n) ==
    /\ tree' = [m \in Nodes \cup {left(n), right(n)} |->
                  IF m = n THEN [tree[n] EXCEPT !.is_used = TRUE]
                  ELSE IF m \in Nodes THEN tree[m] ELSE create]
    /\ free_map' = [free_map EXCEPT ![Order(n) - 1] = <<right(n)>> \o @]

SplitStep ==
    /\ job.pc = "split" /\ Order(job.curr) # job.want
    /\ split(job.curr)
    /\ job' = [job EXCEPT !.curr = left(@)]
    /\ UNCHANGED <<U, L, running_rec>>

SplitDone ==
    /\ job.pc = "split" /\ Order(job.curr) = job.want
    /\ allot(job.curr, job.can_get, job.p, job.b)
    /\ UNCHANGED <<U, L>>

\* No list has a block: the request line is ignored.
Ignore(p, b) ==
    /\ Asks(p, b)
    /\ Available(find_reqd_power_of_2(b)) = {}
    /\ UNCHANGED vars

\* find_reqd_power_of_2 ends the program when the request exceeds the memory.
TooLarge(b) ==
    /\ job = Idle /\ b > 2 ^ U
    /\ job' = Exited
    /\ UNCHANGED <<U, L, tree, free_map, running_rec>>

-----------------------------------------------------------------------------
(* Releases: send_query(p, 0) *)

\* Mutant: erase(find(p), end()), which also drops entries that follow p's.
ReleaseRange(p) ==
    /\ job = Idle
    /\ p \in DOMAIN running_rec
    /\ LET n == running_rec[p]
       IN  /\ tree' = [tree EXCEPT ![n].is_used = FALSE]
           /\ job' = Coalescing(n)
    /\ LET others == DOMAIN running_rec \ {p}
           first == {q \in others : q = CHOOSE o \in others : TRUE}
       IN  running_rec' = [q \in first |-> running_rec[q]]
    /\ UNCHANGED <<U, L, free_map>>

\* The block of the process is marked free, and the loop starts at it.
Release(p) ==
    /\ job = Idle
    /\ p \in DOMAIN running_rec
    /\ LET n == running_rec[p]
       IN  /\ tree' = [tree EXCEPT ![n].is_used = FALSE]
           /\ job' = Coalescing(n)
    /\ running_rec' = [q \in DOMAIN running_rec \ {p} |-> running_rec[q]]
    /\ UNCHANGED <<U, L, free_map>>

\* The release of a process that holds nothing, because it never asked, its request
\* was ignored, or it has released its block already: running_rec[p] is a null pointer.
ReleaseNothing(p) ==
    /\ job = Idle
    /\ p \notin DOMAIN running_rec
    /\ job' = Crashed
    /\ UNCHANGED <<U, L, tree, free_map, running_rec>>

\* Take n out of a free list.  (The loop in coalesce looks for both children
\* and goes on after a match, but only the sibling is listed, and once.)
Unlist(list, n) ==
    IF \E i \in 1 .. Len(list) : list[i] = n
    THEN LET i == CHOOSE i \in 1 .. Len(list) :
                    list[i] = n /\ \A j \in 1 .. i - 1 : list[j] # n
         IN  SubSeq(list, 1, i - 1) \o SubSeq(list, i + 1, Len(list))
    ELSE list

\* coalesce(n): both children leave the tree, the free one its list.
coalesce(n, sib) ==
    /\ tree' = [m \in Nodes \ {left(n), right(n)} |-> tree[m]]
    /\ free_map' = [free_map EXCEPT ![Order(n) - 1] = Unlist(@, sib)]

\* Mutant: only left children are merged.
BuddyFreeLeft(n) == n # root /\ n = left(parent(n)) /\ ~tree[Sibling(n)].is_used

BuddyFree(n) == n # root /\ ~tree[Sibling(n)].is_used

CoalesceStep ==
    /\ job.pc = "coalesce" /\ BuddyFree(job.temp)
    /\ coalesce(parent(job.temp), Sibling(job.temp))
    /\ job' = Coalescing(parent(job.temp))
    /\ UNCHANGED <<U, L, running_rec>>

\* The end of the release: the block is free, and on its list unless it is
\* the root.
ReleaseDone ==
    /\ job.pc = "coalesce" /\ ~BuddyFree(job.temp)
    /\ LET n == job.temp
       IN  /\ tree' = [tree EXCEPT ![n] = create]
           /\ free_map' = IF n = root THEN free_map
                          ELSE [free_map EXCEPT ![Order(n)] = <<n>> \o @]
    /\ job' = Idle
    /\ UNCHANGED <<U, L, running_rec>>

-----------------------------------------------------------------------------

Bytes == 1 .. 2 ^ U + 1

Next ==
    \/ \E c \in Cases : NextCase(c)
    \/ \E p \in Names, b \in Bytes : AllotExact(p, b) \/ AllotSplit(p, b) \/ Ignore(p, b)
    \/ SplitStep \/ SplitDone
    \/ \E b \in Bytes : TooLarge(b)
    \/ \E p \in Names : Release(p) \/ ReleaseNothing(p)
    \/ CoalesceStep \/ ReleaseDone

Spec == Init /\ [][Next]_vars

-----------------------------------------------------------------------------
(* Properties *)

Leaf(n) == n \in Nodes /\ left(n) \notin Nodes /\ right(n) \notin Nodes
Listed == UNION {{free_map[o][i] : i \in 1 .. Len(free_map[o])} : o \in L .. U}
Inside(m, n) == Len(n) <= Len(m) /\ SubSeq(m, 1, Len(n)) = n
AtRest == job.pc = "idle"

\* The tree stays a tree: every node but the root hangs, with its sibling,
\* below a node that is marked used.
TreeIsWhole ==
    /\ root \in Nodes
    /\ \A n \in Nodes \ {root} :
         /\ parent(n) \in Nodes /\ Sibling(n) \in Nodes
         /\ job.pc # "coalesce" => tree[parent(n)].is_used

\* No two processes ever share memory: the blocks that processes hold are
\* leaves, marked used and with the process's name, and none lies inside
\* another.
BlocksDisjoint ==
    \A p \in DOMAIN running_rec :
      LET n == running_rec[p]
      IN  /\ Leaf(n) /\ tree[n].is_used /\ tree[n].pname = p
          /\ n \notin Listed
          /\ \A q \in DOMAIN running_rec \ {p} : ~Inside(running_rec[q], n)

\* A process gets the smallest block its request fits in.
FitIsTight ==
    \A p \in DOMAIN running_rec :
      LET n == running_rec[p]
      IN  /\ tree[n].bytes <= 2 ^ Order(n)
          /\ Order(n) = L \/ tree[n].bytes > 2 ^ (Order(n) - 1)

\* No memory leaks: between requests every block in use belongs to the process
\* it names, and that process can still release it.  (A process that requests a
\* second block loses the first one, so this needs ~Again.)
NoLeak ==
    AtRest => \A n \in Nodes : Leaf(n) /\ tree[n].is_used =>
                /\ tree[n].pname \in DOMAIN running_rec
                /\ running_rec[tree[n].pname] = n

\* The blocks are sound: they form a tree, processes hold disjoint leaves of it,
\* each the smallest one that fits, and nothing is in use that nobody holds.
BlocksSound == TreeIsWhole /\ BlocksDisjoint /\ FitIsTight /\ NoLeak

\* Free memory can be used: between requests the list of order o holds exactly
\* the free blocks of that size, each once (a free root may be missing), and they
\* are as little fragmented as buddies allow: no two buddies are both free.
FreeMemoryUsable ==
    AtRest =>
      /\ \A o \in L .. U :
           LET free == {n \in Nodes : Leaf(n) /\ ~tree[n].is_used /\ Order(n) = o}
               listed == {free_map[o][i] : i \in 1 .. Len(free_map[o])}
           IN  /\ listed \subseteq free
               /\ free \ {root} \subseteq listed
               /\ Len(free_map[o]) = Cardinality(listed)
      /\ \A n \in Nodes \ {root} : tree[n].is_used \/ tree[Sibling(n)].is_used

\* The address of a block: each right turn on the path adds half of the rest.
Base(n) ==
    LET base[k \in 0 .. Len(n)] ==
          IF k = 0 THEN 0 ELSE base[k - 1] + n[k] * 2 ^ (U - k)
    IN  base[Len(n)]
Addresses(n) == Base(n) .. Base(n) + 2 ^ Order(n) - 1

Abstract == INSTANCE Allocator WITH
    bits <- [U |-> U, L |-> L],
    held <- [p \in DOMAIN running_rec |-> Addresses(running_rec[p])]

\* The buddy tree implements the allocator: send_query hands out only memory
\* that nobody holds, and only its own release takes it away.  (A process that
\* requests a second block gives the first one up, so this needs ~Again.)
ImplementsAllocator == Abstract!Spec
=============================================================================
