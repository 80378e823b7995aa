------------------------------ MODULE Allocator ------------------------------
(***************************************************************************)
(* What a buddy allocator promises: a request is answered with an aligned  *)
(* block whose size is a power of two, disjoint from every block held at   *)
(* the time; the block is the process's until it gives it back.            *)
(***************************************************************************)
EXTENDS Integers

CONSTANT Names

VARIABLES
    bits,       \* the memory has 2^bits.U bytes, blocks at least 2^bits.L
    held        \* process name -> the set of byte addresses it holds

vars == <<bits, held>>

Orders == bits.L .. bits.U
BlocksOf(o) == {(k * 2 ^ o) .. (k * 2 ^ o + 2 ^ o - 1) : k \in 0 .. 2 ^ (bits.U - o) - 1}

Nothing == [p \in {} |-> {}]

Init == /\ bits \in [U : Nat, L : Nat]
        /\ held = Nothing

\* A new test case starts from empty memory.
Restart == held' = Nothing

Take(p) ==
    /\ p \notin DOMAIN held
    /\ \E o \in Orders : \E blk \in BlocksOf(o) :
         /\ \A q \in DOMAIN held : blk \cap held[q] = {}
         /\ held' = [q \in DOMAIN held \cup {p} |-> IF q = p THEN blk ELSE held[q]]
    /\ UNCHANGED bits

Give(p) ==
    /\ p \in DOMAIN held
    /\ held' = [q \in DOMAIN held \ {p} |-> held[q]]
    /\ UNCHANGED bits

Next == Restart \/ \E p \in Names : Take(p) \/ Give(p)

Spec == Init /\ [][Next]_vars
=============================================================================
