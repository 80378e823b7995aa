-------------------------- MODULE SystemTask_proofs --------------------------
(***************************************************************************)
(* Proofs about the system task for any number of processes, privilege     *)
(* structures, signals and masks.                                          *)
(*                                                                         *)
(* The subroutines are functions of the record S of the two tables, the    *)
(* panic flag and PM's signal loop, so the invariant is a predicate Ok(S)  *)
(* and there is a lemma for every subroutine.  The parts of Ok talk about  *)
(* different fields, and most subroutines touch the fields of one part.    *)
(***************************************************************************)
EXTENDS SystemTask, FiniteSetTheorems, WellFoundedInduction, TLAPS

StateT == [proc : [Procs -> Proc], priv : [Ids -> Priv], panic : BOOLEAN,
           pm : Others \cup {NONE, ANY}]

UsedIn(S) == {p \in Procs : S.proc[p].used}

\* Slots: free ones are as clear_proc leaves them, and PM is always there.
SlotsOk(S) ==
    /\ \A p \in Procs : ~S.proc[p].used => S.proc[p] = FreeSlot
    /\ S.proc[PM].used /\ S.proc[PM].priv = PM_PRIV /\ S.proc[PM].rts \subseteq {"RECEIVING"}
    /\ "RECEIVING" \in S.proc[PM].rts => S.proc[PM].getfrom = ANY
    /\ \A p \in Procs : S.proc[p].resume => S.proc[p].reqsrc = p

\* Privileges: a service and its structure belong to each other, a process without
\* privileges has the shared structure, and a structure whose process manages its
\* own signals has a backup.
PrivsOk(S) ==
    /\ \A p \in Others : S.proc[p].priv \in ServiceIds \cup {USER_PRIV}
    /\ \A p \in Procs : "NO_PRIV" \in S.proc[p].rts => S.proc[p].priv = USER_PRIV
    /\ \A p \in UsedIn(S) : S.proc[p].priv \in ServiceIds => S.priv[S.proc[p].priv].proc_nr = p
    /\ \A i \in ServiceIds : S.priv[i].proc_nr # NONE =>
         S.priv[i].proc_nr \in UsedIn(S) /\ S.proc[S.priv[i].proc_nr].priv = i
    /\ S.priv[PM_PRIV].proc_nr = PM /\ S.priv[USER_PRIV].proc_nr = INIT
    /\ S.priv[USER_PRIV].sig_mgr = PM
    /\ \A i \in ServiceIds : S.priv[i].sig_mgr = SELF => S.priv[i].bak_sig_mgr = PM

\* Send masks of structures in use are symmetric.
MasksOk(S) ==
    /\ \A i, j \in Ids : /\ S.priv[i].proc_nr # NONE /\ S.priv[j].proc_nr # NONE
                         /\ j \in S.priv[i].ipc_to /\ ~S.priv[j].receiveOnly
                         => i \in S.priv[j].ipc_to
    /\ \A i \in Ids : S.priv[i].proc_nr # NONE => i \notin S.priv[i].ipc_to

\* Who waits for whom.  A process that sends and receives does both with one other,
\* so that it is blocked on the one whose death releases it from both.
WaitsOk(S) ==
    \A p \in Procs :
      /\ "SENDING" \in S.proc[p].rts => S.proc[p].sendto \in UsedIn(S)
      /\ "RECEIVING" \in S.proc[p].rts => S.proc[p].getfrom \in UsedIn(S) \cup {ANY}
      /\ {"SENDING", "RECEIVING"} \subseteq S.proc[p].rts => S.proc[p].getfrom = S.proc[p].sendto

\* Queues: exactly those that send to q are in its queue, each of them once.
Once(s) == \A k, l \in DOMAIN s : s[k] = s[l] => k = l
Elems(s) == {s[k] : k \in DOMAIN s}
QueuesOk(S) ==
    \A q \in Procs :
      /\ Once(S.proc[q].caller_q)
      /\ \A p \in Procs : p \in Elems(S.proc[q].caller_q) <=>
                            "SENDING" \in S.proc[p].rts /\ S.proc[p].sendto = q

\* Nothing of a process that is gone is pending.
PendingOk(S) ==
    \A p \in Procs : /\ S.proc[p].asyn \subseteq UsedIn(S)
                     /\ \A id \in S.proc[p].notify \ {SYSTEM} : S.priv[id].proc_nr # NONE

\* Signals.  PM has been told of new ones if it is in its loop or will be.
Told(S) ==
    \/ S.pm # NONE
    \/ SYSTEM \in S.proc[PM].notify /\ "SIGKSIG" \in S.priv[PM_PRIV].sig_pending

SignalsOk(S) ==
    /\ "RECEIVING" \in S.proc[PM].rts => S.pm = NONE
    /\ S.pm \in Others => S.proc[S.pm].used
    /\ \A p \in Others :
         /\ (S.proc[p].pending # {}) <=> ("SIGNALED" \in S.proc[p].rts)
         /\ "SIGNALED" \in S.proc[p].rts => "SIG_PENDING" \in S.proc[p].rts /\ Told(S)
         /\ "SIG_PENDING" \in S.proc[p].rts => "SIGNALED" \in S.proc[p].rts \/ S.pm = p
         /\ S.proc[p].priv \in ServiceIds /\ S.priv[S.proc[p].priv].sig_pending # {}
            => SYSTEM \in S.proc[p].notify

Ok(S) ==
    /\ S \in StateT /\ ~S.panic
    /\ SlotsOk(S) /\ PrivsOk(S) /\ MasksOk(S) /\ WaitsOk(S) /\ QueuesOk(S) /\ PendingOk(S)
    /\ SignalsOk(S)

\* The inductive invariant.
Inv == Ok(State)

-----------------------------------------------------------------------------
(* Queues *)

\* Every nonempty set of natural numbers has a least element.
LEMMA LeastExists ==
    ASSUME NEW K, K \subseteq Nat, K # {}
    PROVE  \E k \in K : \A l \in K : k <= l
<1> DEFINE R == OpToRel(<, Nat)
<1>1. \A x, y \in Nat : <<y, x>> \in R <=> y < x
  BY DEF OpToRel
<1>2. \E x \in K : \A y \in K : ~(<<y, x>> \in R)
  BY WFMin, NatLessThanWellFounded
<1> HIDE DEF R
<1>3. PICK x \in K : \A y \in K : ~(<<y, x>> \in R)
  BY <1>2
<1>4. \A y \in K : ~(y < x)
  BY <1>1, <1>3
<1> QED
  BY <1>4

\* The entries at some positions of a queue: which they are, and that an entry which
\* is there once stays so.  The rank of a position among K is a bijection.
LEMMA EntriesOf ==
    ASSUME NEW P, NEW s \in Seq(P), NEW K \in SUBSET DOMAIN s
    PROVE  /\ Entries(s, K) \in Seq(P)
           /\ Elems(Entries(s, K)) = {s[k] : k \in K}
           /\ Once(s) => Once(Entries(s, K))
<1> DEFINE n == Cardinality(K)
           Upto(i) == {k \in K : k <= i}
           rank == [i \in K |-> Cardinality(Upto(i))]
           at(j) == CHOOSE i \in K : Cardinality(Upto(i)) = j
<1>1. K \subseteq 1 .. Len(s) /\ Len(s) \in Nat
  OBVIOUS
<1>2. IsFiniteSet(K) /\ n \in Nat
  <2>1. IsFiniteSet(1 .. Len(s))
    BY <1>1, FS_Interval
  <2> QED
    BY <1>1, <2>1, FS_Subset, FS_CardinalityType
<1>3. \A i \in K : /\ IsFiniteSet(Upto(i)) /\ Cardinality(Upto(i)) \in Nat
                   /\ Cardinality(Upto(i)) <= n
  BY <1>2, FS_Subset, FS_CardinalityType
<1>4. ASSUME NEW i \in K
      PROVE  Cardinality(Upto(i)) # 0
  <2>1. i \in Upto(i)
    BY <1>1
  <2> HIDE DEF Upto
  <2> QED
    BY <1>3, <2>1, FS_EmptySet
<1>5. ASSUME NEW i \in K, NEW j \in K, i < j
      PROVE  Cardinality(Upto(i)) # Cardinality(Upto(j))
  <2>1. Upto(i) \in SUBSET Upto(j) /\ j \in Upto(j) /\ j \notin Upto(i)
    BY <1>1, <1>5
  <2> QED
    BY <1>3, <2>1, FS_Subset
<1>6. \A i, j \in K : Cardinality(Upto(i)) = Cardinality(Upto(j)) => i = j
  <2> HIDE DEF Upto
  <2>1. \A i, j \in K : i < j \/ j < i \/ i = j
    BY <1>1
  <2> QED
    BY <1>5, <2>1
<1>7. rank \in [K -> 1 .. n]
  <2> HIDE DEF Upto, n
  <2>1. \A i \in K : Cardinality(Upto(i)) \in 1 .. n
    BY <1>2, <1>3, <1>4
  <2> QED
    BY <2>1
<1>8. rank \in Injection(K, 1 .. n)
  BY <1>6, <1>7 DEF Injection, IsInjective
<1>9. rank \in Surjection(K, 1 .. n)
  <2>1. IsFiniteSet(1 .. n) /\ Cardinality(1 .. n) = n
    BY <1>2, FS_Interval
  <2> QED
    BY <1>8, <2>1, FS_Injection
<1>10. \A j \in 1 .. n : \E i \in K : Cardinality(Upto(i)) = j
  BY <1>9 DEF Surjection
<1>11. \A j \in 1 .. n : at(j) \in K /\ Cardinality(Upto(at(j))) = j
  BY <1>10
<1>12. Entries(s, K) = [j \in 1 .. n |-> s[at(j)]]
  BY DEF Entries
<1>13. \A k \in K : Cardinality(Upto(k)) \in 1 .. n /\ at(Cardinality(Upto(k))) = k
  BY <1>6, <1>7, <1>11
<1> HIDE DEF at, Upto, n
<1>14. Entries(s, K) \in Seq(P) /\ DOMAIN Entries(s, K) = 1 .. n
  BY <1>1, <1>2, <1>11, <1>12
<1>15. Elems(Entries(s, K)) = {s[k] : k \in K}
  BY <1>11, <1>12, <1>13, <1>14 DEF Elems
<1>16. ASSUME Once(s), NEW j \in 1 .. n, NEW l \in 1 .. n, s[at(j)] = s[at(l)]
       PROVE  j = l
  <2>1. at(j) = at(l)
    BY <1>1, <1>11, <1>16 DEF Once
  <2> QED
    BY <1>11, <2>1
<1>17. Once(s) => Once(Entries(s, K))
  BY <1>12, <1>14, <1>16 DEF Once
<1> QED
  BY <1>14, <1>15, <1>17

\* What is left of a queue that nobody is in twice: all but the processes of X.
LEMMA DequeueOf ==
    ASSUME NEW P, NEW s \in Seq(P), Once(s), NEW X
    PROVE  /\ Dequeue(s, X) \in Seq(P) /\ Once(Dequeue(s, X))
           /\ Elems(Dequeue(s, X)) = Elems(s) \ X
<1> DEFINE K == {k \in DOMAIN s : \/ s[k] \notin X
                                 \/ \E l \in DOMAIN s : l < k /\ s[l] = s[k]}
<1>1. K \in SUBSET DOMAIN s /\ Dequeue(s, X) = Entries(s, K)
  BY DEF Dequeue
<1>2. K = {k \in DOMAIN s : s[k] \notin X}
  BY DEF Once
<1>3. {s[k] : k \in K} = Elems(s) \ X
  BY <1>2 DEF Elems
<1> HIDE DEF K
<1> QED
  BY <1>1, <1>3, EntriesOf

-----------------------------------------------------------------------------
(* Steps that change no queue *)

\* The parts of the invariant that hold in the middle of a subroutine too.
Base(S) == S \in StateT /\ ~S.panic /\ SlotsOk(S) /\ PrivsOk(S)

\* A slot after a step that neither makes nor ends a send, and after which nobody
\* waits who did not wait before.
QuietSlot(S, p, r) ==
    LET o == S.proc[p]
    IN  /\ r.used = o.used /\ r.priv = o.priv /\ r.caller_q = o.caller_q
        /\ ~o.used => r = o
        /\ "SENDING" \in r.rts <=> "SENDING" \in o.rts
        /\ "SENDING" \in o.rts => r.sendto = o.sendto
        /\ "RECEIVING" \in r.rts => "RECEIVING" \in o.rts /\ r.getfrom = o.getfrom
        /\ "NO_PRIV" \in r.rts => "NO_PRIV" \in o.rts
        /\ r.resume => r.reqsrc = p
        /\ r.asyn \subseteq o.asyn \cup UsedIn(S)
        /\ \A id \in r.notify \ (o.notify \cup {SYSTEM}) : S.priv[id].proc_nr # NONE
        /\ p = PM => r.rts \subseteq o.rts

\* A structure after a step that leaves ownership and masks alone.
QuietPriv(S, i, r) ==
    LET o == S.priv[i]
    IN  /\ r.proc_nr = o.proc_nr /\ r.ipc_to = o.ipc_to /\ r.receiveOnly = o.receiveOnly
        /\ o.sig_mgr = PM => r.sig_mgr = PM
        /\ r.sig_mgr = SELF => r.bak_sig_mgr = o.bak_sig_mgr

Quiet(S, T) ==
    /\ T \in StateT /\ ~T.panic
    /\ \A p \in Procs : QuietSlot(S, p, T.proc[p])
    /\ \A i \in Ids : QuietPriv(S, i, T.priv[i])

\* The kinds of constants that the proofs need to tell apart.
LEMMA Names ==
    /\ PM \in Procs /\ PM \notin Others /\ Others \subseteq Procs
    /\ NONE \notin Procs /\ ANY \notin Procs /\ SELF # PM /\ NONE # ANY /\ SYSTEM \notin Procs
    /\ INIT \notin Procs /\ INIT # NONE /\ PM # NONE
    /\ \A p \in Procs : p # PM => p \in Others
    /\ PM_PRIV \in Ids /\ USER_PRIV \in Ids /\ ServiceIds \subseteq Ids /\ SYSTEM \notin Ids
    /\ PM_PRIV \notin ServiceIds /\ USER_PRIV \notin ServiceIds /\ PM_PRIV # USER_PRIV
    /\ NONE \notin Ids /\ SIGSNDELAY \in Sigs /\ SIGKMESS \in Sigs /\ Lethal \subseteq Sigs
    /\ SIGSNDELAY \notin Lethal
  BY ProcsAssumption, IdsAssumption, SignalsAssumption
  DEF Procs, Ids, ServiceIds, Sigs, NONE, ANY, SELF, SYSTEM, USER_PRIV, PM_PRIV, INIT

\* The types of slots and structures.
LEMMA Types ==
    ASSUME NEW S \in StateT
    PROVE  /\ \A p \in Procs : S.proc[p] \in Proc
           /\ \A i \in Ids : S.priv[i] \in Priv
           /\ \A p \in Procs : S.proc[p].priv \in Ids
           /\ S.pm \in Others \cup {NONE, ANY}
  BY DEF StateT, Proc

\* A quiet step keeps ownership and slots.
LEMMA QuietBase ==
    ASSUME NEW S, NEW T, Base(S), Quiet(S, T)
    PROVE  Base(T) /\ UsedIn(T) = UsedIn(S)
<1> USE Names
<1>1. UsedIn(T) = UsedIn(S)
  BY DEF UsedIn, Quiet, QuietSlot
<1>2. SlotsOk(T)
  <2>1. \A p \in Procs : ~T.proc[p].used => T.proc[p] = FreeSlot
    BY DEF Base, SlotsOk, Quiet, QuietSlot
  <2>2. T.proc[PM].used /\ T.proc[PM].priv = PM_PRIV /\ T.proc[PM].rts \subseteq {"RECEIVING"}
    BY DEF Base, SlotsOk, Quiet, QuietSlot
  <2>3. "RECEIVING" \in T.proc[PM].rts => T.proc[PM].getfrom = ANY
    BY DEF Base, SlotsOk, Quiet, QuietSlot
  <2>4. \A p \in Procs : T.proc[p].resume => T.proc[p].reqsrc = p
    BY DEF Quiet, QuietSlot
  <2> QED
    BY <2>1, <2>2, <2>3, <2>4 DEF SlotsOk
<1>3. PrivsOk(T)
  <2>0. \A p \in Procs : T.proc[p].priv = S.proc[p].priv /\ S.proc[p].priv \in Ids
    BY Types DEF Base, Quiet, QuietSlot
  <2>1. \A p \in Others : T.proc[p].priv \in ServiceIds \cup {USER_PRIV}
    BY <2>0 DEF Base, PrivsOk
  <2>2. \A p \in Procs : "NO_PRIV" \in T.proc[p].rts => T.proc[p].priv = USER_PRIV
    BY <2>0 DEF Base, PrivsOk, Quiet, QuietSlot
  <2>3. \A i \in Ids : T.priv[i].proc_nr = S.priv[i].proc_nr
    BY DEF Quiet, QuietPriv
  <2>4. \A p \in UsedIn(T) : T.proc[p].priv \in ServiceIds => T.priv[T.proc[p].priv].proc_nr = p
    BY <1>1, <2>0, <2>3 DEF Base, PrivsOk, UsedIn
  <2>5. \A i \in ServiceIds : T.priv[i].proc_nr # NONE =>
          T.priv[i].proc_nr \in UsedIn(T) /\ T.proc[T.priv[i].proc_nr].priv = i
    BY <1>1, <2>0, <2>3 DEF Base, PrivsOk, UsedIn
  <2>6. T.priv[PM_PRIV].proc_nr = PM /\ T.priv[USER_PRIV].proc_nr = INIT
    BY <2>3 DEF Base, PrivsOk
  <2>7. T.priv[USER_PRIV].sig_mgr = PM
    BY DEF Base, PrivsOk, Quiet, QuietPriv
  <2>8. ASSUME NEW i \in ServiceIds, T.priv[i].sig_mgr = SELF
        PROVE  T.priv[i].bak_sig_mgr = PM
    <3>1. S.priv[i] \in Priv
      BY Types DEF Base
    <3>2. S.priv[i].sig_mgr = SELF
      BY <2>8, <3>1 DEF Priv, Quiet, QuietPriv
    <3> QED
      BY <2>8, <3>2 DEF Base, PrivsOk, Quiet, QuietPriv
  <2> QED
    BY <2>1, <2>2, <2>4, <2>5, <2>6, <2>7, <2>8 DEF PrivsOk
<1> QED
  BY <1>1, <1>2, <1>3 DEF Base, Quiet

\* A quiet step keeps the whole invariant if it keeps the part about signals.
LEMMA QuietOk ==
    ASSUME NEW S, NEW T, Ok(S), Quiet(S, T), SignalsOk(T)
    PROVE  Ok(T)
<1> USE Names
<1>1. Base(T) /\ UsedIn(T) = UsedIn(S)
  BY QuietBase DEF Ok, Base
<1>2. MasksOk(T)
  <2>1. \A i \in Ids : /\ T.priv[i].proc_nr = S.priv[i].proc_nr /\ T.priv[i].ipc_to = S.priv[i].ipc_to
                       /\ T.priv[i].receiveOnly = S.priv[i].receiveOnly
    BY DEF Quiet, QuietPriv
  <2> QED
    BY <2>1 DEF Ok, MasksOk
<1>3. WaitsOk(T)
  BY <1>1 DEF Ok, WaitsOk, Quiet, QuietSlot
<1>4. QueuesOk(T)
  BY DEF Ok, QueuesOk, Quiet, QuietSlot
<1>5. PendingOk(T)
  <2>1. \A i \in Ids : T.priv[i].proc_nr = S.priv[i].proc_nr
    BY DEF Quiet, QuietPriv
  <2>2. ASSUME NEW p \in Procs
        PROVE  T.proc[p].asyn \subseteq UsedIn(T)
    BY <1>1 DEF Ok, PendingOk, Quiet, QuietSlot
  <2>3. ASSUME NEW p \in Procs, NEW id \in T.proc[p].notify \ {SYSTEM}
        PROVE  T.priv[id].proc_nr # NONE
    <3>1. id \in Ids
      BY <1>1, Types DEF Base, Proc
    <3>2. S.priv[id].proc_nr # NONE
      BY DEF Ok, PendingOk, Quiet, QuietSlot
    <3> QED
      BY <2>1, <3>1, <3>2
  <2> QED
    BY <2>2, <2>3 DEF PendingOk
<1> QED
  BY <1>1, <1>2, <1>3, <1>4, <1>5 DEF Ok, Base

\* Quiet steps one after the other.
LEMMA QuietTrans ==
    ASSUME NEW S, NEW T, NEW U, Base(S), Quiet(S, T), Quiet(T, U)
    PROVE  Quiet(S, U)
<1> USE Names
<1>1. UsedIn(T) = UsedIn(S) /\ Base(T)
  BY QuietBase
<1>2. ASSUME NEW p \in Procs
      PROVE  QuietSlot(S, p, U.proc[p])
  <2>1. QuietSlot(S, p, T.proc[p]) /\ QuietSlot(T, p, U.proc[p]) /\ U.proc[p] \in Proc
    BY Types DEF Quiet
  <2>2. ASSUME NEW id \in U.proc[p].notify \ (S.proc[p].notify \cup {SYSTEM})
        PROVE  S.priv[id].proc_nr # NONE
    <3>1. id \in Ids
      BY <2>1 DEF Proc
    <3>2. T.priv[id].proc_nr = S.priv[id].proc_nr
      BY <3>1 DEF Quiet, QuietPriv
    <3> QED
      BY <2>1, <3>2 DEF QuietSlot
  <2>3. U.proc[p].asyn \subseteq S.proc[p].asyn \cup UsedIn(S)
    BY <1>1, <2>1 DEF QuietSlot
  <2> QED
    BY <2>1, <2>2, <2>3 DEF QuietSlot
<1>3. \A i \in Ids : QuietPriv(S, i, U.priv[i])
  <2> SUFFICES ASSUME NEW i \in Ids PROVE QuietPriv(S, i, U.priv[i])
    OBVIOUS
  <2>1. QuietPriv(S, i, T.priv[i]) /\ QuietPriv(T, i, U.priv[i])
        /\ S.priv[i] \in Priv /\ T.priv[i] \in Priv /\ U.priv[i] \in Priv
    BY Types DEF Quiet, Base
  <2> QED
    BY <2>1 DEF QuietPriv, Priv
<1> QED
  BY <1>2, <1>3 DEF Quiet

-----------------------------------------------------------------------------
(* Flags *)

\* The fields of a slot that flags have nothing to do with.
SameRest(r, o) ==
    /\ r.used = o.used /\ r.caller_q = o.caller_q /\ r.pending = o.pending
    /\ r.resume = o.resume /\ r.reqsrc = o.reqsrc /\ r.delay = o.delay
    /\ r.notify = o.notify /\ r.asyn = o.asyn /\ r.priv = o.priv

\* A state in which only the slot p may differ.
OnlySlot(S, T, p) ==
    /\ T \in StateT /\ T.priv = S.priv /\ T.panic = S.panic /\ T.pm = S.pm
    /\ \A q \in Procs : q # p => T.proc[q] = S.proc[q]

\* Replacing one slot by another record.
LEMMA SlotReplaced ==
    ASSUME NEW S \in StateT, NEW p \in Procs, NEW r \in Proc
    PROVE  /\ OnlySlot(S, [S EXCEPT !.proc[p] = r], p)
           /\ [S EXCEPT !.proc[p] = r].proc[p] = r
  BY DEF StateT, OnlySlot

\* RTS_SET changes the flags of one slot.
LEMMA SetEffect ==
    ASSUME NEW S \in StateT, NEW p \in Procs, NEW flags \in SUBSET RtsFlags
    PROVE  LET T == Set(S, p, flags)
           IN  /\ OnlySlot(S, T, p) /\ SameRest(T.proc[p], S.proc[p])
               /\ T.proc[p].rts = S.proc[p].rts \cup flags
               /\ T.proc[p].sendto = S.proc[p].sendto /\ T.proc[p].getfrom = S.proc[p].getfrom
<1> DEFINE r == [S.proc[p] EXCEPT !.rts = @ \cup flags]
<1>1. S.proc[p] \in Proc
  BY Types
<1>2. r \in Proc /\ SameRest(r, S.proc[p]) /\ r.rts = S.proc[p].rts \cup flags
      /\ r.sendto = S.proc[p].sendto /\ r.getfrom = S.proc[p].getfrom
  BY <1>1 DEF Proc, SameRest
<1>3. Set(S, p, flags) = [S EXCEPT !.proc[p] = r]
  BY DEF Set
<1> HIDE DEF r
<1> QED
  BY <1>2, <1>3, SlotReplaced

\* RTS_UNSET changes the flags of one slot, and whom it waits for.
LEMMA UnsetEffect ==
    ASSUME NEW S \in StateT, NEW p \in Procs, NEW flags
    PROVE  LET T == Unset(S, p, flags)
           IN  /\ OnlySlot(S, T, p) /\ SameRest(T.proc[p], S.proc[p])
               /\ T.proc[p].rts = S.proc[p].rts \ flags
               /\ "SENDING" \in T.proc[p].rts => T.proc[p].sendto = S.proc[p].sendto
               /\ "RECEIVING" \in T.proc[p].rts => T.proc[p].getfrom = S.proc[p].getfrom
<1> DEFINE left == S.proc[p].rts \ flags
           r == [S.proc[p] EXCEPT !.rts = left,
                    !.sendto = IF "SENDING" \in left THEN @ ELSE NONE,
                    !.getfrom = IF "RECEIVING" \in left THEN @ ELSE NONE]
<1>1. S.proc[p] \in Proc
  BY Types
<1>2. r \in Proc /\ SameRest(r, S.proc[p]) /\ r.rts = left
      /\ ("SENDING" \in left => r.sendto = S.proc[p].sendto)
      /\ ("RECEIVING" \in left => r.getfrom = S.proc[p].getfrom)
  BY <1>1 DEF Proc, SameRest
<1>3. Unset(S, p, flags) = [S EXCEPT !.proc[p] = r]
  BY DEF Unset, StateT
<1> HIDE DEF r
<1> QED
  BY <1>2, <1>3, SlotReplaced

\* A change of one slot is quiet if it is for that slot.
LEMMA OnlySlotQuiet ==
    ASSUME NEW S, NEW T, NEW p \in Procs, Base(S), OnlySlot(S, T, p),
           QuietSlot(S, p, T.proc[p])
    PROVE  Quiet(S, T)
<1>1. \A q \in Procs : q # p => QuietSlot(S, q, T.proc[q])
  BY DEF OnlySlot, QuietSlot, Base, SlotsOk
<1>2. \A i \in Ids : QuietPriv(S, i, T.priv[i])
  BY DEF OnlySlot, QuietPriv
<1> QED
  BY <1>1, <1>2 DEF Quiet, OnlySlot, Base

\* What SignalsOk looks at is the same, or there are more notifications.
SameSignals(S, T) ==
    /\ T.pm = S.pm
    /\ "RECEIVING" \in T.proc[PM].rts => "RECEIVING" \in S.proc[PM].rts
    /\ SYSTEM \in S.proc[PM].notify => SYSTEM \in T.proc[PM].notify
    /\ \A i \in Ids : T.priv[i].sig_pending = S.priv[i].sig_pending
    /\ \A p \in Others :
         /\ T.proc[p].used = S.proc[p].used /\ T.proc[p].priv = S.proc[p].priv
         /\ T.proc[p].pending = S.proc[p].pending
         /\ \A f \in {"SIGNALED", "SIG_PENDING"} : f \in T.proc[p].rts <=> f \in S.proc[p].rts
         /\ SYSTEM \in S.proc[p].notify => SYSTEM \in T.proc[p].notify

\* Then SignalsOk still holds.
LEMMA SameSignalsOk ==
    ASSUME NEW S, NEW T, S \in StateT, SignalsOk(S), SameSignals(S, T)
    PROVE  SignalsOk(T)
<1> USE Names
<1>1. Told(S) => Told(T)
  BY DEF SameSignals, Told
<1>2. \A p \in Others : S.proc[p].priv \in Ids
  BY Types
<1> QED
  BY <1>1, <1>2 DEF SameSignals, SignalsOk

\* A process that waits for a message gets one and runs.
LEMMA WakeOk ==
    ASSUME NEW S, Ok(S), NEW q \in UsedIn(S)
    PROVE  Ok(Unset(S, q, {"RECEIVING"}))
<1> USE Names
<1> DEFINE T == Unset(S, q, {"RECEIVING"})
<1>1. q \in Procs /\ S \in StateT /\ Base(S) /\ SignalsOk(S)
  BY DEF UsedIn, Ok, Base
<1>2. /\ OnlySlot(S, T, q) /\ SameRest(T.proc[q], S.proc[q])
      /\ T.proc[q].rts = S.proc[q].rts \ {"RECEIVING"}
      /\ "SENDING" \in T.proc[q].rts => T.proc[q].sendto = S.proc[q].sendto
  BY <1>1, UnsetEffect
<1> HIDE DEF T
<1>3. QuietSlot(S, q, T.proc[q])
  BY <1>1, <1>2 DEF QuietSlot, SameRest, UsedIn, Base, SlotsOk
<1>4. Quiet(S, T)
  BY <1>1, <1>2, <1>3, OnlySlotQuiet
<1>5. SameSignals(S, T)
  BY <1>2 DEF OnlySlot, SameRest, SameSignals
<1>6. Ok(T)
  BY <1>1, <1>4, <1>5, SameSignalsOk, QuietOk
<1> QED
  BY <1>6 DEF T

-----------------------------------------------------------------------------
(* Signals *)

\* A state in which only the pending signals of the structure i and PM's loop may
\* differ.
OnlyPending(S, T, i) ==
    /\ T \in StateT /\ T.proc = S.proc /\ T.panic = S.panic
    /\ \A j \in Ids : QuietPriv(S, j, T.priv[j])
    /\ \A j \in Ids : j # i => T.priv[j].sig_pending = S.priv[j].sig_pending

SigSet == Sigs \cup {"SIGKSIG", "SIGKSIGSM"}

\* Such a step is quiet.
LEMMA OnlyPendingQuiet ==
    ASSUME NEW S, NEW T, NEW i, Base(S), OnlyPending(S, T, i)
    PROVE  Quiet(S, T)
  BY DEF OnlyPending, Quiet, QuietSlot, Base, SlotsOk

\* Adding a signal to a structure.
LEMMA AddPending ==
    ASSUME NEW S \in StateT, NEW i \in Ids, NEW sig \in SigSet
    PROVE  LET T == [S EXCEPT !.priv[i].sig_pending = @ \cup {sig}]
           IN  /\ OnlyPending(S, T, i) /\ T.pm = S.pm
               /\ T.priv[i].sig_pending = S.priv[i].sig_pending \cup {sig}
<1> DEFINE r == [S.priv[i] EXCEPT !.sig_pending = @ \cup {sig}]
           T == [S EXCEPT !.priv[i] = r]
<1>1. S.priv[i] \in Priv
  BY Types
<1>2. r \in Priv /\ r.sig_pending = S.priv[i].sig_pending \cup {sig} /\ QuietPriv(S, i, r)
  BY <1>1 DEF Priv, QuietPriv, SigSet
<1>3. [S EXCEPT !.priv[i].sig_pending = @ \cup {sig}] = T
  BY DEF StateT
<1>4. \A j \in Ids : QuietPriv(S, j, S.priv[j])
  BY DEF QuietPriv
<1> HIDE DEF r
<1>5. T \in StateT /\ T.proc = S.proc /\ T.panic = S.panic /\ T.pm = S.pm /\ T.priv[i] = r
      /\ \A j \in Ids : j # i => T.priv[j] = S.priv[j]
  BY <1>2 DEF StateT
<1> HIDE DEF T
<1>6. OnlyPending(S, T, i)
  BY <1>2, <1>4, <1>5 DEF OnlyPending
<1> QED
  BY <1>2, <1>3, <1>5, <1>6

\* The pending signals of a process have been handed over with a notification.
LEMMA TakeSigsEffect ==
    ASSUME NEW S \in StateT, NEW q \in Procs
    PROVE  LET T == TakeSigs(S, q, SYSTEM)
               i == S.proc[q].priv
           IN  /\ OnlyPending(S, T, i) /\ T.priv[i].sig_pending = {}
               /\ T.pm = IF q = PM /\ "SIGKSIG" \in S.priv[i].sig_pending THEN ANY ELSE S.pm
<1> DEFINE i == S.proc[q].priv
           r == [S.priv[i] EXCEPT !.sig_pending = {}]
           pm1 == IF q = PM /\ "SIGKSIG" \in S.priv[i].sig_pending THEN ANY ELSE S.pm
           T == [S EXCEPT !.priv[i] = r, !.pm = pm1]
<1>1. i \in Ids /\ S.priv[i] \in Priv /\ S.pm \in Others \cup {NONE, ANY}
  BY Types
<1>2. r \in Priv /\ r.sig_pending = {} /\ QuietPriv(S, i, r)
  BY <1>1 DEF Priv, QuietPriv
<1>3. TakeSigs(S, q, SYSTEM) = T
  BY DEF TakeSigs, PrivOf, StateT
<1>4. \A j \in Ids : QuietPriv(S, j, S.priv[j])
  BY DEF QuietPriv
<1>5. pm1 \in Others \cup {NONE, ANY}
  BY <1>1
<1> HIDE DEF r, pm1, i
<1>6. T \in StateT /\ T.proc = S.proc /\ T.panic = S.panic /\ T.pm = pm1 /\ T.priv[i] = r
      /\ \A j \in Ids : j # i => T.priv[j] = S.priv[j]
  BY <1>1, <1>2, <1>5 DEF StateT
<1> HIDE DEF T
<1>7. OnlyPending(S, T, i)
  BY <1>2, <1>4, <1>6 DEF OnlyPending
<1> QED
  BY <1>2, <1>3, <1>6, <1>7 DEF i, pm1

\* What a signal to a system process q changes of what SignalsOk looks at.
Signalled(S, T, q, sig) ==
    LET i == S.proc[q].priv
    IN  /\ \A p \in Procs :
             /\ T.proc[p].pending = S.proc[p].pending /\ T.proc[p].delay = S.proc[p].delay
             /\ \A f \in {"SIGNALED", "SIG_PENDING"} : f \in T.proc[p].rts <=> f \in S.proc[p].rts
             /\ SYSTEM \in S.proc[p].notify => SYSTEM \in T.proc[p].notify
        /\ \A j \in Ids : j # i => T.priv[j].sig_pending = S.priv[j].sig_pending
        /\ \/ /\ SYSTEM \in T.proc[q].notify /\ sig \in T.priv[i].sig_pending /\ T.pm = S.pm
           \/ /\ "RECEIVING" \in S.proc[q].rts /\ "RECEIVING" \notin T.proc[q].rts
              /\ T.priv[i].sig_pending = {}
              /\ q # PM => T.pm = S.pm
              /\ q = PM /\ sig = "SIGKSIG" => T.pm = ANY
        /\ \A p \in Procs : p # q => T.proc[p] = S.proc[p]

\* send_sig(): the signal is noted and a notification is pending, or the process
\* waited for it and has it.
LEMMA SendSigEffect ==
    ASSUME NEW S, Base(S), NEW q \in UsedIn(S), NEW sig \in SigSet
    PROVE  Quiet(S, send_sig(S, q, sig)) /\ Signalled(S, send_sig(S, q, sig), q, sig)
<1> USE Names
<1> DEFINE i == S.proc[q].priv
           A == [S EXCEPT !.priv[i].sig_pending = @ \cup {sig}]
           B == TakeSigs(A, q, SYSTEM)
           C == Unset(B, q, {"RECEIVING"})
           D == [A EXCEPT !.proc[q].notify = @ \cup {SYSTEM}]
<1>1. S \in StateT /\ q \in Procs /\ i \in Ids /\ S.proc[q].used
  BY Types DEF Base, UsedIn
<1>2. send_sig(S, q, sig) = IF Awaits(A, q, SYSTEM) THEN C ELSE D
  BY <1>1 DEF send_sig, mini_notify
<1>3. OnlyPending(S, A, i) /\ A.pm = S.pm /\ A.priv[i].sig_pending = S.priv[i].sig_pending \cup {sig}
  BY <1>1, AddPending
<1> HIDE DEF A
<1>4. Quiet(S, A) /\ Base(A) /\ A \in StateT /\ A.proc = S.proc /\ UsedIn(A) = UsedIn(S)
  BY <1>3, OnlyPendingQuiet, QuietBase DEF OnlyPending
<1>5. CASE Awaits(A, q, SYSTEM)
  <2>1. /\ OnlyPending(A, B, i) /\ B.priv[i].sig_pending = {}
        /\ B.pm = IF q = PM /\ "SIGKSIG" \in A.priv[i].sig_pending THEN ANY ELSE A.pm
    BY <1>1, <1>4, TakeSigsEffect
  <2> HIDE DEF B
  <2>2. Quiet(A, B) /\ Base(B) /\ B \in StateT /\ B.proc = S.proc
    BY <1>4, <2>1, OnlyPendingQuiet, QuietBase DEF OnlyPending
  <2>3. /\ OnlySlot(B, C, q) /\ SameRest(C.proc[q], B.proc[q])
        /\ C.proc[q].rts = B.proc[q].rts \ {"RECEIVING"}
        /\ "SENDING" \in C.proc[q].rts => C.proc[q].sendto = B.proc[q].sendto
    BY <1>1, <2>2, UnsetEffect
  <2> HIDE DEF C
  <2>4. QuietSlot(B, q, C.proc[q])
    BY <1>1, <2>2, <2>3 DEF QuietSlot, SameRest, UsedIn, Base, SlotsOk
  <2>5. Quiet(B, C)
    BY <1>1, <2>2, <2>3, <2>4, OnlySlotQuiet
  <2>6. Quiet(S, C)
    BY <1>4, <2>2, <2>5, QuietTrans
  <2>7. Signalled(S, C, q, sig)
    <3>1. \A p \in Procs : p # q => C.proc[p] = S.proc[p]
      BY <2>2, <2>3 DEF OnlySlot
    <3>2. C.priv = B.priv /\ C.pm = B.pm
      BY <2>3 DEF OnlySlot
    <3>3. \A j \in Ids : j # i => C.priv[j].sig_pending = S.priv[j].sig_pending
      BY <1>3, <2>1, <3>2 DEF OnlyPending
    <3>4. "RECEIVING" \in S.proc[q].rts /\ "RECEIVING" \notin C.proc[q].rts
      BY <1>4, <1>5, <2>3 DEF Awaits
    <3>5. /\ C.proc[q].pending = S.proc[q].pending /\ C.proc[q].delay = S.proc[q].delay
          /\ C.proc[q].notify = S.proc[q].notify
          /\ \A f \in {"SIGNALED", "SIG_PENDING"} : f \in C.proc[q].rts <=> f \in S.proc[q].rts
      BY <2>2, <2>3 DEF SameRest
    <3> QED
      BY <1>3, <2>1, <3>1, <3>2, <3>3, <3>4, <3>5 DEF Signalled
  <2> QED
    BY <1>2, <1>5, <2>6, <2>7
<1>6. CASE ~Awaits(A, q, SYSTEM)
  <2> DEFINE r == [A.proc[q] EXCEPT !.notify = @ \cup {SYSTEM}]
  <2>1. A.proc[q] \in Proc
    BY <1>1, <1>4, Types
  <2>2. /\ r \in Proc /\ r.used = A.proc[q].used /\ r.rts = A.proc[q].rts /\ r.sendto = A.proc[q].sendto
        /\ r.getfrom = A.proc[q].getfrom /\ r.caller_q = A.proc[q].caller_q
        /\ r.pending = A.proc[q].pending /\ r.resume = A.proc[q].resume
        /\ r.reqsrc = A.proc[q].reqsrc /\ r.delay = A.proc[q].delay
        /\ r.notify = A.proc[q].notify \cup {SYSTEM}
        /\ r.asyn = A.proc[q].asyn /\ r.priv = A.proc[q].priv
    BY <2>1 DEF Proc
  <2>3. D = [A EXCEPT !.proc[q] = r]
    BY <1>4 DEF StateT
  <2> HIDE DEF r, D
  <2>4. OnlySlot(A, D, q) /\ D.proc[q] = r
    BY <1>1, <1>4, <2>2, <2>3, SlotReplaced
  <2>5. QuietSlot(A, q, D.proc[q])
    BY <1>1, <1>4, <2>2, <2>4 DEF QuietSlot, Base, SlotsOk
  <2>6. Quiet(A, D)
    BY <1>1, <1>4, <2>4, <2>5, OnlySlotQuiet
  <2>7. Quiet(S, D)
    BY <1>4, <2>6, QuietTrans
  <2>8. Signalled(S, D, q, sig)
    BY <1>1, <1>3, <1>4, <2>2, <2>4 DEF Signalled, OnlySlot, OnlyPending
  <2> QED
    BY <1>2, <1>6, <2>7, <2>8
<1> QED
  BY <1>5, <1>6

\* A change of one slot that leaves its flags, and what SignalsOk looks at, alone.
LEMMA CalmSlot ==
    ASSUME NEW S, NEW T, NEW p \in Procs, Ok(S), OnlySlot(S, T, p),
           QuietSlot(S, p, T.proc[p]), T.proc[p].pending = S.proc[p].pending,
           \A f \in {"SIGNALED", "SIG_PENDING"} : f \in T.proc[p].rts <=> f \in S.proc[p].rts,
           SYSTEM \in S.proc[p].notify => SYSTEM \in T.proc[p].notify
    PROVE  Ok(T) /\ Quiet(S, T)
<1> USE Names
<1>1. S \in StateT /\ Base(S) /\ SignalsOk(S)
  BY DEF Ok, Base
<1>2. Quiet(S, T)
  BY <1>1, OnlySlotQuiet
<1>3. SameSignals(S, T)
  BY DEF OnlySlot, QuietSlot, SameSignals
<1> QED
  BY <1>1, <1>2, <1>3, SameSignalsOk, QuietOk

\* cause_sig() for a process that PM manages.
LEMMA CauseManagedOk ==
    ASSUME NEW S, Ok(S), NEW p \in UsedIn(S), p \in Others, NEW sig \in Sigs
    PROVE  Ok(CauseManaged(S, p, sig))
<1> USE Names
<1> DEFINE r == [S.proc[p] EXCEPT !.pending = @ \cup {sig}]
           A == [S EXCEPT !.proc[p].pending = @ \cup {sig}]
           B == Set(A, p, {"SIGNALED", "SIG_PENDING"})
           T == send_sig(B, PM, "SIGKSIG")
<1>1. S \in StateT /\ Base(S) /\ SignalsOk(S) /\ p \in Procs /\ S.proc[p] \in Proc
  BY Types DEF Ok, Base
<1>2. CauseManaged(S, p, sig) = IF sig \in S.proc[p].pending THEN S
                                ELSE IF "SIGNALED" \in A.proc[p].rts THEN A ELSE T
  BY DEF CauseManaged
<1>3. /\ r \in Proc
      /\ r.used = S.proc[p].used /\ r.rts = S.proc[p].rts /\ r.sendto = S.proc[p].sendto
      /\ r.getfrom = S.proc[p].getfrom /\ r.caller_q = S.proc[p].caller_q
      /\ r.pending = S.proc[p].pending \cup {sig} /\ r.resume = S.proc[p].resume
      /\ r.reqsrc = S.proc[p].reqsrc /\ r.notify = S.proc[p].notify
      /\ r.asyn = S.proc[p].asyn /\ r.priv = S.proc[p].priv
  BY <1>1 DEF Proc
<1>4. A = [S EXCEPT !.proc[p] = r]
  BY <1>1 DEF StateT
<1> HIDE DEF r, A
<1>5. OnlySlot(S, A, p) /\ A.proc[p] = r
  BY <1>1, <1>3, <1>4, SlotReplaced
<1>6. QuietSlot(S, p, A.proc[p])
  BY <1>1, <1>3, <1>5 DEF QuietSlot, Base, SlotsOk, UsedIn
<1>7. Quiet(S, A) /\ Base(A) /\ A \in StateT
  BY <1>1, <1>5, <1>6, OnlySlotQuiet, QuietBase DEF Base
<1>8. CASE sig \in S.proc[p].pending
  BY <1>2, <1>8
<1>9. CASE sig \notin S.proc[p].pending /\ "SIGNALED" \in A.proc[p].rts
  <2>1. Told(S) => Told(A)
    BY <1>5 DEF Told, OnlySlot
  <2>2. SignalsOk(A)
    BY <1>1, <1>3, <1>5, <1>9, <2>1 DEF SignalsOk, OnlySlot
  <2> QED
    BY <1>2, <1>7, <1>9, <2>2, QuietOk
<1>10. CASE sig \notin S.proc[p].pending /\ "SIGNALED" \notin A.proc[p].rts
  <2>1. /\ OnlySlot(A, B, p) /\ SameRest(B.proc[p], A.proc[p])
        /\ B.proc[p].rts = A.proc[p].rts \cup {"SIGNALED", "SIG_PENDING"}
        /\ B.proc[p].sendto = A.proc[p].sendto /\ B.proc[p].getfrom = A.proc[p].getfrom
    BY <1>1, <1>7, SetEffect DEF RtsFlags
  <2> HIDE DEF B
  <2>2. QuietSlot(A, p, B.proc[p])
    BY <1>1, <1>3, <1>5, <1>7, <2>1 DEF QuietSlot, SameRest, UsedIn, Base, SlotsOk
  <2>3. Quiet(A, B) /\ Base(B) /\ B \in StateT
    BY <1>1, <1>7, <2>1, <2>2, OnlySlotQuiet, QuietBase DEF Base
  <2>4. PM \in UsedIn(B) /\ B.proc[PM].priv = PM_PRIV
    BY <2>3 DEF Base, SlotsOk, UsedIn
  <2>5. Quiet(B, T) /\ Signalled(B, T, PM, "SIGKSIG")
    BY <2>3, <2>4, SendSigEffect DEF SigSet
  <2> HIDE DEF T
  <2>6. Quiet(S, B)
    BY <1>1, <1>7, <2>3, QuietTrans
  <2>7. Quiet(S, T)
    BY <1>1, <2>5, <2>6, QuietTrans
  <2>8. /\ B.proc[PM] = S.proc[PM] /\ B.priv = S.priv /\ B.pm = S.pm
        /\ B.proc[p].pending # {} /\ {"SIGNALED", "SIG_PENDING"} \subseteq B.proc[p].rts
        /\ \A q \in Others : q # p => B.proc[q] = S.proc[q]
        /\ B.proc[p].priv = S.proc[p].priv /\ B.proc[p].notify = S.proc[p].notify
        /\ B.proc[p].used
    BY <1>1, <1>3, <1>5, <2>1 DEF OnlySlot, SameRest, UsedIn
  <2>9. Told(T) /\ ("RECEIVING" \in T.proc[PM].rts => T.pm = NONE)
    BY <1>1, <2>4, <2>5, <2>8 DEF Signalled, Told, Quiet, QuietSlot, SignalsOk
  <2>10. T.pm = B.pm \/ (B.pm = NONE /\ T.pm = ANY)
    BY <1>1, <2>4, <2>5, <2>8 DEF Signalled, SignalsOk
  <2>11. T.pm \in Others => T.proc[T.pm].used
    BY <1>1, <2>5, <2>8, <2>10 DEF SignalsOk, Quiet, QuietSlot
  <2>12. ASSUME NEW q \in Others
         PROVE  /\ (T.proc[q].pending # {}) <=> ("SIGNALED" \in T.proc[q].rts)
                /\ "SIGNALED" \in T.proc[q].rts => "SIG_PENDING" \in T.proc[q].rts
                /\ "SIG_PENDING" \in T.proc[q].rts => "SIGNALED" \in T.proc[q].rts \/ T.pm = q
                /\ T.proc[q].priv \in ServiceIds /\ T.priv[T.proc[q].priv].sig_pending # {}
                   => SYSTEM \in T.proc[q].notify
    <3>1. T.proc[q] = B.proc[q]
      BY <2>5 DEF Signalled
    <3>2. B.proc[q].priv \in ServiceIds => T.priv[B.proc[q].priv].sig_pending = B.priv[B.proc[q].priv].sig_pending
      BY <2>4, <2>5 DEF Signalled
    <3>3. CASE q = p
      BY <1>1, <2>8, <3>1, <3>2, <3>3 DEF SignalsOk
    <3>4. CASE q # p
      BY <1>1, <2>8, <2>10, <3>1, <3>2, <3>4 DEF SignalsOk
    <3> QED
      BY <3>3, <3>4
  <2>13. SignalsOk(T)
    BY <2>9, <2>11, <2>12 DEF SignalsOk
  <2> QED
    BY <1>2, <1>10, <2>7, <2>13, QuietOk
<1> QED
  BY <1>8, <1>9, <1>10

\* A lethal signal to a process that manages its own signals: PM takes over.
LEMMA CauseLethalOk ==
    ASSUME NEW S, Ok(S), NEW p \in UsedIn(S), p \in Others, NEW sig \in Sigs,
           PrivOf(S, p).sig_mgr = SELF
    PROVE  Ok(CauseLethal(S, p, sig))
<1> USE Names
<1> DEFINE i == S.proc[p].priv
           r == [S.priv[i] EXCEPT !.sig_mgr = PM, !.bak_sig_mgr = NONE]
           A == [S EXCEPT !.priv[i].sig_mgr = PM, !.priv[i].bak_sig_mgr = NONE]
           B == Unset(A, PM, {"NO_PRIV"})
<1>1. /\ S \in StateT /\ Base(S) /\ SignalsOk(S) /\ p \in Procs
      /\ i \in Ids /\ S.priv[i] \in Priv /\ S.priv[i].sig_mgr = SELF
  BY Types DEF Ok, Base, PrivOf
<1>2. i \in ServiceIds /\ S.priv[i].bak_sig_mgr = PM
  BY <1>1 DEF Ok, PrivsOk
<1>3. CauseLethal(S, p, sig) = CauseManaged(B, p, sig)
  BY <1>2 DEF CauseLethal, PrivOf
<1>4. r \in Priv /\ QuietPriv(S, i, r) /\ r.sig_pending = S.priv[i].sig_pending
  BY <1>1 DEF Priv, QuietPriv
<1>5. A = [S EXCEPT !.priv[i] = r]
  BY <1>1 DEF StateT
<1> HIDE DEF r, A
<1>6. /\ A \in StateT /\ A.proc = S.proc /\ A.panic = S.panic /\ A.pm = S.pm /\ A.priv[i] = r
      /\ \A j \in Ids : j # i => A.priv[j] = S.priv[j]
  BY <1>1, <1>4, <1>5 DEF StateT
<1> HIDE DEF i
<1>7. OnlyPending(S, A, i)
  BY <1>4, <1>6 DEF OnlyPending, QuietPriv
<1>8. Quiet(S, A)
  BY <1>1, <1>7, OnlyPendingQuiet
<1>9. SameSignals(S, A)
  BY <1>4, <1>6 DEF SameSignals
<1>10. Ok(A) /\ UsedIn(A) = UsedIn(S)
  BY <1>1, <1>6, <1>8, <1>9, SameSignalsOk, QuietOk DEF UsedIn
<1>11. /\ OnlySlot(A, B, PM) /\ SameRest(B.proc[PM], A.proc[PM])
       /\ B.proc[PM].rts = A.proc[PM].rts \ {"NO_PRIV"}
       /\ "SENDING" \in B.proc[PM].rts => B.proc[PM].sendto = A.proc[PM].sendto
       /\ "RECEIVING" \in B.proc[PM].rts => B.proc[PM].getfrom = A.proc[PM].getfrom
  BY <1>6, UnsetEffect
<1> HIDE DEF B
<1>12. QuietSlot(A, PM, B.proc[PM])
  BY <1>10, <1>11 DEF QuietSlot, SameRest, UsedIn, Ok, SlotsOk
<1>13. Ok(B) /\ UsedIn(B) = UsedIn(S)
  <2>1. B.proc[PM].pending = A.proc[PM].pending /\ B.proc[PM].notify = A.proc[PM].notify
    BY <1>11 DEF SameRest
  <2>2. Ok(B) /\ Quiet(A, B)
    BY <1>10, <1>11, <1>12, <2>1, CalmSlot
  <2> QED
    BY <1>10, <2>2, QuietBase DEF Ok, Base
<1> QED
  BY <1>3, <1>13, CauseManagedOk

\* cause_sig(), for any process but PM.
LEMMA CauseSigOk ==
    ASSUME NEW S, Ok(S), NEW p \in UsedIn(S), p \in Others, NEW sig \in Sigs
    PROVE  Ok(cause_sig(S, p, sig))
<1> USE Names
<1>1. CASE PrivOf(S, p).sig_mgr # SELF
  BY <1>1, CauseManagedOk DEF cause_sig
<1>2. CASE PrivOf(S, p).sig_mgr = SELF /\ sig \in Lethal
  BY <1>2, CauseLethalOk DEF cause_sig
<1>3. CASE PrivOf(S, p).sig_mgr = SELF /\ sig \notin Lethal
  <2> DEFINE i == S.proc[p].priv
             A == [S EXCEPT !.priv[i].sig_pending = @ \cup {sig}]
             T == send_sig(A, p, "SIGKSIGSM")
  <2>1. /\ S \in StateT /\ Base(S) /\ SignalsOk(S) /\ p \in Procs
        /\ i \in Ids /\ S.priv[i] \in Priv /\ S.priv[i].sig_mgr = SELF
    BY <1>3, Types DEF Ok, Base, PrivOf
  <2>2. i \in ServiceIds /\ S.priv[i].proc_nr = p
    BY <2>1 DEF Ok, PrivsOk
  <2>3. cause_sig(S, p, sig) = T
    BY <1>3 DEF cause_sig
  <2>4. OnlyPending(S, A, i) /\ A.pm = S.pm
    BY <2>1, AddPending DEF SigSet
  <2> HIDE DEF A
  <2>5. Quiet(S, A) /\ Base(A) /\ UsedIn(A) = UsedIn(S) /\ A.proc = S.proc
    BY <2>1, <2>4, OnlyPendingQuiet, QuietBase DEF OnlyPending
  <2>6. Quiet(A, T) /\ Signalled(A, T, p, "SIGKSIGSM")
    BY <2>5, SendSigEffect DEF SigSet
  <2> HIDE DEF T
  <2>7. Quiet(S, T) /\ T.pm = S.pm
    BY <2>1, <2>4, <2>5, <2>6, QuietTrans DEF Signalled
  <2>8. \A j \in Ids : j # i => T.priv[j].sig_pending = S.priv[j].sig_pending
    BY <2>4, <2>5, <2>6 DEF Signalled, OnlyPending
  <2>9. \A q \in Procs : q # p => T.proc[q] = S.proc[q]
    BY <2>5, <2>6 DEF Signalled
  <2>10. Told(S) => Told(T)
    BY <2>2, <2>7, <2>8, <2>9 DEF Told
  <2>11. /\ T.proc[p].pending = S.proc[p].pending /\ T.proc[p].priv = i
         /\ \A f \in {"SIGNALED", "SIG_PENDING"} : f \in T.proc[p].rts <=> f \in S.proc[p].rts
    BY <2>1, <2>5, <2>6, <2>7 DEF Signalled, Quiet, QuietSlot
  <2>12. T.priv[i].sig_pending # {} => SYSTEM \in T.proc[p].notify
    BY <2>5, <2>6 DEF Signalled
  <2>13. \A q \in Others : q # p /\ S.proc[q].priv \in ServiceIds => S.proc[q].priv # i
    BY <2>1, <2>2 DEF Ok, PrivsOk, SlotsOk, FreeSlot, UsedIn
  <2>14. T.pm \in Others => T.proc[T.pm].used
    BY <2>1, <2>7 DEF SignalsOk, Quiet, QuietSlot
  <2> HIDE DEF i
  <2>15. SignalsOk(T)
    <3>1. ASSUME NEW q \in Others, q # p
          PROVE  /\ (T.proc[q].pending # {}) <=> ("SIGNALED" \in T.proc[q].rts)
                 /\ "SIGNALED" \in T.proc[q].rts => "SIG_PENDING" \in T.proc[q].rts /\ Told(T)
                 /\ "SIG_PENDING" \in T.proc[q].rts => "SIGNALED" \in T.proc[q].rts \/ T.pm = q
                 /\ T.proc[q].priv \in ServiceIds /\ T.priv[T.proc[q].priv].sig_pending # {}
                    => SYSTEM \in T.proc[q].notify
      BY <2>1, <2>7, <2>8, <2>9, <2>10, <2>13, <3>1 DEF SignalsOk
    <3>2. /\ (T.proc[p].pending # {}) <=> ("SIGNALED" \in T.proc[p].rts)
          /\ "SIGNALED" \in T.proc[p].rts => "SIG_PENDING" \in T.proc[p].rts /\ Told(T)
          /\ "SIG_PENDING" \in T.proc[p].rts => "SIGNALED" \in T.proc[p].rts \/ T.pm = p
          /\ T.proc[p].priv \in ServiceIds /\ T.priv[T.proc[p].priv].sig_pending # {}
             => SYSTEM \in T.proc[p].notify
      BY <2>1, <2>7, <2>10, <2>11, <2>12 DEF SignalsOk
    <3>3. "RECEIVING" \in T.proc[PM].rts => T.pm = NONE
      BY <2>1, <2>7, <2>9 DEF SignalsOk
    <3> QED
      BY <2>14, <3>1, <3>2, <3>3 DEF SignalsOk
  <2> QED
    BY <2>3, <2>7, <2>15, QuietOk
<1> QED
  BY <1>1, <1>2, <1>3

\* sig_delay_done().
LEMMA SigDelayDoneOk ==
    ASSUME NEW S, Ok(S), NEW p \in UsedIn(S), p \in Others
    PROVE  Ok(sig_delay_done(S, p))
<1> USE Names
<1> DEFINE r == [S.proc[p] EXCEPT !.delay = FALSE]
           A == [S EXCEPT !.proc[p].delay = FALSE]
<1>1. S \in StateT /\ p \in Procs /\ S.proc[p] \in Proc
  BY Types DEF Ok
<1>2. /\ r \in Proc
      /\ r.used = S.proc[p].used /\ r.rts = S.proc[p].rts /\ r.sendto = S.proc[p].sendto
      /\ r.getfrom = S.proc[p].getfrom /\ r.caller_q = S.proc[p].caller_q
      /\ r.pending = S.proc[p].pending /\ r.resume = S.proc[p].resume
      /\ r.reqsrc = S.proc[p].reqsrc /\ r.notify = S.proc[p].notify
      /\ r.asyn = S.proc[p].asyn /\ r.priv = S.proc[p].priv
  BY <1>1 DEF Proc
<1>3. A = [S EXCEPT !.proc[p] = r]
  BY <1>1 DEF StateT
<1> HIDE DEF r, A
<1>4. OnlySlot(S, A, p) /\ A.proc[p] = r
  BY <1>1, <1>2, <1>3, SlotReplaced
<1>5. QuietSlot(S, p, A.proc[p])
  BY <1>2, <1>4 DEF QuietSlot, Ok, SlotsOk, UsedIn
<1>6. Ok(A) /\ Quiet(S, A)
  BY <1>1, <1>2, <1>4, <1>5, CalmSlot
<1>7. p \in UsedIn(A)
  BY <1>1, <1>2, <1>4 DEF UsedIn
<1>8. sig_delay_done(S, p) = cause_sig(A, p, SIGSNDELAY)
  BY DEF sig_delay_done, A
<1> QED
  BY <1>6, <1>7, <1>8, CauseSigOk

-----------------------------------------------------------------------------
(* Notifications, asynchronous messages and kernel calls *)

\* The fields of a slot that only signals, sends and receives change.
SameWaits(r, o) ==
    /\ r.used = o.used /\ r.sendto = o.sendto /\ r.getfrom = o.getfrom /\ r.caller_q = o.caller_q
    /\ r.pending = o.pending /\ r.priv = o.priv
    /\ \A f \in {"SENDING", "RECEIVING", "SIGNALED", "SIG_PENDING", "NO_PRIV"} :
         f \in r.rts <=> f \in o.rts

\* A slot is replaced by one with the same of those fields.
LEMMA SlotReplacedOk ==
    ASSUME NEW S, Ok(S), NEW p \in UsedIn(S), NEW r \in Proc, SameWaits(r, S.proc[p]),
           r.resume => r.reqsrc = p,
           r.asyn \subseteq S.proc[p].asyn \cup UsedIn(S),
           \A id \in r.notify \ (S.proc[p].notify \cup {SYSTEM}) : S.priv[id].proc_nr # NONE,
           SYSTEM \in S.proc[p].notify => SYSTEM \in r.notify,
           p = PM => r.rts \subseteq S.proc[p].rts
    PROVE  /\ Ok([S EXCEPT !.proc[p] = r]) /\ UsedIn([S EXCEPT !.proc[p] = r]) = UsedIn(S)
<1> USE Names
<1> DEFINE T == [S EXCEPT !.proc[p] = r]
<1>1. S \in StateT /\ Base(S) /\ p \in Procs /\ S.proc[p].used
  BY DEF Ok, Base, UsedIn
<1>2. OnlySlot(S, T, p) /\ T.proc[p] = r
  BY <1>1, SlotReplaced
<1> HIDE DEF T
<1>3. QuietSlot(S, p, T.proc[p])
  BY <1>1, <1>2 DEF QuietSlot, SameWaits
<1>4. Ok(T) /\ Quiet(S, T)
  BY <1>1, <1>2, <1>3, CalmSlot DEF SameWaits
<1>5. UsedIn(T) = UsedIn(S)
  BY <1>1, <1>4, QuietBase
<1> QED
  BY <1>4, <1>5 DEF T

\* mini_notify() by a process that owns the structure id.
LEMMA MiniNotifyOk ==
    ASSUME NEW S, Ok(S), NEW from, NEW id \in Ids, S.priv[id].proc_nr # NONE, NEW q \in UsedIn(S)
    PROVE  Ok(mini_notify(S, from, id, q))
<1> USE Names
<1>1. S \in StateT /\ q \in Procs /\ S.proc[q] \in Proc /\ SlotsOk(S)
  BY Types DEF Ok, UsedIn
<1>2. CASE Awaits(S, q, from)
  <2>1. mini_notify(S, from, id, q) = Unset(S, q, {"RECEIVING"})
    BY <1>2 DEF mini_notify, TakeSigs
  <2> QED
    BY <2>1, WakeOk
<1>3. CASE ~Awaits(S, q, from)
  <2> DEFINE r == [S.proc[q] EXCEPT !.notify = @ \cup {id}]
  <2>1. /\ r \in Proc /\ SameWaits(r, S.proc[q]) /\ r.resume = S.proc[q].resume
        /\ r.reqsrc = S.proc[q].reqsrc /\ r.asyn = S.proc[q].asyn
        /\ r.notify = S.proc[q].notify \cup {id} /\ r.rts = S.proc[q].rts
    BY <1>1 DEF Proc, SameWaits
  <2>2. mini_notify(S, from, id, q) = [S EXCEPT !.proc[q] = r]
    BY <1>1, <1>3 DEF mini_notify, StateT
  <2> HIDE DEF r
  <2> QED
    BY <1>1, <2>1, <2>2, SlotReplacedOk DEF SlotsOk
<1> QED
  BY <1>2, <1>3

\* An asynchronous message of p is pending at q.
LEMMA AsynOk ==
    ASSUME NEW S, Ok(S), NEW p \in UsedIn(S), NEW q \in UsedIn(S)
    PROVE  Ok([S EXCEPT !.proc[q].asyn = @ \cup {p}])
<1> USE Names
<1> DEFINE r == [S.proc[q] EXCEPT !.asyn = @ \cup {p}]
<1>1. S \in StateT /\ p \in Procs /\ q \in Procs /\ S.proc[q] \in Proc /\ SlotsOk(S)
  BY Types DEF Ok, UsedIn
<1>2. /\ r \in Proc /\ SameWaits(r, S.proc[q]) /\ r.resume = S.proc[q].resume
      /\ r.reqsrc = S.proc[q].reqsrc /\ r.asyn = S.proc[q].asyn \cup {p}
      /\ r.notify = S.proc[q].notify /\ r.rts = S.proc[q].rts
  BY <1>1 DEF Proc, SameWaits
<1>3. [S EXCEPT !.proc[q].asyn = @ \cup {p}] = [S EXCEPT !.proc[q] = r]
  BY <1>1 DEF StateT
<1> HIDE DEF r
<1> QED
  BY <1>1, <1>2, <1>3, SlotReplacedOk DEF SlotsOk

\* A call waits for VM, with the request of its caller.
LEMMA SuspendedOk ==
    ASSUME NEW S, Ok(S), NEW p \in UsedIn(S), p \in Others
    PROVE  Ok(Suspended(S, p))
<1> USE Names
<1> DEFINE r == [S.proc[p] EXCEPT !.rts = @ \cup {"VMREQUEST"}, !.resume = TRUE, !.reqsrc = p]
<1>1. S \in StateT /\ p \in Procs /\ S.proc[p] \in Proc /\ SlotsOk(S)
  BY Types DEF Ok, UsedIn
<1>2. /\ r \in Proc /\ SameWaits(r, S.proc[p]) /\ r.reqsrc = p /\ r.asyn = S.proc[p].asyn
      /\ r.notify = S.proc[p].notify
  BY <1>1 DEF Proc, SameWaits, RtsFlags
<1>3. Suspended(S, p) = [S EXCEPT !.proc[p] = r]
  BY <1>1 DEF Suspended, Set, StateT
<1> HIDE DEF r
<1> QED
  BY <1>1, <1>2, <1>3, SlotReplacedOk

\* A call is over.
LEMMA FinishedOk ==
    ASSUME NEW S, Ok(S), NEW p \in UsedIn(S)
    PROVE  Ok(Finished(S, p)) /\ UsedIn(Finished(S, p)) = UsedIn(S)
<1> USE Names
<1> DEFINE r == [S.proc[p] EXCEPT !.resume = FALSE, !.reqsrc = NONE]
<1>1. S \in StateT /\ p \in Procs /\ S.proc[p] \in Proc /\ SlotsOk(S)
  BY Types DEF Ok, UsedIn
<1>2. /\ r \in Proc /\ SameWaits(r, S.proc[p]) /\ ~r.resume /\ r.asyn = S.proc[p].asyn
      /\ r.notify = S.proc[p].notify /\ r.rts = S.proc[p].rts
  BY <1>1 DEF Proc, SameWaits
<1>3. Finished(S, p) = [S EXCEPT !.proc[p] = r]
  BY <1>1 DEF Finished, StateT
<1> HIDE DEF r
<1> QED
  BY <1>1, <1>2, <1>3, SlotReplacedOk

\* VM has answered.
LEMMA VmReplyOk ==
    ASSUME NEW S, Ok(S), NEW p \in UsedIn(S)
    PROVE  Ok(Unset(S, p, {"VMREQUEST"}))
<1> USE Names
<1> DEFINE T == Unset(S, p, {"VMREQUEST"})
<1>1. S \in StateT /\ p \in Procs /\ SlotsOk(S) /\ S.proc[p].used
  BY DEF Ok, UsedIn
<1>2. /\ OnlySlot(S, T, p) /\ SameRest(T.proc[p], S.proc[p])
      /\ T.proc[p].rts = S.proc[p].rts \ {"VMREQUEST"}
      /\ "SENDING" \in T.proc[p].rts => T.proc[p].sendto = S.proc[p].sendto
      /\ "RECEIVING" \in T.proc[p].rts => T.proc[p].getfrom = S.proc[p].getfrom
  BY <1>1, UnsetEffect
<1> HIDE DEF T
<1>3. QuietSlot(S, p, T.proc[p])
  BY <1>1, <1>2 DEF QuietSlot, SameRest, SlotsOk
<1>4. Ok(T)
  BY <1>1, <1>2, <1>3, CalmSlot DEF SameRest
<1> QED
  BY <1>4 DEF T

\* PM wants to stop a process.
LEMMA StopDelayedOk ==
    ASSUME NEW S, Ok(S), NEW p \in UsedIn(S)
    PROVE  Ok([S EXCEPT !.proc[p].delay = TRUE])
<1> USE Names
<1> DEFINE r == [S.proc[p] EXCEPT !.delay = TRUE]
<1>1. S \in StateT /\ p \in Procs /\ S.proc[p] \in Proc /\ SlotsOk(S)
  BY Types DEF Ok, UsedIn
<1>2. /\ r \in Proc /\ SameWaits(r, S.proc[p]) /\ r.resume = S.proc[p].resume
      /\ r.reqsrc = S.proc[p].reqsrc /\ r.asyn = S.proc[p].asyn
      /\ r.notify = S.proc[p].notify /\ r.rts = S.proc[p].rts
  BY <1>1 DEF Proc, SameWaits
<1>3. [S EXCEPT !.proc[p].delay = TRUE] = [S EXCEPT !.proc[p] = r]
  BY <1>1 DEF StateT
<1> HIDE DEF r
<1> QED
  BY <1>1, <1>2, <1>3, SlotReplacedOk DEF SlotsOk

-----------------------------------------------------------------------------
(* Sending and receiving *)

\* The invariant without the part about signals.
Still(S) == Base(S) /\ MasksOk(S) /\ WaitsOk(S) /\ QueuesOk(S) /\ PendingOk(S)

\* A step that changes only who waits for whom.
WaitStep(S, T) ==
    /\ T \in StateT /\ T.priv = S.priv /\ T.panic = S.panic /\ T.pm = S.pm
    /\ \A p \in Procs :
         /\ T.proc[p].used = S.proc[p].used /\ T.proc[p].priv = S.proc[p].priv
         /\ T.proc[p].pending = S.proc[p].pending /\ T.proc[p].resume = S.proc[p].resume
         /\ T.proc[p].reqsrc = S.proc[p].reqsrc /\ T.proc[p].notify = S.proc[p].notify
         /\ T.proc[p].asyn = S.proc[p].asyn
         /\ \A f \in {"SIGNALED", "SIG_PENDING", "NO_PRIV"} : f \in T.proc[p].rts <=> f \in S.proc[p].rts
         /\ ~S.proc[p].used => T.proc[p] = S.proc[p]
    /\ T.proc[PM].rts \subseteq S.proc[PM].rts \cup {"RECEIVING"}
    /\ "RECEIVING" \in T.proc[PM].rts => T.proc[PM].getfrom = ANY

\* It keeps everything but the parts about waiting.
LEMMA WaitStepStill ==
    ASSUME NEW S, NEW T, Base(S), MasksOk(S), PendingOk(S), WaitStep(S, T),
           WaitsOk(T), QueuesOk(T)
    PROVE  Still(T) /\ UsedIn(T) = UsedIn(S)
<1> USE Names
<1>1. UsedIn(T) = UsedIn(S)
  BY DEF UsedIn, WaitStep
<1>2. SlotsOk(T)
  <2>1. \A p \in Procs : ~T.proc[p].used => T.proc[p] = FreeSlot
    BY DEF Base, SlotsOk, WaitStep
  <2>2. T.proc[PM].used /\ T.proc[PM].priv = PM_PRIV /\ T.proc[PM].rts \subseteq {"RECEIVING"}
    BY DEF Base, SlotsOk, WaitStep
  <2>3. \A p \in Procs : T.proc[p].resume => T.proc[p].reqsrc = p
    BY DEF Base, SlotsOk, WaitStep
  <2> QED
    BY <2>1, <2>2, <2>3 DEF SlotsOk, WaitStep
<1>3. PrivsOk(T)
  <2>1. \A p \in Procs : T.proc[p].priv = S.proc[p].priv
    BY DEF WaitStep
  <2>2. \A p \in Procs : "NO_PRIV" \in T.proc[p].rts => T.proc[p].priv = USER_PRIV
    BY <2>1 DEF Base, PrivsOk, WaitStep
  <2>3. T.priv = S.priv
    BY DEF WaitStep
  <2>4. \A i \in ServiceIds : T.priv[i].proc_nr # NONE =>
          T.priv[i].proc_nr \in UsedIn(T) /\ T.proc[T.priv[i].proc_nr].priv = i
    BY <1>1, <2>1, <2>3 DEF Base, PrivsOk, UsedIn
  <2>5. \A p \in UsedIn(T) : T.proc[p].priv \in ServiceIds => T.priv[T.proc[p].priv].proc_nr = p
    BY <1>1, <2>1, <2>3 DEF Base, PrivsOk, UsedIn
  <2>6. \A p \in Others : T.proc[p].priv \in ServiceIds \cup {USER_PRIV}
    BY <2>1 DEF Base, PrivsOk
  <2> QED
    BY <2>2, <2>3, <2>4, <2>5, <2>6 DEF Base, PrivsOk
<1>4. MasksOk(T)
  BY DEF WaitStep, MasksOk
<1>5. PendingOk(T)
  BY <1>1 DEF WaitStep, PendingOk
<1> QED
  BY <1>1, <1>2, <1>3, <1>4, <1>5 DEF Still, Base, WaitStep

\* It keeps the whole invariant if PM does not wait inside its loop.
LEMMA WaitStepOk ==
    ASSUME NEW S, NEW T, Ok(S), WaitStep(S, T), WaitsOk(T), QueuesOk(T),
           "RECEIVING" \in T.proc[PM].rts => T.pm = NONE
    PROVE  Ok(T) /\ UsedIn(T) = UsedIn(S)
<1> USE Names
<1>1. Still(T) /\ UsedIn(T) = UsedIn(S)
  BY WaitStepStill DEF Ok, Base
<1>2. Told(S) => Told(T)
  BY DEF WaitStep, Told
<1>3. SignalsOk(T)
  BY <1>2 DEF Ok, SignalsOk, WaitStep
<1> QED
  BY <1>1, <1>3 DEF Ok, Still, Base

\* mini_receive() with nothing to receive: wait.
LEMMA BlockOk ==
    ASSUME NEW S, Ok(S), NEW p \in UsedIn(S), S.proc[p].rts = {},
           NEW from \in UsedIn(S) \cup {ANY}, p = PM => from = ANY /\ S.pm = NONE
    PROVE  Ok([Set(S, p, {"RECEIVING"}) EXCEPT !.proc[p].getfrom = from])
<1> USE Names
<1> DEFINE r == [S.proc[p] EXCEPT !.rts = @ \cup {"RECEIVING"}, !.getfrom = from]
           T == [S EXCEPT !.proc[p] = r]
<1>1. S \in StateT /\ p \in Procs /\ S.proc[p] \in Proc /\ from \in Procs \cup {ANY} /\ S.proc[p].used
  BY Types DEF Ok, UsedIn
<1>2. /\ r \in Proc /\ r.rts = {"RECEIVING"} /\ r.getfrom = from /\ r.used = S.proc[p].used
      /\ r.caller_q = S.proc[p].caller_q /\ r.pending = S.proc[p].pending
      /\ r.resume = S.proc[p].resume /\ r.reqsrc = S.proc[p].reqsrc
      /\ r.notify = S.proc[p].notify /\ r.asyn = S.proc[p].asyn /\ r.priv = S.proc[p].priv
  BY <1>1 DEF Proc, RtsFlags
<1>3. [Set(S, p, {"RECEIVING"}) EXCEPT !.proc[p].getfrom = from] = T
  <2> DEFINE x == [S.proc[p] EXCEPT !.rts = @ \cup {"RECEIVING"}]
  <2>1. Set(S, p, {"RECEIVING"}) = [S EXCEPT !.proc[p] = x]
    BY DEF Set
  <2>2. r = [x EXCEPT !.getfrom = from]
    BY <1>1 DEF Proc
  <2> HIDE DEF x, r
  <2> QED
    BY <1>1, <2>1, <2>2 DEF StateT
<1> HIDE DEF r
<1>4. OnlySlot(S, T, p) /\ T.proc[p] = r
  BY <1>1, <1>2, SlotReplaced
<1> HIDE DEF T
<1>5. WaitStep(S, T)
  BY <1>1, <1>2, <1>4 DEF WaitStep, OnlySlot, Ok, SlotsOk
<1>6. WaitsOk(T)
  <2>1. UsedIn(T) = UsedIn(S)
    BY <1>5 DEF WaitStep, UsedIn
  <2> QED
    BY <1>2, <1>4, <2>1 DEF WaitsOk, OnlySlot, Ok
<1>7. QueuesOk(T)
  BY <1>2, <1>4 DEF QueuesOk, OnlySlot, Ok
<1>8. "RECEIVING" \in T.proc[PM].rts => T.pm = NONE
  BY <1>4 DEF OnlySlot, Ok, SignalsOk
<1> QED
  BY <1>3, <1>5, <1>6, <1>7, <1>8, WaitStepOk

\* A process in the queue of p has been served.
LEMMA TakenOk ==
    ASSUME NEW S, Ok(S), NEW p \in UsedIn(S), S.proc[p].rts = {},
           NEW q \in Procs, "SENDING" \in S.proc[q].rts, S.proc[q].sendto = p
    PROVE  LET T == Unset([S EXCEPT !.proc[p].caller_q = Dequeue(@, {q})], q, {"SENDING"})
           IN  Ok(T) /\ q \in UsedIn(T) /\ q \in Others
<1> USE Names
<1> DEFINE d == Dequeue(S.proc[p].caller_q, {q})
           r == [S.proc[p] EXCEPT !.caller_q = Dequeue(@, {q})]
           A == [S EXCEPT !.proc[p] = r]
           T == Unset(A, q, {"SENDING"})
<1>1. /\ S \in StateT /\ p \in Procs /\ S.proc[p] \in Proc /\ q # p /\ q \in Others
      /\ q \in UsedIn(S) /\ S.proc[p].caller_q \in Seq(Procs) /\ Once(S.proc[p].caller_q)
  BY Types DEF Ok, UsedIn, SlotsOk, FreeSlot, QueuesOk, Proc
<1>2. d \in Seq(Procs) /\ Once(d) /\ Elems(d) = Elems(S.proc[p].caller_q) \ {q}
  BY <1>1, DequeueOf
<1>3. /\ r.caller_q = d /\ r.rts = S.proc[p].rts /\ r.used = S.proc[p].used
      /\ r.sendto = S.proc[p].sendto /\ r.getfrom = S.proc[p].getfrom
      /\ r.pending = S.proc[p].pending /\ r.resume = S.proc[p].resume
      /\ r.reqsrc = S.proc[p].reqsrc /\ r.notify = S.proc[p].notify
      /\ r.asyn = S.proc[p].asyn /\ r.priv = S.proc[p].priv
  BY <1>1 DEF Proc
<1> HIDE DEF d
<1>4. r \in Proc
  BY <1>1, <1>2 DEF Proc, d
<1>5. [S EXCEPT !.proc[p].caller_q = Dequeue(@, {q})] = A
  BY <1>1 DEF StateT
<1> HIDE DEF r
<1>6. OnlySlot(S, A, p) /\ A.proc[p] = r
  BY <1>1, <1>4, SlotReplaced
<1> HIDE DEF A
<1>7. /\ OnlySlot(A, T, q) /\ SameRest(T.proc[q], A.proc[q])
      /\ T.proc[q].rts = A.proc[q].rts \ {"SENDING"}
      /\ "RECEIVING" \in T.proc[q].rts => T.proc[q].getfrom = A.proc[q].getfrom
  BY <1>6, UnsetEffect DEF OnlySlot
<1> HIDE DEF T
<1>8. /\ T.proc[p] = r /\ A.proc[q] = S.proc[q]
      /\ \A x \in Procs : x # p /\ x # q => T.proc[x] = S.proc[x]
  BY <1>1, <1>6, <1>7 DEF OnlySlot
<1>9. WaitStep(S, T)
  <2>1. T \in StateT /\ T.priv = S.priv /\ T.panic = S.panic /\ T.pm = S.pm
    BY <1>6, <1>7 DEF OnlySlot
  <2>2. "RECEIVING" \in T.proc[PM].rts => T.proc[PM].getfrom = ANY
    BY <1>1, <1>3, <1>8 DEF Ok, SlotsOk
  <2>3. T.proc[PM].rts \subseteq S.proc[PM].rts
    BY <1>1, <1>3, <1>8
  <2>4. S.proc[p].used /\ S.proc[q].used
    BY <1>1 DEF UsedIn
  <2>5. ASSUME NEW x \in Procs
        PROVE  /\ T.proc[x].used = S.proc[x].used /\ T.proc[x].priv = S.proc[x].priv
               /\ T.proc[x].pending = S.proc[x].pending /\ T.proc[x].resume = S.proc[x].resume
               /\ T.proc[x].reqsrc = S.proc[x].reqsrc /\ T.proc[x].notify = S.proc[x].notify
               /\ T.proc[x].asyn = S.proc[x].asyn
               /\ \A f \in {"SIGNALED", "SIG_PENDING", "NO_PRIV"} :
                    f \in T.proc[x].rts <=> f \in S.proc[x].rts
               /\ ~S.proc[x].used => T.proc[x] = S.proc[x]
    <3>1. CASE x = p
      BY <1>3, <1>8, <2>4, <3>1
    <3>2. CASE x = q
      BY <1>7, <1>8, <2>4, <3>2 DEF SameRest
    <3>3. CASE x # p /\ x # q
      BY <1>8, <3>3
    <3> QED
      BY <3>1, <3>2, <3>3
  <2> QED
    BY <2>1, <2>2, <2>3, <2>5 DEF WaitStep
<1>10. UsedIn(T) = UsedIn(S)
  BY <1>9 DEF WaitStep, UsedIn
<1>11. WaitsOk(T)
  BY <1>3, <1>7, <1>8, <1>10 DEF WaitsOk, Ok
<1>12. QueuesOk(T)
  <2>1. ASSUME NEW x \in Procs
        PROVE  /\ x # p => T.proc[x].caller_q = S.proc[x].caller_q
               /\ x # q => T.proc[x].sendto = S.proc[x].sendto /\ T.proc[x].rts = S.proc[x].rts
               /\ "SENDING" \notin T.proc[q].rts /\ T.proc[p].caller_q = d
    BY <1>3, <1>7, <1>8 DEF SameRest
  <2>2. ASSUME NEW x \in Procs, NEW y \in Procs
        PROVE  /\ Once(T.proc[x].caller_q)
               /\ y \in Elems(T.proc[x].caller_q) <=> "SENDING" \in T.proc[y].rts /\ T.proc[y].sendto = x
    BY <1>2, <2>1 DEF QueuesOk, Ok
  <2> QED
    BY <2>2 DEF QueuesOk
<1>13. "RECEIVING" \in T.proc[PM].rts => T.pm = NONE
  BY <1>1, <1>3, <1>8, <1>9 DEF Ok, SignalsOk, WaitStep
<1>14. Ok(T)
  BY <1>9, <1>11, <1>12, <1>13, WaitStepOk
<1> QED
  BY <1>1, <1>5, <1>10, <1>14 DEF T

\* A notification of the kernel is received: PM enters its loop if it is told to.
LEMMA KernelNoteOk ==
    ASSUME NEW S, Ok(S), NEW p \in UsedIn(S), S.proc[p].rts = {}, p = PM => S.pm = NONE,
           SYSTEM \in S.proc[p].notify
    PROVE  Ok(TakeSigs([S EXCEPT !.proc[p].notify = @ \ {SYSTEM}], p, SYSTEM))
<1> USE Names
<1> DEFINE i == S.proc[p].priv
           r == [S.proc[p] EXCEPT !.notify = @ \ {SYSTEM}]
           A == [S EXCEPT !.proc[p] = r]
           T == TakeSigs(A, p, SYSTEM)
<1>1. /\ S \in StateT /\ Base(S) /\ SignalsOk(S) /\ p \in Procs /\ S.proc[p] \in Proc
      /\ S.proc[p].used /\ i \in Ids
  BY Types DEF Ok, Base, UsedIn
<1>2. /\ r \in Proc /\ SameWaits(r, S.proc[p]) /\ r.resume = S.proc[p].resume
      /\ r.reqsrc = S.proc[p].reqsrc /\ r.asyn = S.proc[p].asyn
      /\ r.notify = S.proc[p].notify \ {SYSTEM} /\ r.rts = {}
  BY <1>1 DEF Proc, SameWaits
<1>3. [S EXCEPT !.proc[p].notify = @ \ {SYSTEM}] = A
  BY <1>1 DEF StateT
<1> HIDE DEF r
<1>4. OnlySlot(S, A, p) /\ A.proc[p] = r
  BY <1>1, <1>2, SlotReplaced
<1> HIDE DEF A
<1>5. QuietSlot(S, p, A.proc[p])
  BY <1>1, <1>2, <1>4 DEF QuietSlot, SameWaits, Base, SlotsOk
<1>6. Quiet(S, A) /\ Base(A) /\ A \in StateT /\ A.proc[p].priv = i
  BY <1>1, <1>2, <1>4, <1>5, OnlySlotQuiet, QuietBase DEF Base, SameWaits
<1>7. /\ OnlyPending(A, T, i) /\ T.priv[i].sig_pending = {}
      /\ T.pm = IF p = PM /\ "SIGKSIG" \in A.priv[i].sig_pending THEN ANY ELSE A.pm
  BY <1>1, <1>6, TakeSigsEffect
<1> HIDE DEF T
<1>8. Quiet(S, T)
  BY <1>1, <1>6, <1>7, OnlyPendingQuiet, QuietTrans
<1>9. A.priv = S.priv /\ A.pm = S.pm /\ T.proc = A.proc
  BY <1>4, <1>7 DEF OnlySlot, OnlyPending
<1>10. /\ \A q \in Procs : q # p => T.proc[q] = S.proc[q]
       /\ T.proc[p] = r /\ \A j \in Ids : j # i => T.priv[j].sig_pending = S.priv[j].sig_pending
  BY <1>4, <1>7, <1>9 DEF OnlySlot, OnlyPending
<1>11. \A q \in Others : q # p /\ S.proc[q].priv \in ServiceIds => S.proc[q].priv # i
  <2>1. \A q \in Others : S.proc[q].priv \in ServiceIds => S.priv[S.proc[q].priv].proc_nr = q
    BY DEF Ok, PrivsOk, SlotsOk, FreeSlot, UsedIn
  <2>2. p = PM => i \notin ServiceIds
    BY DEF Ok, SlotsOk
  <2> QED
    BY <1>1, <2>1, <2>2
<1>12. p = PM => i = PM_PRIV
  BY DEF Ok, SlotsOk
<1>13. p # PM => i # PM_PRIV
  BY <1>1 DEF Ok, PrivsOk
<1> HIDE DEF i
<1>14. SignalsOk(T)
  <2>1. CASE p = PM
    <3>1. Told(T) \/ \A q \in Others : "SIGNALED" \notin S.proc[q].rts
      BY <1>1, <1>7, <1>9, <1>12, <2>1 DEF SignalsOk, Told
    <3>2. \A q \in Others : T.proc[q] = S.proc[q]
      BY <1>10, <2>1
    <3>3. \A q \in Others : "SIG_PENDING" \in S.proc[q].rts => "SIGNALED" \in S.proc[q].rts
      BY <1>1, <2>1 DEF SignalsOk
    <3>4. "RECEIVING" \notin T.proc[PM].rts /\ T.pm \notin Others
      BY <1>2, <1>7, <1>9, <1>10, <2>1
    <3>5. \A q \in Others : S.proc[q].priv \in ServiceIds =>
            T.priv[S.proc[q].priv].sig_pending = S.priv[S.proc[q].priv].sig_pending
      BY <1>10, <1>11, <2>1
    <3> QED
      BY <1>1, <3>1, <3>2, <3>3, <3>4, <3>5 DEF SignalsOk
  <2>2. CASE p # PM
    <3>1. T.pm = S.pm /\ T.proc[PM] = S.proc[PM] /\ (Told(S) => Told(T)) /\ p \in Others
      BY <1>1, <1>7, <1>9, <1>10, <1>13, <2>2 DEF Told
    <3>2. T.pm \in Others => T.proc[T.pm].used
      BY <1>1, <1>8, <3>1 DEF SignalsOk, Quiet, QuietSlot
    <3>3. ASSUME NEW q \in Others, q # p
          PROVE  /\ T.proc[q] = S.proc[q]
                 /\ S.proc[q].priv \in ServiceIds =>
                      T.priv[S.proc[q].priv].sig_pending = S.priv[S.proc[q].priv].sig_pending
      BY <1>10, <1>11, <3>3
    <3>4. T.proc[p].pending = S.proc[p].pending /\ S.proc[p].rts = {} /\ T.proc[p].rts = {}
          /\ T.proc[p].priv = i
      BY <1>2, <1>6, <1>9, <1>10 DEF SameWaits
    <3>5. ASSUME NEW q \in Others
          PROVE  /\ (T.proc[q].pending # {}) <=> ("SIGNALED" \in T.proc[q].rts)
                 /\ "SIGNALED" \in T.proc[q].rts => "SIG_PENDING" \in T.proc[q].rts /\ Told(T)
                 /\ "SIG_PENDING" \in T.proc[q].rts => "SIGNALED" \in T.proc[q].rts \/ T.pm = q
                 /\ T.proc[q].priv \in ServiceIds /\ T.priv[T.proc[q].priv].sig_pending # {}
                    => SYSTEM \in T.proc[q].notify
      <4>1. CASE q = p
        BY <1>1, <1>7, <3>1, <3>4, <4>1 DEF SignalsOk
      <4>2. CASE q # p
        BY <1>1, <3>1, <3>3, <4>2 DEF SignalsOk
      <4> QED
        BY <4>1, <4>2
    <3> QED
      BY <1>1, <3>1, <3>2, <3>5 DEF SignalsOk
  <2> QED
    BY <2>1, <2>2
<1> QED
  BY <1>3, <1>8, <1>14, QuietOk DEF T

\* mini_receive().
LEMMA ReceiveOk ==
    ASSUME NEW S, Ok(S), NEW p \in UsedIn(S), S.proc[p].rts = {},
           NEW from \in UsedIn(S) \cup {ANY}, p = PM => from = ANY /\ S.pm = NONE
    PROVE  Ok(Receive(S, p, from))
<1> USE Names
<1> DEFINE me == S.proc[p]
           notes == {id \in me.notify : From(S, id, from)}
           note == IF SYSTEM \in notes THEN SYSTEM ELSE CHOOSE id \in notes : TRUE
           asyns == {q \in me.asyn : from \in {ANY, q}}
           fit == {k \in DOMAIN me.caller_q : from \in {ANY, me.caller_q[k]}}
           first == me.caller_q[CHOOSE k \in fit : \A l \in fit : k <= l]
           taken == Unset([S EXCEPT !.proc[p].caller_q = Dequeue(@, {first})], first, {"SENDING"})
<1>1. S \in StateT /\ p \in Procs /\ me \in Proc /\ SlotsOk(S)
  BY Types DEF Ok, UsedIn
<1>2. Receive(S, p, from) =
        IF notes # {} THEN TakeSigs([S EXCEPT !.proc[p].notify = @ \ {note}], p, note)
        ELSE IF asyns # {} THEN [S EXCEPT !.proc[p].asyn = @ \ {CHOOSE q \in asyns : TRUE}]
        ELSE IF fit # {} THEN IF S.proc[first].delay THEN sig_delay_done(taken, first) ELSE taken
        ELSE [Set(S, p, {"RECEIVING"}) EXCEPT !.proc[p].getfrom = from]
  BY DEF Receive
<1>3. ASSUME notes # {}
      PROVE  Ok(TakeSigs([S EXCEPT !.proc[p].notify = @ \ {note}], p, note))
  <2>1. note \in notes
    BY <1>3
  <2>2. CASE note = SYSTEM
    <3>1. SYSTEM \in S.proc[p].notify
      BY <2>1, <2>2
    <3> QED
      BY <2>2, <3>1, KernelNoteOk
  <2>3. CASE note # SYSTEM
    <3> HIDE DEF note, notes
    <3> DEFINE r == [S.proc[p] EXCEPT !.notify = @ \ {note}]
    <3>1. /\ r \in Proc /\ SameWaits(r, S.proc[p]) /\ r.resume = S.proc[p].resume
          /\ r.reqsrc = S.proc[p].reqsrc /\ r.asyn = S.proc[p].asyn
          /\ r.notify = S.proc[p].notify \ {note} /\ r.rts = S.proc[p].rts
      BY <1>1 DEF Proc, SameWaits
    <3>2. TakeSigs([S EXCEPT !.proc[p].notify = @ \ {note}], p, note) = [S EXCEPT !.proc[p] = r]
      BY <1>1, <2>3 DEF TakeSigs, StateT
    <3> HIDE DEF r
    <3> QED
      BY <1>1, <2>3, <3>1, <3>2, SlotReplacedOk DEF SlotsOk
  <2> QED
    BY <2>2, <2>3
<1>4. ASSUME NEW q
      PROVE  Ok([S EXCEPT !.proc[p].asyn = @ \ {q}])
  <2> DEFINE r == [S.proc[p] EXCEPT !.asyn = @ \ {q}]
  <2>1. /\ r \in Proc /\ SameWaits(r, S.proc[p]) /\ r.resume = S.proc[p].resume
        /\ r.reqsrc = S.proc[p].reqsrc /\ r.asyn = S.proc[p].asyn \ {q}
        /\ r.notify = S.proc[p].notify /\ r.rts = S.proc[p].rts
    BY <1>1 DEF Proc, SameWaits
  <2>2. [S EXCEPT !.proc[p].asyn = @ \ {q}] = [S EXCEPT !.proc[p] = r]
    BY <1>1 DEF StateT
  <2> HIDE DEF r
  <2> QED
    BY <1>1, <2>1, <2>2, SlotReplacedOk DEF SlotsOk
<1>5. ASSUME fit # {}
      PROVE  Ok(taken) /\ Ok(sig_delay_done(taken, first))
  <2>1. me.caller_q \in Seq(Procs) /\ fit \subseteq DOMAIN me.caller_q /\ DOMAIN me.caller_q \subseteq Nat
    BY <1>1 DEF Proc
  <2>2. \E k \in fit : \A l \in fit : k <= l
    <3> HIDE DEF fit
    <3> QED
      BY <1>5, <2>1, LeastExists
  <2>3. first \in Elems(me.caller_q) /\ first \in Procs
    BY <2>1, <2>2 DEF Elems
  <2> HIDE DEF first
  <2>4. "SENDING" \in S.proc[first].rts /\ S.proc[first].sendto = p
    BY <1>1, <2>3 DEF Ok, QueuesOk
  <2>5. Ok(taken) /\ first \in UsedIn(taken) /\ first \in Others
    BY <2>3, <2>4, TakenOk
  <2> QED
    BY <2>5, SigDelayDoneOk
<1>6. Ok([Set(S, p, {"RECEIVING"}) EXCEPT !.proc[p].getfrom = from])
  BY BlockOk
<1> HIDE DEF notes, note, asyns, fit, first, taken
<1> QED
  BY <1>2, <1>3, <1>4, <1>5, <1>6

\* A send to a process that does not wait for it.
LEMMA QueuedOk ==
    ASSUME NEW S, Ok(S), NEW p \in UsedIn(S), NEW q \in UsedIn(S), NEW rec \in BOOLEAN,
           S.proc[p].rts = {}, p # q, p \in Others
    PROVE  Ok([Set(S, p, {"SENDING"} \cup IF rec THEN {"RECEIVING"} ELSE {}) EXCEPT
                 !.proc[p].sendto = q, !.proc[q].caller_q = Append(@, p),
                 !.proc[p].getfrom = IF rec THEN q ELSE @])
<1> USE Names
<1> DEFINE flags == {"SENDING"} \cup IF rec THEN {"RECEIVING"} ELSE {}
           o == S.proc[p]
           r == [o EXCEPT !.rts = @ \cup flags, !.sendto = q, !.getfrom = IF rec THEN q ELSE @]
           x == [S.proc[q] EXCEPT !.caller_q = Append(@, p)]
           old == S.proc[q].caller_q
           A == [S EXCEPT !.proc[p] = r]
           T == [A EXCEPT !.proc[q] = x]
           B1 == Set(S, p, flags)
           G == [B1 EXCEPT !.proc[p].sendto = q, !.proc[q].caller_q = Append(@, p),
                           !.proc[p].getfrom = IF rec THEN q ELSE @]
<1> SUFFICES Ok(G)
  OBVIOUS
<1>1. /\ S \in StateT /\ p \in Procs /\ o \in Proc /\ q \in Procs /\ S.proc[q] \in Proc
      /\ o.used /\ S.proc[q].used /\ old \in Seq(Procs) /\ Once(old)
  BY Types DEF Ok, UsedIn, Proc, QueuesOk
<1>2. G = T
  <2> HIDE DEF flags
  <2> DEFINE x1 == [o EXCEPT !.rts = @ \cup flags]
             x2 == [x1 EXCEPT !.sendto = q]
             x3 == [x2 EXCEPT !.getfrom = IF rec THEN q ELSE @]
             B2 == [B1 EXCEPT !.proc[p].sendto = q]
             B3 == [B2 EXCEPT !.proc[q].caller_q = Append(@, p)]
             B4 == [B3 EXCEPT !.proc[p].getfrom = IF rec THEN q ELSE @]
  <2>1. B1 = [S EXCEPT !.proc[p] = x1]
    BY DEF Set
  <2>2. r = x3
    BY <1>1 DEF Proc
  <2>3. G = B4
    <3>1. B1 \in StateT
      BY <1>1, SetEffect DEF OnlySlot, flags, RtsFlags
    <3> HIDE DEF B1
    <3>2. B1.proc[p] \in Proc
      BY <1>1, <3>1, Types
    <3>3. B2.proc[q] = B1.proc[q] /\ B2.proc[p].getfrom = B1.proc[p].getfrom
      BY <1>1, <3>1, <3>2 DEF StateT, Proc
    <3>4. B3.proc[p] = B2.proc[p]
      BY <1>1, <3>1 DEF StateT
    <3> DEFINE u == Append(B1.proc[q].caller_q, p)
               v == IF rec THEN q ELSE B1.proc[p].getfrom
    <3>5. G = [B1 EXCEPT !.proc[p].sendto = q, !.proc[q].caller_q = u, !.proc[p].getfrom = v]
      OBVIOUS
    <3>6. B3 = [B2 EXCEPT !.proc[q].caller_q = u]
      BY <3>3
    <3>7. B4 = [B3 EXCEPT !.proc[p].getfrom = v]
      BY <3>3, <3>4
    <3> HIDE DEF u, v, G, B3, B4
    <3> QED
      BY <3>5, <3>6, <3>7
  <2> HIDE DEF B1
  <2> HIDE DEF G, x1, r
  <2>4. B2 = [S EXCEPT !.proc[p] = x2]
    BY <1>1, <2>1 DEF StateT
  <2> HIDE DEF x2, B2
  <2>5. B3 = [B2 EXCEPT !.proc[q] = x]
    BY <1>1, <2>4 DEF StateT
  <2> HIDE DEF B3, x
  <2>6. B4 = [B3 EXCEPT !.proc[p] = x3]
    BY <1>1, <2>4, <2>5 DEF StateT
  <2> HIDE DEF x3, B4
  <2>7. B4 = T
    BY <1>1, <2>2, <2>4, <2>5, <2>6 DEF StateT
  <2> QED
    BY <2>3, <2>7
<1> HIDE DEF G
<1>3. /\ r \in Proc /\ "SENDING" \in r.rts /\ r.sendto = q /\ r.used = o.used
      /\ "RECEIVING" \in r.rts => r.getfrom = q
      /\ r.rts \subseteq {"SENDING", "RECEIVING"}
      /\ r.caller_q = o.caller_q /\ r.pending = o.pending /\ r.resume = o.resume
      /\ r.reqsrc = o.reqsrc /\ r.notify = o.notify /\ r.asyn = o.asyn /\ r.priv = o.priv
  BY <1>1 DEF Proc, RtsFlags
<1>4. /\ x.rts = S.proc[q].rts /\ x.used = S.proc[q].used /\ x.sendto = S.proc[q].sendto
      /\ x.getfrom = S.proc[q].getfrom /\ x.pending = S.proc[q].pending
      /\ x.resume = S.proc[q].resume /\ x.reqsrc = S.proc[q].reqsrc
      /\ x.notify = S.proc[q].notify /\ x.asyn = S.proc[q].asyn /\ x.priv = S.proc[q].priv
      /\ x.caller_q = Append(old, p) /\ x \in Proc
  <2>1. Append(old, p) \in Seq(Procs)
    BY <1>1
  <2>2. x \in Proc
    BY <1>1, <2>1 DEF Proc
  <2> QED
    BY <1>1, <2>2 DEF Proc
<1>5. p \notin Elems(old)
  BY <1>1 DEF Ok, QueuesOk
<1>6. Once(Append(old, p)) /\ Elems(Append(old, p)) = Elems(old) \cup {p}
  <2> HIDE DEF old
  <2>1. /\ DOMAIN Append(old, p) = DOMAIN old \cup {Len(old) + 1} /\ Len(old) + 1 \notin DOMAIN old
        /\ \A k \in DOMAIN old : Append(old, p)[k] = old[k]
        /\ Append(old, p)[Len(old) + 1] = p
    BY <1>1
  <2>2. \A k \in DOMAIN old : old[k] # p
    BY <1>5 DEF Elems
  <2> QED
    BY <1>1, <2>1, <2>2 DEF Once, Elems
<1> HIDE DEF r, x
<1>7. OnlySlot(S, A, p) /\ A.proc[p] = r
  BY <1>1, <1>3, SlotReplaced
<1> HIDE DEF A
<1>8. OnlySlot(A, T, q) /\ T.proc[q] = x
  <2>1. A \in StateT
    BY <1>7 DEF OnlySlot
  <2> QED
    BY <1>1, <1>4, <2>1, SlotReplaced
<1> HIDE DEF T
<1>9. /\ T.proc[p] = r /\ \A y \in Procs : y # p /\ y # q => T.proc[y] = S.proc[y]
      /\ T \in StateT /\ T.priv = S.priv /\ T.panic = S.panic /\ T.pm = S.pm
  BY <1>1, <1>7, <1>8 DEF OnlySlot
<1>10. WaitStep(S, T)
  <2>1. ASSUME NEW y \in Procs
        PROVE  /\ T.proc[y].used = S.proc[y].used /\ T.proc[y].priv = S.proc[y].priv
               /\ T.proc[y].pending = S.proc[y].pending /\ T.proc[y].resume = S.proc[y].resume
               /\ T.proc[y].reqsrc = S.proc[y].reqsrc /\ T.proc[y].notify = S.proc[y].notify
               /\ T.proc[y].asyn = S.proc[y].asyn
               /\ \A f \in {"SIGNALED", "SIG_PENDING", "NO_PRIV"} :
                    f \in T.proc[y].rts <=> f \in S.proc[y].rts
               /\ ~S.proc[y].used => T.proc[y] = S.proc[y]
    <3>1. CASE y = p
      BY <1>1, <1>3, <1>9, <3>1
    <3>2. CASE y = q
      BY <1>1, <1>4, <1>8, <3>2
    <3>3. CASE y # p /\ y # q
      BY <1>9, <3>3
    <3> QED
      BY <3>1, <3>2, <3>3
  <2>2. T.proc[PM].rts = S.proc[PM].rts /\ T.proc[PM].getfrom = S.proc[PM].getfrom
    BY <1>4, <1>8, <1>9
  <2> QED
    BY <1>9, <2>1, <2>2 DEF WaitStep, Ok, SlotsOk
<1>11. UsedIn(T) = UsedIn(S)
  BY <1>10 DEF WaitStep, UsedIn
<1>12. WaitsOk(T)
  <2>1. ASSUME NEW y \in Procs, y # p
        PROVE  T.proc[y].rts = S.proc[y].rts /\ T.proc[y].sendto = S.proc[y].sendto
               /\ T.proc[y].getfrom = S.proc[y].getfrom
    BY <1>4, <1>8, <1>9, <2>1
  <2> QED
    BY <1>3, <1>9, <1>11, <2>1 DEF WaitsOk, Ok
<1>13. QueuesOk(T)
  <2>1. ASSUME NEW y \in Procs
        PROVE  /\ y # q => T.proc[y].caller_q = S.proc[y].caller_q
               /\ y # p => T.proc[y].sendto = S.proc[y].sendto /\ T.proc[y].rts = S.proc[y].rts
    BY <1>3, <1>4, <1>8, <1>9
  <2>2. "SENDING" \in T.proc[p].rts /\ T.proc[p].sendto = q /\ T.proc[q].caller_q = Append(old, p)
    BY <1>3, <1>4, <1>8, <1>9
  <2>3. ASSUME NEW y \in Procs, NEW z \in Procs
        PROVE  /\ Once(T.proc[y].caller_q)
               /\ z \in Elems(T.proc[y].caller_q) <=> "SENDING" \in T.proc[z].rts /\ T.proc[z].sendto = y
    <3>1. "SENDING" \notin S.proc[p].rts
      OBVIOUS
    <3>2. CASE y = q
      <4>1. Once(T.proc[y].caller_q) /\ Elems(T.proc[y].caller_q) = Elems(old) \cup {p}
        BY <1>6, <2>2, <3>2
      <4>2. z # p => (z \in Elems(old) <=> "SENDING" \in T.proc[z].rts /\ T.proc[z].sendto = q)
        BY <1>1, <2>1 DEF QueuesOk, Ok
      <4> QED
        BY <2>2, <3>2, <4>1, <4>2
    <3>3. CASE y # q
      BY <2>1, <2>2, <3>1, <3>3 DEF QueuesOk, Ok
    <3> QED
      BY <3>2, <3>3
  <2> QED
    BY <2>3 DEF QueuesOk
<1>14. "RECEIVING" \in T.proc[PM].rts => T.pm = NONE
  BY <1>4, <1>8, <1>9 DEF Ok, SignalsOk
<1> QED
  BY <1>2, <1>10, <1>12, <1>13, <1>14, WaitStepOk

-----------------------------------------------------------------------------
(* PM's signal loop *)

\* Only PM's loop moves on.
LEMMA LoopMoves ==
    ASSUME NEW S, Ok(S), NEW x \in Others \cup {NONE, ANY}
    PROVE  LET T == [S EXCEPT !.pm = x]
           IN  /\ T \in StateT /\ T.proc = S.proc /\ T.priv = S.priv /\ T.panic = S.panic /\ T.pm = x
               /\ Quiet(S, T) /\ Still(T)
<1> DEFINE T == [S EXCEPT !.pm = x]
<1>1. S \in StateT /\ Base(S)
  BY DEF Ok, Base
<1>2. T \in StateT /\ T.proc = S.proc /\ T.priv = S.priv /\ T.panic = S.panic /\ T.pm = x
  BY <1>1 DEF StateT
<1> HIDE DEF T
<1>3. OnlyPending(S, T, USER_PRIV)
  BY <1>2 DEF OnlyPending, QuietPriv
<1>4. Quiet(S, T) /\ Base(T)
  BY <1>1, <1>3, OnlyPendingQuiet, QuietBase
<1>5. MasksOk(T) /\ WaitsOk(T) /\ QueuesOk(T) /\ PendingOk(T)
  BY <1>2 DEF Ok, MasksOk, WaitsOk, QueuesOk, PendingOk, UsedIn
<1> QED
  BY <1>2, <1>4, <1>5 DEF Still, T

\* SYS_GETKSIG finds nothing: the loop ends.
LEMMA LoopEndsOk ==
    ASSUME NEW S, Ok(S), S.pm = ANY,
           \A p \in Others : S.proc[p].used => "SIGNALED" \notin S.proc[p].rts
    PROVE  Ok([S EXCEPT !.pm = NONE])
<1> USE Names
<1> DEFINE T == [S EXCEPT !.pm = NONE]
<1>1. T.proc = S.proc /\ T.priv = S.priv /\ T.pm = NONE /\ Quiet(S, T)
  BY LoopMoves
<1> HIDE DEF T
<1>2. \A p \in Others : "SIGNALED" \notin S.proc[p].rts
  BY DEF Ok, SlotsOk, FreeSlot
<1>3. SignalsOk(T)
  BY <1>1, <1>2 DEF Ok, SignalsOk
<1> QED
  BY <1>1, <1>3, QuietOk DEF T

\* SYS_GETKSIG fetches the signals of p.
LEMMA FetchOk ==
    ASSUME NEW S, Ok(S), S.pm = ANY, S.proc[PM].rts = {}, NEW p \in UsedIn(S), p \in Others,
           "SIGNALED" \in S.proc[p].rts
    PROVE  Ok([Unset(S, p, {"SIGNALED"}) EXCEPT !.proc[p].pending = {}, !.pm = p])
<1> USE Names
<1> DEFINE A == Unset(S, p, {"SIGNALED"})
           r == [A.proc[p] EXCEPT !.pending = {}]
           B == [A EXCEPT !.proc[p] = r]
           T == [B EXCEPT !.pm = p]
           G == [A EXCEPT !.proc[p].pending = {}, !.pm = p]
<1> SUFFICES Ok(G)
  OBVIOUS
<1>1. S \in StateT /\ Base(S) /\ SignalsOk(S) /\ p \in Procs /\ S.proc[p].used
  BY DEF Ok, Base, UsedIn
<1>2. /\ OnlySlot(S, A, p) /\ SameRest(A.proc[p], S.proc[p])
      /\ A.proc[p].rts = S.proc[p].rts \ {"SIGNALED"}
      /\ "SENDING" \in A.proc[p].rts => A.proc[p].sendto = S.proc[p].sendto
      /\ "RECEIVING" \in A.proc[p].rts => A.proc[p].getfrom = S.proc[p].getfrom
  BY <1>1, UnsetEffect
<1> HIDE DEF A
<1>3. A \in StateT /\ A.proc[p] \in Proc
  BY <1>1, <1>2, Types DEF OnlySlot
<1>4. /\ r \in Proc /\ r.pending = {} /\ r.rts = A.proc[p].rts /\ r.used = A.proc[p].used
      /\ r.sendto = A.proc[p].sendto /\ r.getfrom = A.proc[p].getfrom
      /\ r.caller_q = A.proc[p].caller_q /\ r.resume = A.proc[p].resume
      /\ r.reqsrc = A.proc[p].reqsrc /\ r.notify = A.proc[p].notify
      /\ r.asyn = A.proc[p].asyn /\ r.priv = A.proc[p].priv
  BY <1>3 DEF Proc
<1>5. G = T
  BY <1>1, <1>3 DEF StateT
<1> HIDE DEF r, G
<1>6. OnlySlot(A, B, p) /\ B.proc[p] = r
  BY <1>1, <1>3, <1>4, SlotReplaced
<1> HIDE DEF B
<1>7. OnlySlot(S, B, p)
  BY <1>2, <1>6 DEF OnlySlot
<1>8. QuietSlot(S, p, B.proc[p])
  BY <1>1, <1>2, <1>4, <1>6 DEF QuietSlot, SameRest, Base, SlotsOk
<1>9. Quiet(S, B) /\ Base(B) /\ B \in StateT
  BY <1>1, <1>7, <1>8, OnlySlotQuiet, QuietBase DEF Base
<1>10. T \in StateT /\ T.proc = B.proc /\ T.priv = B.priv /\ T.panic = B.panic /\ T.pm = p
  BY <1>9 DEF StateT
<1> HIDE DEF T
<1>11. OnlyPending(B, T, USER_PRIV)
  BY <1>10 DEF OnlyPending, QuietPriv
<1>12. Quiet(S, T)
  BY <1>1, <1>9, <1>11, OnlyPendingQuiet, QuietTrans
<1>13. /\ T.proc[p] = r /\ T.priv = S.priv /\ \A q \in Procs : q # p => T.proc[q] = S.proc[q]
  BY <1>6, <1>7, <1>10 DEF OnlySlot
<1>14. r.priv = S.proc[p].priv /\ r.notify = S.proc[p].notify /\ r.used = S.proc[p].used
       /\ r.rts = S.proc[p].rts \ {"SIGNALED"}
  BY <1>2, <1>4 DEF SameRest
<1>15. SignalsOk(T)
  <2>1. ASSUME NEW q \in Others
        PROVE  /\ (T.proc[q].pending # {}) <=> ("SIGNALED" \in T.proc[q].rts)
               /\ "SIGNALED" \in T.proc[q].rts => "SIG_PENDING" \in T.proc[q].rts /\ Told(T)
               /\ "SIG_PENDING" \in T.proc[q].rts => "SIGNALED" \in T.proc[q].rts \/ T.pm = q
               /\ T.proc[q].priv \in ServiceIds /\ T.priv[T.proc[q].priv].sig_pending # {}
                  => SYSTEM \in T.proc[q].notify
    <3>1. Told(T)
      BY <1>1, <1>10 DEF Told
    <3>2. CASE q = p
      BY <1>1, <1>4, <1>10, <1>13, <1>14, <3>1, <3>2 DEF SignalsOk
    <3>3. CASE q # p
      BY <1>1, <1>10, <1>13, <3>1, <3>3 DEF SignalsOk
    <3> QED
      BY <3>2, <3>3
  <2>2. T.proc[PM].rts = {} /\ T.proc[p].used
    BY <1>1, <1>13, <1>14
  <2> QED
    BY <1>10, <2>1, <2>2 DEF SignalsOk
<1> QED
  BY <1>5, <1>12, <1>15, QuietOk

\* SYS_ENDKSIG: p goes on, unless there are new signals for it.
LEMMA EndOk ==
    ASSUME NEW S, Ok(S), NEW p \in Others, S.pm = p, S.proc[PM].rts = {}
    PROVE  LET A == [S EXCEPT !.pm = ANY]
           IN  Ok(IF "SIGNALED" \in S.proc[p].rts THEN A ELSE Unset(A, p, {"SIG_PENDING"}))
<1> USE Names
<1> DEFINE A == [S EXCEPT !.pm = ANY]
           T == Unset(A, p, {"SIG_PENDING"})
<1>1. /\ A \in StateT /\ A.proc = S.proc /\ A.priv = S.priv /\ A.panic = S.panic /\ A.pm = ANY
      /\ Quiet(S, A) /\ Base(A)
  BY LoopMoves DEF Still
<1> HIDE DEF A
<1>2. Base(S) /\ SignalsOk(S) /\ S.proc[p].used /\ p \in Procs
  BY DEF Ok, Base, SignalsOk
<1>3. CASE "SIGNALED" \in S.proc[p].rts
  <2>1. Told(A)
    BY <1>1 DEF Told
  <2>2. SignalsOk(A)
    BY <1>1, <1>2, <1>3, <2>1 DEF SignalsOk
  <2> QED
    BY <1>1, <1>3, <2>2, QuietOk DEF A
<1>4. CASE "SIGNALED" \notin S.proc[p].rts
  <2>1. /\ OnlySlot(A, T, p) /\ SameRest(T.proc[p], A.proc[p])
        /\ T.proc[p].rts = A.proc[p].rts \ {"SIG_PENDING"}
        /\ "SENDING" \in T.proc[p].rts => T.proc[p].sendto = A.proc[p].sendto
        /\ "RECEIVING" \in T.proc[p].rts => T.proc[p].getfrom = A.proc[p].getfrom
    BY <1>1, <1>2, UnsetEffect
  <2> HIDE DEF T
  <2>2. QuietSlot(A, p, T.proc[p])
    BY <1>1, <1>2, <2>1 DEF QuietSlot, SameRest, Base, SlotsOk
  <2>3. Quiet(A, T)
    BY <1>1, <1>2, <2>1, <2>2, OnlySlotQuiet
  <2>4. Quiet(S, T)
    BY <1>1, <1>2, <2>3, QuietTrans
  <2>5. /\ T.pm = ANY /\ Told(T) /\ T.priv = S.priv
        /\ \A q \in Procs : q # p => T.proc[q] = S.proc[q]
        /\ T.proc[p].pending = S.proc[p].pending /\ T.proc[p].priv = S.proc[p].priv
        /\ T.proc[p].notify = S.proc[p].notify
        /\ T.proc[p].rts = S.proc[p].rts \ {"SIG_PENDING"}
    BY <1>1, <2>1 DEF OnlySlot, SameRest, Told
  <2>6. ASSUME NEW q \in Others
        PROVE  /\ (T.proc[q].pending # {}) <=> ("SIGNALED" \in T.proc[q].rts)
               /\ "SIGNALED" \in T.proc[q].rts => "SIG_PENDING" \in T.proc[q].rts
               /\ "SIG_PENDING" \in T.proc[q].rts => "SIGNALED" \in T.proc[q].rts
               /\ T.proc[q].priv \in ServiceIds /\ T.priv[T.proc[q].priv].sig_pending # {}
                  => SYSTEM \in T.proc[q].notify
    <3>1. CASE q = p
      BY <1>2, <1>4, <2>5, <3>1 DEF SignalsOk
    <3>2. CASE q # p
      BY <1>2, <2>5, <3>2 DEF SignalsOk
    <3> QED
      BY <3>1, <3>2
  <2>7. SignalsOk(T)
    BY <1>2, <2>5, <2>6 DEF SignalsOk
  <2> QED
    BY <1>4, <2>4, <2>7, QuietOk DEF A, T
<1> QED
  BY <1>3, <1>4

-----------------------------------------------------------------------------
(* Processes come and go *)

\* The conjuncts of SignalsOk for one process.
SignalOk(S, p) ==
    /\ (S.proc[p].pending # {}) <=> ("SIGNALED" \in S.proc[p].rts)
    /\ "SIGNALED" \in S.proc[p].rts => "SIG_PENDING" \in S.proc[p].rts /\ Told(S)
    /\ "SIG_PENDING" \in S.proc[p].rts => "SIGNALED" \in S.proc[p].rts \/ S.pm = p
    /\ S.proc[p].priv \in ServiceIds /\ S.priv[S.proc[p].priv].sig_pending # {}
       => SYSTEM \in S.proc[p].notify

\* The types of free slots and structures.
LEMMA FreeTypes ==
    FreeSlot \in Proc /\ FreePriv \in Priv
<1> USE Names
<1>1. <<>> \in Seq(Procs)
  OBVIOUS
<1>2. FreeSlot \in Proc
  BY <1>1 DEF FreeSlot, Proc
<1>3. FreePriv \in Priv
  BY DEF FreePriv, Priv
<1> QED
  BY <1>2, <1>3

\* SYS_FORK.
LEMMA ForkOk ==
    ASSUME NEW S, Ok(S), NEW p \in Others, ~S.proc[p].used, NEW flags \in SUBSET {"NO_PRIV"}
    PROVE  Ok([S EXCEPT !.proc[p] = [FreeSlot EXCEPT !.used = TRUE, !.rts = flags]])
<1> USE Names
<1> DEFINE r == [FreeSlot EXCEPT !.used = TRUE, !.rts = flags]
           T == [S EXCEPT !.proc[p] = r]
<1>1. S \in StateT /\ p \in Procs
  BY DEF Ok
<1>2. S.proc[p] = FreeSlot
  BY <1>1 DEF Ok, SlotsOk
<1>3. /\ r.used /\ r.rts = flags /\ r.caller_q = <<>> /\ r.pending = {} /\ ~r.resume
      /\ r.notify = {} /\ r.asyn = {} /\ r.priv = USER_PRIV
  BY DEF FreeSlot
<1>4. r \in Proc
  <2>1. FreeSlot \in Proc /\ flags \in SUBSET RtsFlags
    BY FreeTypes DEF RtsFlags
  <2> QED
    BY <2>1 DEF Proc
<1> HIDE DEF r
<1>5. OnlySlot(S, T, p) /\ T.proc[p] = r
  BY <1>1, <1>4, SlotReplaced
<1> HIDE DEF T
<1>6. /\ T \in StateT /\ T.priv = S.priv /\ T.panic = S.panic /\ T.pm = S.pm
      /\ T.proc[PM] = S.proc[PM] /\ UsedIn(T) = UsedIn(S) \cup {p} /\ p \notin UsedIn(S)
  BY <1>1, <1>3, <1>5 DEF OnlySlot, UsedIn
<1>7. SlotsOk(T)
  BY <1>3, <1>5, <1>6 DEF Ok, SlotsOk, OnlySlot
<1>8. PrivsOk(T)
  <2>1. \A q \in Procs : q # p => T.proc[q] = S.proc[q]
    BY <1>5 DEF OnlySlot
  <2>2. \A q \in Others : T.proc[q].priv \in ServiceIds \cup {USER_PRIV}
    BY <1>3, <1>5, <2>1 DEF Ok, PrivsOk
  <2>3. \A q \in Procs : "NO_PRIV" \in T.proc[q].rts => T.proc[q].priv = USER_PRIV
    BY <1>3, <1>5, <2>1 DEF Ok, PrivsOk
  <2>4. \A q \in UsedIn(T) : T.proc[q].priv \in ServiceIds => T.priv[T.proc[q].priv].proc_nr = q
    BY <1>3, <1>5, <1>6, <2>1 DEF Ok, PrivsOk, UsedIn
  <2>5. \A i \in ServiceIds : T.priv[i].proc_nr # NONE =>
          T.priv[i].proc_nr \in UsedIn(T) /\ T.proc[T.priv[i].proc_nr].priv = i
    BY <1>6, <2>1 DEF Ok, PrivsOk, UsedIn
  <2> QED
    BY <1>6, <2>2, <2>3, <2>4, <2>5 DEF Ok, PrivsOk
<1>9. MasksOk(T)
  BY <1>6 DEF Ok, MasksOk
<1>10. WaitsOk(T)
  BY <1>3, <1>5, <1>6 DEF Ok, WaitsOk, OnlySlot
<1>11. QueuesOk(T)
  <2>1. S.proc[p].caller_q = <<>> /\ S.proc[p].rts = {}
    BY <1>2 DEF FreeSlot
  <2>2. \A q \in Procs : T.proc[q].caller_q = S.proc[q].caller_q
    BY <1>3, <1>5, <2>1 DEF OnlySlot
  <2>3. \A q \in Procs : q # p => T.proc[q] = S.proc[q]
    BY <1>5 DEF OnlySlot
  <2>4. "SENDING" \notin T.proc[p].rts
    BY <1>3, <1>5
  <2>5. ASSUME NEW x \in Procs, NEW y \in Procs
        PROVE  y \in Elems(T.proc[x].caller_q) <=> "SENDING" \in T.proc[y].rts /\ T.proc[y].sendto = x
    BY <2>1, <2>2, <2>3, <2>4 DEF Ok, QueuesOk
  <2> QED
    BY <2>2, <2>5 DEF Ok, QueuesOk
<1>12. PendingOk(T)
  BY <1>3, <1>5, <1>6 DEF Ok, PendingOk, OnlySlot
<1>13. SignalsOk(T)
  <2>1. Told(S) => Told(T)
    BY <1>6 DEF Told
  <2>2. ASSUME NEW q \in Others
        PROVE  SignalOk(T, q)
    <3>1. CASE q = p
      BY <1>3, <1>5, <3>1 DEF SignalOk
    <3>2. CASE q # p
      BY <1>5, <1>6, <2>1, <3>2 DEF Ok, SignalsOk, SignalOk, OnlySlot
    <3> QED
      BY <3>1, <3>2
  <2>3. T.pm \in Others => T.proc[T.pm].used
    BY <1>3, <1>5, <1>6 DEF Ok, SignalsOk, OnlySlot
  <2> QED
    BY <1>6, <2>2, <2>3 DEF Ok, SignalsOk, SignalOk
<1>14. Ok(T)
  BY <1>6, <1>7, <1>8, <1>9, <1>10, <1>11, <1>12, <1>13 DEF Ok
<1> QED
  BY <1>14 DEF T, r

\* clear_ipc(): p is in no queue and waits for nobody.
LEMMA ClearIpcStill ==
    ASSUME NEW S, Still(S), NEW p \in UsedIn(S), p \in Others
    PROVE  LET T == clear_ipc(S, p)
           IN  /\ Still(T) /\ UsedIn(T) = UsedIn(S) /\ WaitStep(S, T)
               /\ T.proc[p].rts \cap {"SENDING", "RECEIVING"} = {}
               /\ \A q \in Procs : q # p => T.proc[q].rts = S.proc[q].rts
<1> USE Names
<1> DEFINE to == S.proc[p].sendto
           r == [S.proc[to] EXCEPT !.caller_q = Dequeue(@, {p})]
           A == IF "SENDING" \in S.proc[p].rts THEN [S EXCEPT !.proc[to].caller_q = Dequeue(@, {p})]
                ELSE S
           T == Unset(A, p, {"SENDING", "RECEIVING"})
<1>1. S \in StateT /\ p \in Procs /\ S.proc[p].used /\ Base(S)
  BY DEF Still, Base, UsedIn
<1>2. clear_ipc(S, p) = T
  BY DEF clear_ipc
\* the queues after it
<1>3. /\ A \in StateT /\ A.priv = S.priv /\ A.panic = S.panic /\ A.pm = S.pm
      /\ \A x \in Procs :
           /\ A.proc[x].used = S.proc[x].used /\ A.proc[x].rts = S.proc[x].rts
           /\ A.proc[x].sendto = S.proc[x].sendto /\ A.proc[x].getfrom = S.proc[x].getfrom
           /\ A.proc[x].pending = S.proc[x].pending /\ A.proc[x].resume = S.proc[x].resume
           /\ A.proc[x].reqsrc = S.proc[x].reqsrc /\ A.proc[x].notify = S.proc[x].notify
           /\ A.proc[x].asyn = S.proc[x].asyn /\ A.proc[x].priv = S.proc[x].priv
           /\ Once(A.proc[x].caller_q)
           /\ Elems(A.proc[x].caller_q) = Elems(S.proc[x].caller_q) \ {p}
           /\ ~S.proc[x].used => A.proc[x] = S.proc[x]
  <2>1. CASE "SENDING" \in S.proc[p].rts
    <3>1. /\ to \in Procs /\ S.proc[to] \in Proc /\ S.proc[to].caller_q \in Seq(Procs)
          /\ Once(S.proc[to].caller_q) /\ S.proc[to].used
      BY <1>1, <2>1, Types DEF Still, WaitsOk, UsedIn, QueuesOk, Proc
    <3> HIDE DEF to
    <3> DEFINE d == Dequeue(S.proc[to].caller_q, {p})
    <3>2. d \in Seq(Procs) /\ Once(d) /\ Elems(d) = Elems(S.proc[to].caller_q) \ {p}
      BY <3>1, DequeueOf
    <3>3. /\ r.caller_q = d /\ r.rts = S.proc[to].rts /\ r.used = S.proc[to].used
          /\ r.sendto = S.proc[to].sendto /\ r.getfrom = S.proc[to].getfrom
          /\ r.pending = S.proc[to].pending /\ r.resume = S.proc[to].resume
          /\ r.reqsrc = S.proc[to].reqsrc /\ r.notify = S.proc[to].notify
          /\ r.asyn = S.proc[to].asyn /\ r.priv = S.proc[to].priv
      BY <3>1 DEF Proc
    <3> HIDE DEF d
    <3>4. r \in Proc
      BY <3>1, <3>2 DEF Proc, d
    <3>5. A = [S EXCEPT !.proc[to] = r]
      BY <1>1, <2>1, <3>1 DEF StateT
    <3> HIDE DEF r, A
    <3>6. OnlySlot(S, A, to) /\ A.proc[to] = r
      BY <1>1, <3>1, <3>4, <3>5, SlotReplaced
    <3>7. \A x \in Procs : x # to =>
            Once(S.proc[x].caller_q) /\ Elems(S.proc[x].caller_q) = Elems(S.proc[x].caller_q) \ {p}
      BY <1>1, <2>1 DEF Still, QueuesOk, to
    <3>8. A \in StateT /\ A.priv = S.priv /\ A.panic = S.panic /\ A.pm = S.pm
          /\ \A x \in Procs : x # to => A.proc[x] = S.proc[x]
      BY <3>6 DEF OnlySlot
    <3> QED
      BY <3>1, <3>2, <3>3, <3>6, <3>7, <3>8
  <2>2. CASE "SENDING" \notin S.proc[p].rts
    <3>1. \A x \in Procs : Once(S.proc[x].caller_q) /\ Elems(S.proc[x].caller_q) = Elems(S.proc[x].caller_q) \ {p}
      BY <1>1, <2>2 DEF Still, QueuesOk
    <3> QED
      BY <1>1, <2>2, <3>1
  <2> QED
    BY <2>1, <2>2
<1> HIDE DEF A
<1>4. /\ OnlySlot(A, T, p) /\ SameRest(T.proc[p], A.proc[p])
      /\ T.proc[p].rts = A.proc[p].rts \ {"SENDING", "RECEIVING"}
  BY <1>1, <1>3, UnsetEffect
<1> HIDE DEF T
<1>5. /\ T \in StateT /\ T.priv = S.priv /\ T.panic = S.panic /\ T.pm = S.pm
      /\ \A x \in Procs : x # p => T.proc[x] = A.proc[x]
  BY <1>3, <1>4 DEF OnlySlot
<1>6. WaitStep(S, T)
  <2>1. ASSUME NEW x \in Procs
        PROVE  /\ T.proc[x].used = S.proc[x].used /\ T.proc[x].priv = S.proc[x].priv
               /\ T.proc[x].pending = S.proc[x].pending /\ T.proc[x].resume = S.proc[x].resume
               /\ T.proc[x].reqsrc = S.proc[x].reqsrc /\ T.proc[x].notify = S.proc[x].notify
               /\ T.proc[x].asyn = S.proc[x].asyn
               /\ \A f \in {"SIGNALED", "SIG_PENDING", "NO_PRIV"} :
                    f \in T.proc[x].rts <=> f \in S.proc[x].rts
               /\ ~S.proc[x].used => T.proc[x] = S.proc[x]
    <3>1. CASE x = p
      BY <1>1, <1>3, <1>4, <3>1 DEF SameRest
    <3>2. CASE x # p
      BY <1>3, <1>5, <3>2
    <3> QED
      BY <3>1, <3>2
  <2>2. T.proc[PM].rts = S.proc[PM].rts /\ T.proc[PM].getfrom = S.proc[PM].getfrom
    BY <1>3, <1>5
  <2> QED
    BY <1>1, <1>5, <2>1, <2>2 DEF WaitStep, Base, SlotsOk
<1>7. UsedIn(T) = UsedIn(S)
  BY <1>6 DEF WaitStep, UsedIn
<1>8. \A x \in Procs : /\ x # p => T.proc[x].rts = S.proc[x].rts /\ T.proc[x].sendto = S.proc[x].sendto
                                    /\ T.proc[x].getfrom = S.proc[x].getfrom
                       /\ T.proc[x].caller_q = A.proc[x].caller_q
  BY <1>3, <1>4, <1>5 DEF SameRest
<1>9. "SENDING" \notin T.proc[p].rts /\ "RECEIVING" \notin T.proc[p].rts
  BY <1>4
<1>10. WaitsOk(T)
  BY <1>7, <1>8, <1>9 DEF WaitsOk, Still
<1>11. QueuesOk(T)
  BY <1>3, <1>8, <1>9 DEF QueuesOk, Still
<1>12. Still(T)
  BY <1>1, <1>6, <1>10, <1>11, WaitStepStill DEF Still
<1> QED
  BY <1>2, <1>6, <1>7, <1>8, <1>9, <1>12

\* clear_ipc_refs(), for a process that waits for nobody: nobody waits for it and
\* nothing of it is pending, and its queue is empty.
LEMMA ClearRefs ==
    ASSUME NEW S, Still(S), NEW p \in UsedIn(S), p \in Others,
           S.proc[p].rts \cap {"SENDING", "RECEIVING"} = {}
    PROVE  LET T == clear_ipc_refs(S, p)
           IN  /\ T \in StateT /\ T.priv = S.priv /\ T.panic = S.panic /\ T.pm = S.pm
               /\ T.proc[p].caller_q = <<>>
               /\ \A q \in Procs : q # p =>
                    LET r == T.proc[q]
                        o == S.proc[q]
                    IN  /\ r.used = o.used /\ r.priv = o.priv /\ r.caller_q = o.caller_q
                        /\ r.pending = o.pending /\ r.resume = o.resume /\ r.reqsrc = o.reqsrc
                        /\ r.notify = o.notify \ {S.proc[p].priv} /\ r.asyn = o.asyn \ {p}
                        /\ r.rts \subseteq o.rts
                        /\ \A f \in {"SIGNALED", "SIG_PENDING", "NO_PRIV"} : f \in r.rts <=> f \in o.rts
                        /\ "SENDING" \in r.rts <=> "SENDING" \in o.rts /\ o.sendto # p
                        /\ "SENDING" \in r.rts => r.sendto = o.sendto
                        /\ "RECEIVING" \in r.rts => r.getfrom = o.getfrom /\ o.getfrom # p
                        /\ ~o.used => r = o
<1> USE Names
<1> DEFINE waiting == {q \in Procs : S.proc[q].used /\ BlockedOn(S, q) = p}
           rec(q) == [S.proc[q] EXCEPT
                        !.rts = IF q \in waiting THEN @ \ {"SENDING", "RECEIVING"} ELSE @,
                        !.sendto = IF q \in waiting THEN NONE ELSE @,
                        !.getfrom = IF q \in waiting THEN NONE ELSE @,
                        !.caller_q = IF q = p THEN Dequeue(@, waiting) ELSE @,
                        !.notify = @ \ {S.proc[p].priv},
                        !.asyn = IF q = p THEN {} ELSE @ \ {p}]
           T == [S EXCEPT !.proc = [q \in Procs |-> rec(q)]]
<1>1. S \in StateT /\ p \in Procs /\ S.proc[p].used /\ Base(S)
  BY DEF Still, Base, UsedIn
<1>2. clear_ipc_refs(S, p) = T
  BY DEF clear_ipc_refs
<1>3. p \notin waiting
  BY <1>1 DEF BlockedOn
<1>4. ASSUME NEW q \in Procs
      PROVE  q \in waiting <=>
               \/ "SENDING" \in S.proc[q].rts /\ S.proc[q].sendto = p
               \/ "RECEIVING" \in S.proc[q].rts /\ S.proc[q].getfrom = p
  <2>1. ~S.proc[q].used => S.proc[q].rts = {}
    BY <1>1 DEF Base, SlotsOk, FreeSlot
  <2>2. {"SENDING", "RECEIVING"} \subseteq S.proc[q].rts => S.proc[q].getfrom = S.proc[q].sendto
    BY DEF Still, WaitsOk
  <2> QED
    BY <1>1, <2>1, <2>2 DEF BlockedOn
<1> HIDE DEF waiting
<1>5. /\ S.proc[p].caller_q \in Seq(Procs) /\ Once(S.proc[p].caller_q)
      /\ S.proc[p] \in Proc /\ Elems(S.proc[p].caller_q) \subseteq Procs
  BY <1>1, Types DEF Still, QueuesOk, Proc, Elems
<1>6. Elems(S.proc[p].caller_q) \subseteq waiting
  BY <1>1, <1>4, <1>5 DEF Still, QueuesOk
<1>7. Dequeue(S.proc[p].caller_q, waiting) = <<>>
  <2> DEFINE d == Dequeue(S.proc[p].caller_q, waiting)
  <2>1. d \in Seq(Procs) /\ Elems(d) = {}
    BY <1>5, <1>6, DequeueOf
  <2> HIDE DEF d
  <2>2. Len(d) \in Nat /\ DOMAIN d = 1 .. Len(d)
    BY <2>1
  <2>3. Len(d) = 0
    <3>1. ASSUME Len(d) # 0
          PROVE  d[1] \in Elems(d)
      BY <2>2, <3>1 DEF Elems
    <3> QED
      BY <2>1, <3>1
  <2>4. d = <<>>
    BY <2>1, <2>3
  <2> QED
    BY <2>4 DEF d
<1>8. ASSUME NEW q \in Procs
      PROVE  rec(q) \in Proc
  <2>1. S.proc[q] \in Proc
    BY <1>1, Types
  <2>2. Dequeue(S.proc[p].caller_q, waiting) \in Seq(Procs)
    BY <1>7
  <2> QED
    BY <2>1, <2>2 DEF Proc
<1>9. rec(p).caller_q = <<>>
  BY <1>5, <1>7 DEF Proc
<1>10. ASSUME NEW q \in Procs, q # p
       PROVE  LET r == rec(q)
                  o == S.proc[q]
              IN  /\ r.used = o.used /\ r.priv = o.priv /\ r.caller_q = o.caller_q
                  /\ r.pending = o.pending /\ r.resume = o.resume /\ r.reqsrc = o.reqsrc
                  /\ r.notify = o.notify \ {S.proc[p].priv} /\ r.asyn = o.asyn \ {p}
                  /\ r.rts = IF q \in waiting THEN o.rts \ {"SENDING", "RECEIVING"} ELSE o.rts
                  /\ q \notin waiting => r.sendto = o.sendto /\ r.getfrom = o.getfrom
  BY <1>1, <1>10, Types DEF Proc
<1>11. ASSUME NEW q \in Procs, ~S.proc[q].used
       PROVE  rec(q) = S.proc[q]
  <2>1. S.proc[q] = FreeSlot /\ q # p
    BY <1>1, <1>11 DEF Base, SlotsOk
  <2>2. q \notin waiting
    BY <1>4, <2>1 DEF FreeSlot
  <2>3. /\ S.proc[q] \in Proc /\ S.proc[q].notify \ {S.proc[p].priv} = S.proc[q].notify
        /\ S.proc[q].asyn \ {p} = S.proc[q].asyn
    BY <2>1, FreeTypes DEF FreeSlot
  <2>4. rec(q) = [S.proc[q] EXCEPT !.rts = @, !.sendto = @, !.getfrom = @, !.caller_q = @,
                                   !.notify = @, !.asyn = @]
    BY <2>1, <2>2, <2>3
  <2> HIDE DEF rec
  <2> QED
    BY <2>3, <2>4 DEF Proc
<1> HIDE DEF rec
<1>12. /\ T \in StateT /\ T.priv = S.priv /\ T.panic = S.panic /\ T.pm = S.pm
       /\ \A q \in Procs : T.proc[q] = rec(q)
  BY <1>1, <1>8 DEF StateT
<1> HIDE DEF T
<1>13. ASSUME NEW q \in Procs, q # p
       PROVE  LET r == T.proc[q]
                  o == S.proc[q]
              IN  /\ r.used = o.used /\ r.priv = o.priv /\ r.caller_q = o.caller_q
                  /\ r.pending = o.pending /\ r.resume = o.resume /\ r.reqsrc = o.reqsrc
                  /\ r.notify = o.notify \ {S.proc[p].priv} /\ r.asyn = o.asyn \ {p}
                  /\ r.rts \subseteq o.rts
                  /\ \A f \in {"SIGNALED", "SIG_PENDING", "NO_PRIV"} : f \in r.rts <=> f \in o.rts
                  /\ "SENDING" \in r.rts <=> "SENDING" \in o.rts /\ o.sendto # p
                  /\ "SENDING" \in r.rts => r.sendto = o.sendto
                  /\ "RECEIVING" \in r.rts => r.getfrom = o.getfrom /\ o.getfrom # p
                  /\ ~o.used => r = o
  <2>1. {"SENDING", "RECEIVING"} \subseteq S.proc[q].rts => S.proc[q].getfrom = S.proc[q].sendto
    BY DEF Still, WaitsOk
  <2>2. T.proc[q] = rec(q)
    BY <1>12
  <2>3. /\ T.proc[q].used = S.proc[q].used /\ T.proc[q].priv = S.proc[q].priv
        /\ T.proc[q].caller_q = S.proc[q].caller_q /\ T.proc[q].pending = S.proc[q].pending
        /\ T.proc[q].resume = S.proc[q].resume /\ T.proc[q].reqsrc = S.proc[q].reqsrc
        /\ T.proc[q].notify = S.proc[q].notify \ {S.proc[p].priv}
        /\ T.proc[q].asyn = S.proc[q].asyn \ {p} /\ (~S.proc[q].used => T.proc[q] = S.proc[q])
    BY <1>10, <1>11, <1>13, <2>2
  <2>4. /\ T.proc[q].rts = IF q \in waiting THEN S.proc[q].rts \ {"SENDING", "RECEIVING"}
                           ELSE S.proc[q].rts
        /\ q \notin waiting => T.proc[q].sendto = S.proc[q].sendto /\ T.proc[q].getfrom = S.proc[q].getfrom
    BY <1>10, <1>13, <2>2
  <2>5. /\ T.proc[q].rts \subseteq S.proc[q].rts
        /\ \A f \in {"SIGNALED", "SIG_PENDING", "NO_PRIV"} : f \in T.proc[q].rts <=> f \in S.proc[q].rts
    BY <2>4
  <2>6. /\ "SENDING" \in T.proc[q].rts <=> "SENDING" \in S.proc[q].rts /\ S.proc[q].sendto # p
        /\ "SENDING" \in T.proc[q].rts => T.proc[q].sendto = S.proc[q].sendto
        /\ "RECEIVING" \in T.proc[q].rts =>
             T.proc[q].getfrom = S.proc[q].getfrom /\ S.proc[q].getfrom # p
    BY <1>4, <2>1, <2>4
  <2> QED
    BY <2>3, <2>5, <2>6
<1>14. T.proc[p].caller_q = <<>>
  BY <1>1, <1>9, <1>12
<1> QED
  BY <1>2, <1>12, <1>13, <1>14

\* SYS_CLEAR, and SYS_ENDKSIG for a process that its signal has killed.
LEMMA ClearedOk ==
    ASSUME NEW S, Still(S), NEW p \in UsedIn(S), p \in Others, S.pm # p,
           "RECEIVING" \in S.proc[PM].rts => S.pm = NONE,
           S.pm \in Others => S.proc[S.pm].used,
           \A q \in Others : q # p => SignalOk(S, q)
    PROVE  Ok(Cleared(S, p))
<1> USE Names
<1> DEFINE id == S.proc[p].priv
           A == clear_ipc(S, p)
           B == clear_ipc_refs(A, p)
           C == IF id \in ServiceIds THEN [B EXCEPT !.priv[id] = FreePriv] ELSE B
           r == [FreeSlot EXCEPT !.caller_q = C.proc[p].caller_q]
           T == [C EXCEPT !.proc[p] = r]
<1>1. S \in StateT /\ p \in Procs /\ S.proc[p].used /\ Base(S) /\ id \in Ids
  BY Types DEF Still, Base, UsedIn
<1>2. id \in ServiceIds \cup {USER_PRIV}
  BY <1>1 DEF Base, PrivsOk
<1>3. Cleared(S, p) = T
  <2>1. clear_endpoint(S, p) = B
    BY <1>1 DEF clear_endpoint
  <2> HIDE DEF B
  <2> QED
    BY <2>1 DEF Cleared
<1>4. /\ Still(A) /\ UsedIn(A) = UsedIn(S) /\ WaitStep(S, A)
      /\ A.proc[p].rts \cap {"SENDING", "RECEIVING"} = {}
      /\ \A q \in Procs : q # p => A.proc[q].rts = S.proc[q].rts
  BY ClearIpcStill
<1> HIDE DEF A
<1>5. /\ B \in StateT /\ B.priv = A.priv /\ B.panic = A.panic /\ B.pm = A.pm
      /\ B.proc[p].caller_q = <<>>
      /\ \A q \in Procs : q # p =>
           LET x == B.proc[q]
               o == A.proc[q]
           IN  /\ x.used = o.used /\ x.priv = o.priv /\ x.caller_q = o.caller_q
               /\ x.pending = o.pending /\ x.resume = o.resume /\ x.reqsrc = o.reqsrc
               /\ x.notify = o.notify \ {A.proc[p].priv} /\ x.asyn = o.asyn \ {p}
               /\ x.rts \subseteq o.rts
               /\ \A f \in {"SIGNALED", "SIG_PENDING", "NO_PRIV"} : f \in x.rts <=> f \in o.rts
               /\ "SENDING" \in x.rts <=> "SENDING" \in o.rts /\ o.sendto # p
               /\ "SENDING" \in x.rts => x.sendto = o.sendto
               /\ "RECEIVING" \in x.rts => x.getfrom = o.getfrom /\ o.getfrom # p
               /\ ~o.used => x = o
  BY <1>4, ClearRefs
<1> HIDE DEF B
<1>6. A.priv = S.priv /\ A.panic = S.panic /\ A.pm = S.pm /\ A.proc[p].priv = id /\ ~S.panic
      /\ Base(A)
  BY <1>1, <1>4 DEF WaitStep, Base, Still
<1>7. /\ C \in StateT /\ C.proc = B.proc /\ C.panic = B.panic /\ C.pm = B.pm
      /\ \A i \in Ids : C.priv[i] = IF i = id /\ id \in ServiceIds THEN FreePriv ELSE S.priv[i]
  BY <1>1, <1>5, <1>6, FreeTypes DEF StateT
<1>8. r = FreeSlot
  <2> HIDE DEF C
  <2>1. r = [FreeSlot EXCEPT !.caller_q = <<>>]
    BY <1>5, <1>7
  <2>2. FreeSlot \in Proc /\ FreeSlot.caller_q = <<>>
    BY FreeTypes DEF FreeSlot
  <2> HIDE DEF r
  <2> QED
    BY <2>1, <2>2 DEF Proc
<1> HIDE DEF C, r
<1>9. OnlySlot(C, T, p) /\ T.proc[p] = FreeSlot
  BY <1>1, <1>7, <1>8, FreeTypes, SlotReplaced
<1> HIDE DEF T
<1>10. /\ T \in StateT /\ ~T.panic /\ T.pm = S.pm
       /\ \A i \in Ids : T.priv[i] = IF i = id /\ id \in ServiceIds THEN FreePriv ELSE S.priv[i]
       /\ \A q \in Procs : q # p => T.proc[q] = B.proc[q]
  BY <1>5, <1>6, <1>7, <1>9 DEF OnlySlot
\* the slots of the others, compared with the middle state
<1>11. ASSUME NEW q \in Procs, q # p
       PROVE  /\ T.proc[q].used = A.proc[q].used /\ T.proc[q].priv = A.proc[q].priv
              /\ T.proc[q].caller_q = A.proc[q].caller_q
              /\ T.proc[q].resume = A.proc[q].resume /\ T.proc[q].reqsrc = A.proc[q].reqsrc
              /\ T.proc[q].notify = A.proc[q].notify \ {id} /\ T.proc[q].asyn = A.proc[q].asyn \ {p}
              /\ T.proc[q].rts \subseteq A.proc[q].rts
              /\ "SENDING" \in T.proc[q].rts <=> "SENDING" \in A.proc[q].rts /\ A.proc[q].sendto # p
              /\ "SENDING" \in T.proc[q].rts => T.proc[q].sendto = A.proc[q].sendto
              /\ "RECEIVING" \in T.proc[q].rts =>
                   T.proc[q].getfrom = A.proc[q].getfrom /\ A.proc[q].getfrom # p
              /\ ~A.proc[q].used => T.proc[q] = A.proc[q]
  BY <1>5, <1>6, <1>10, <1>11
\* and with the first one
<1>12. ASSUME NEW q \in Procs, q # p
       PROVE  /\ T.proc[q].used = S.proc[q].used /\ T.proc[q].priv = S.proc[q].priv
              /\ T.proc[q].pending = S.proc[q].pending /\ T.proc[q].notify = S.proc[q].notify \ {id}
              /\ T.proc[q].asyn = S.proc[q].asyn \ {p} /\ T.proc[q].rts \subseteq S.proc[q].rts
              /\ \A f \in {"SIGNALED", "SIG_PENDING", "NO_PRIV"} : f \in T.proc[q].rts <=> f \in S.proc[q].rts
  <2>1. T.proc[q].pending = A.proc[q].pending
        /\ \A f \in {"SIGNALED", "SIG_PENDING", "NO_PRIV"} : f \in T.proc[q].rts <=> f \in A.proc[q].rts
    BY <1>5, <1>10, <1>12
  <2>2. /\ A.proc[q].used = S.proc[q].used /\ A.proc[q].priv = S.proc[q].priv
        /\ A.proc[q].pending = S.proc[q].pending /\ A.proc[q].notify = S.proc[q].notify
        /\ A.proc[q].asyn = S.proc[q].asyn /\ A.proc[q].rts = S.proc[q].rts
    BY <1>4, <1>12 DEF WaitStep
  <2> QED
    BY <1>11, <1>12, <2>1, <2>2
<1>13. UsedIn(T) = UsedIn(S) \ {p} /\ UsedIn(A) = UsedIn(S)
  BY <1>1, <1>4, <1>9, <1>12 DEF UsedIn, FreeSlot
<1>14. SlotsOk(T)
  <2>1. ASSUME NEW q \in Procs, ~T.proc[q].used
        PROVE  T.proc[q] = FreeSlot
    BY <1>6, <1>9, <1>11, <2>1 DEF Base, SlotsOk
  <2>2. T.proc[PM].used /\ T.proc[PM].priv = PM_PRIV /\ T.proc[PM].rts \subseteq {"RECEIVING"}
    BY <1>6, <1>11 DEF Base, SlotsOk
  <2>3. "RECEIVING" \in T.proc[PM].rts => T.proc[PM].getfrom = ANY
    BY <1>6, <1>11 DEF Base, SlotsOk
  <2>4. \A q \in Procs : T.proc[q].resume => T.proc[q].reqsrc = q
    BY <1>6, <1>9, <1>11 DEF Base, SlotsOk, FreeSlot
  <2> QED
    BY <2>1, <2>2, <2>3, <2>4 DEF SlotsOk
<1>15. PrivsOk(T)
  <2>1. \A q \in Others : T.proc[q].priv \in ServiceIds \cup {USER_PRIV}
    BY <1>1, <1>9, <1>12 DEF Base, PrivsOk, FreeSlot
  <2>2. \A q \in Procs : "NO_PRIV" \in T.proc[q].rts => T.proc[q].priv = USER_PRIV
    BY <1>1, <1>9, <1>12 DEF Base, PrivsOk, FreeSlot
  <2>3. ASSUME NEW q \in UsedIn(T), T.proc[q].priv \in ServiceIds
        PROVE  T.priv[T.proc[q].priv].proc_nr = q
    <3>1. q \in Procs /\ q # p /\ q \in UsedIn(S) /\ T.proc[q].priv = S.proc[q].priv
      BY <1>12, <1>13 DEF UsedIn
    <3>2. S.priv[S.proc[q].priv].proc_nr = q
      BY <1>1, <2>3, <3>1 DEF Base, PrivsOk
    <3>3. S.proc[q].priv # id \/ id \notin ServiceIds
      BY <1>1, <3>1, <3>2 DEF Base, PrivsOk
    <3> QED
      BY <1>10, <2>3, <3>1, <3>2, <3>3
  <2>4. ASSUME NEW i \in ServiceIds, T.priv[i].proc_nr # NONE
        PROVE  T.priv[i].proc_nr \in UsedIn(T) /\ T.proc[T.priv[i].proc_nr].priv = i
    <3>1. i # id /\ T.priv[i] = S.priv[i]
      BY <1>10, <2>4 DEF FreePriv
    <3>2. S.priv[i].proc_nr \in UsedIn(S) /\ S.proc[S.priv[i].proc_nr].priv = i
      BY <1>1, <2>4, <3>1 DEF Base, PrivsOk
    <3>3. S.priv[i].proc_nr # p /\ S.priv[i].proc_nr \in Procs
      BY <3>1, <3>2 DEF UsedIn
    <3> QED
      BY <1>12, <1>13, <3>1, <3>2, <3>3
  <2>5. T.priv[PM_PRIV] = S.priv[PM_PRIV] /\ T.priv[USER_PRIV] = S.priv[USER_PRIV]
    BY <1>10
  <2>6. \A i \in ServiceIds : T.priv[i].sig_mgr = SELF => T.priv[i].bak_sig_mgr = PM
    BY <1>1, <1>10 DEF Base, PrivsOk, FreePriv
  <2> QED
    BY <1>1, <2>1, <2>2, <2>3, <2>4, <2>5, <2>6 DEF Base, PrivsOk
<1>16. MasksOk(T)
  <2>1. \A i \in Ids : T.priv[i].proc_nr # NONE => T.priv[i] = S.priv[i]
    BY <1>10 DEF FreePriv
  <2> QED
    BY <2>1 DEF Still, MasksOk
<1>17. WaitsOk(T)
  <2>1. ASSUME NEW q \in Procs, q # p
        PROVE  /\ "SENDING" \in T.proc[q].rts => T.proc[q].sendto \in UsedIn(T)
               /\ "RECEIVING" \in T.proc[q].rts => T.proc[q].getfrom \in UsedIn(T) \cup {ANY}
               /\ {"SENDING", "RECEIVING"} \subseteq T.proc[q].rts => T.proc[q].getfrom = T.proc[q].sendto
    BY <1>4, <1>11, <1>13, <2>1 DEF Still, WaitsOk
  <2> QED
    BY <1>9, <2>1 DEF WaitsOk, FreeSlot
<1>18. QueuesOk(T)
  <2>1. T.proc[p].caller_q = <<>> /\ "SENDING" \notin T.proc[p].rts
    BY <1>9 DEF FreeSlot
  <2>2. "SENDING" \notin A.proc[p].rts
    BY <1>4
  <2>3. Once(<<>>) /\ Elems(<<>>) = {}
    BY DEF Once, Elems
  <2>4. ASSUME NEW x \in Procs, x # p
        PROVE  Once(T.proc[x].caller_q) /\ T.proc[x].caller_q = A.proc[x].caller_q
    BY <1>4, <1>11, <2>4 DEF Still, QueuesOk
  <2>5. ASSUME NEW x \in Procs, NEW y \in Procs
        PROVE  y \in Elems(T.proc[x].caller_q) <=> "SENDING" \in T.proc[y].rts /\ T.proc[y].sendto = x
    <3>1. y \in Elems(A.proc[x].caller_q) <=> "SENDING" \in A.proc[y].rts /\ A.proc[y].sendto = x
      BY <1>4 DEF Still, QueuesOk
    <3>2. y # p => (("SENDING" \in T.proc[y].rts /\ T.proc[y].sendto = x) <=>
                    ("SENDING" \in A.proc[y].rts /\ A.proc[y].sendto = x /\ x # p))
      BY <1>11
    <3>3. CASE x = p
      BY <2>1, <2>3, <3>2, <3>3
    <3>4. CASE x # p
      BY <2>1, <2>2, <2>4, <3>1, <3>2, <3>4
    <3> QED
      BY <3>3, <3>4
  <2> QED
    BY <2>1, <2>3, <2>4, <2>5 DEF QueuesOk
<1>19. PendingOk(T)
  <2>1. T.proc[p].asyn = {} /\ T.proc[p].notify = {}
    BY <1>9 DEF FreeSlot
  <2>2. ASSUME NEW q \in Procs, q # p
        PROVE  T.proc[q].asyn \subseteq UsedIn(T)
    BY <1>12, <1>13, <2>2 DEF Still, PendingOk
  <2>3. ASSUME NEW q \in Procs, q # p, NEW x \in T.proc[q].notify \ {SYSTEM}
        PROVE  T.priv[x].proc_nr # NONE
    <3>1. x \in S.proc[q].notify \ {SYSTEM} /\ x # id
      BY <1>12, <2>3
    <3>2. x \in Ids
      BY <1>1, <3>1, Types DEF Proc
    <3> QED
      BY <1>10, <3>1, <3>2 DEF Still, PendingOk
  <2> QED
    BY <2>1, <2>2, <2>3 DEF PendingOk
<1>20. SignalsOk(T)
  <2>1. Told(S) => Told(T)
    BY <1>1, <1>2, <1>10, <1>12 DEF Told
  <2>2. ASSUME NEW q \in Others
        PROVE  SignalOk(T, q)
    <3>1. CASE q = p
      BY <1>9, <3>1 DEF SignalOk, FreeSlot
    <3>2. CASE q # p
      <4>1. T.proc[q].priv \in ServiceIds =>
              \/ T.priv[T.proc[q].priv] = FreePriv
              \/ T.priv[T.proc[q].priv] = S.priv[S.proc[q].priv]
        BY <1>10, <1>12, <3>2
      <4>2. SYSTEM \in S.proc[q].notify => SYSTEM \in T.proc[q].notify
        BY <1>1, <1>12, <3>2
      <4> QED
        BY <1>10, <1>12, <2>1, <3>2, <4>1, <4>2 DEF SignalOk, FreePriv
    <3> QED
      BY <3>1, <3>2
  <2>3. T.pm \in Others => T.proc[T.pm].used
    BY <1>10, <1>12
  <2>4. "RECEIVING" \in T.proc[PM].rts => T.pm = NONE
    BY <1>10, <1>12
  <2> QED
    BY <2>2, <2>3, <2>4 DEF SignalsOk, SignalOk
<1>21. Ok(T)
  BY <1>10, <1>14, <1>15, <1>16, <1>17, <1>18, <1>19, <1>20 DEF Ok
<1> QED
  BY <1>3, <1>21

-----------------------------------------------------------------------------
(* Privileges *)

\* get_priv() gives out a free structure of a service.
LEMMA GetPrivFree ==
    ASSUME NEW S, NEW want \in StaticIds \cup {NONE}, get_priv(S, want) # NONE
    PROVE  get_priv(S, want) \in ServiceIds /\ S.priv[get_priv(S, want)].proc_nr = NONE
<1> DEFINE free == {i \in ServiceIds : S.priv[i].proc_nr = NONE}
<1>1. DynIds \cap free # {} => (CHOOSE i \in DynIds \cap free : TRUE) \in DynIds \cap free
  OBVIOUS
<1>2. get_priv(S, want) = IF want # NONE THEN IF want \in StaticIds \cap free THEN want ELSE NONE
                          ELSE IF DynIds \cap free # {} THEN CHOOSE i \in DynIds \cap free : TRUE
                          ELSE NONE
  BY DEF get_priv
<1> HIDE DEF free
<1>3. get_priv(S, want) \in free
  BY <1>1, <1>2
<1> QED
  BY <1>3 DEF free

\* SYS_PRIVCTL: a structure with symmetric masks for a process that had none.
LEMMA PrivCtlOk ==
    ASSUME NEW S, Ok(S), NEW p \in Others, "NO_PRIV" \in S.proc[p].rts,
           NEW id \in ServiceIds, S.priv[id].proc_nr = NONE, NEW map \in SUBSET Ids,
           NEW ro \in BOOLEAN
    PROVE  LET fresh == [FreePriv EXCEPT !.proc_nr = p, !.receiveOnly = ro]
               A == [S EXCEPT !.proc[p].priv = id, !.priv[id] = fresh]
           IN  Ok(Unset(fill_sendto_mask(A, id, map), p, {"NO_PRIV"}))
<1> USE Names
<1> DEFINE fresh == [FreePriv EXCEPT !.proc_nr = p, !.receiveOnly = ro]
           r == [S.proc[p] EXCEPT !.priv = id]
           S1 == [S EXCEPT !.proc[p] = r]
           A == [S EXCEPT !.proc[p].priv = id, !.priv[id] = fresh]
           set == {i \in map \ {id} : A.priv[i].proc_nr # NONE}
           back(i) == IF i \in set /\ ~A.priv[i].receiveOnly THEN {id} ELSE {}
           unset(i) == IF i \in map THEN {} ELSE {id}
           new(i) == IF i = id THEN [A.priv[i] EXCEPT !.ipc_to = set]
                     ELSE [A.priv[i] EXCEPT !.ipc_to = (@ \ unset(i)) \cup back(i)]
           B == [A EXCEPT !.priv = [i \in Ids |-> new(i)]]
           T == Unset(B, p, {"NO_PRIV"})
<1> SUFFICES Ok(Unset(fill_sendto_mask(A, id, map), p, {"NO_PRIV"}))
  OBVIOUS
<1>1. S \in StateT /\ p \in Procs /\ S.proc[p] \in Proc /\ id \in Ids /\ Base(S)
  BY Types DEF Ok, Base
<1>2. S.proc[p].used /\ S.proc[p].priv = USER_PRIV /\ p \in UsedIn(S)
  BY <1>1 DEF Base, SlotsOk, FreeSlot, PrivsOk, UsedIn
<1>3. /\ fresh \in Priv /\ fresh.proc_nr = p /\ fresh.receiveOnly = ro /\ fresh.sig_mgr = SELF
      /\ fresh.bak_sig_mgr = PM /\ fresh.sig_pending = {}
  <2>1. FreePriv \in Priv /\ FreePriv.sig_mgr = SELF /\ FreePriv.bak_sig_mgr = PM /\ FreePriv.sig_pending = {}
    BY FreeTypes DEF FreePriv
  <2> QED
    BY <1>1, <2>1 DEF Priv
<1>4. /\ r \in Proc /\ r.priv = id /\ r.used = S.proc[p].used /\ r.rts = S.proc[p].rts
      /\ r.sendto = S.proc[p].sendto /\ r.getfrom = S.proc[p].getfrom
      /\ r.caller_q = S.proc[p].caller_q /\ r.pending = S.proc[p].pending
      /\ r.resume = S.proc[p].resume /\ r.reqsrc = S.proc[p].reqsrc
      /\ r.notify = S.proc[p].notify /\ r.asyn = S.proc[p].asyn
  BY <1>1 DEF Proc
<1>5. fill_sendto_mask(A, id, map) = B
  BY DEF fill_sendto_mask
<1> HIDE DEF fresh
<1>6. A = [S1 EXCEPT !.priv[id] = fresh]
  BY <1>1 DEF StateT
<1> HIDE DEF r, A
<1>7. OnlySlot(S, S1, p) /\ S1.proc[p] = r
  BY <1>1, <1>4, SlotReplaced
<1> HIDE DEF S1
<1>8. S1 \in StateT /\ S1.priv = S.priv /\ S1.panic = S.panic /\ S1.pm = S.pm
      /\ \A q \in Procs : q # p => S1.proc[q] = S.proc[q]
  BY <1>7 DEF OnlySlot
<1>9. /\ A \in StateT /\ A.panic = S.panic /\ A.pm = S.pm
      /\ A.proc[p] = r /\ \A q \in Procs : q # p => A.proc[q] = S.proc[q]
      /\ A.priv[id] = fresh /\ \A i \in Ids : i # id => A.priv[i] = S.priv[i]
  BY <1>1, <1>3, <1>6, <1>7, <1>8 DEF StateT
<1>10. set \subseteq Ids /\ id \notin set
  OBVIOUS
<1>11. \A i \in Ids : A.priv[i] \in Priv
  BY <1>9, Types
<1>12. ASSUME NEW i \in Ids
       PROVE  /\ new(i) \in Priv /\ new(i).proc_nr = A.priv[i].proc_nr
              /\ new(i).receiveOnly = A.priv[i].receiveOnly /\ new(i).sig_mgr = A.priv[i].sig_mgr
              /\ new(i).bak_sig_mgr = A.priv[i].bak_sig_mgr
              /\ new(i).sig_pending = A.priv[i].sig_pending
              /\ new(i).ipc_to = IF i = id THEN set ELSE (A.priv[i].ipc_to \ unset(i)) \cup back(i)
  <2> HIDE DEF set
  <2>1. back(i) \subseteq Ids
    BY <1>1
  <2> HIDE DEF back, unset
  <2> QED
    BY <1>10, <1>11, <2>1 DEF Priv
<1> HIDE DEF new, set, back, unset
<1>13. /\ B \in StateT /\ B.proc = A.proc /\ B.panic = A.panic /\ B.pm = A.pm
       /\ \A i \in Ids : B.priv[i] = new(i)
  BY <1>9, <1>12 DEF StateT
<1> HIDE DEF B
<1>14. /\ OnlySlot(B, T, p) /\ SameRest(T.proc[p], B.proc[p])
       /\ T.proc[p].rts = B.proc[p].rts \ {"NO_PRIV"}
       /\ "SENDING" \in T.proc[p].rts => T.proc[p].sendto = B.proc[p].sendto
       /\ "RECEIVING" \in T.proc[p].rts => T.proc[p].getfrom = B.proc[p].getfrom
  BY <1>1, <1>13, UnsetEffect
<1> HIDE DEF T
<1>15. /\ T \in StateT /\ T.panic = S.panic /\ T.pm = S.pm
       /\ \A q \in Procs : q # p => T.proc[q] = S.proc[q]
       /\ \A i \in Ids : T.priv[i] = new(i)
  BY <1>9, <1>13, <1>14 DEF OnlySlot
<1>16. /\ T.proc[p].used /\ T.proc[p].priv = id /\ T.proc[p].caller_q = S.proc[p].caller_q
       /\ T.proc[p].pending = S.proc[p].pending /\ T.proc[p].resume = S.proc[p].resume
       /\ T.proc[p].reqsrc = S.proc[p].reqsrc /\ T.proc[p].notify = S.proc[p].notify
       /\ T.proc[p].asyn = S.proc[p].asyn
       /\ T.proc[p].rts = S.proc[p].rts \ {"NO_PRIV"}
       /\ "SENDING" \in T.proc[p].rts => T.proc[p].sendto = S.proc[p].sendto
       /\ "RECEIVING" \in T.proc[p].rts => T.proc[p].getfrom = S.proc[p].getfrom
  BY <1>2, <1>4, <1>9, <1>13, <1>14 DEF SameRest
<1>17. UsedIn(T) = UsedIn(S)
  BY <1>2, <1>15, <1>16 DEF UsedIn
<1>18. /\ T.priv[id].proc_nr = p /\ T.priv[id].sig_mgr = SELF /\ T.priv[id].bak_sig_mgr = PM
       /\ T.priv[id].sig_pending = {}
       /\ \A i \in Ids : i # id => /\ T.priv[i].proc_nr = S.priv[i].proc_nr
                                   /\ T.priv[i].receiveOnly = S.priv[i].receiveOnly
                                   /\ T.priv[i].sig_mgr = S.priv[i].sig_mgr
                                   /\ T.priv[i].bak_sig_mgr = S.priv[i].bak_sig_mgr
                                   /\ T.priv[i].sig_pending = S.priv[i].sig_pending
  <2>1. \A i \in Ids : /\ T.priv[i].proc_nr = A.priv[i].proc_nr
                       /\ T.priv[i].receiveOnly = A.priv[i].receiveOnly
                       /\ T.priv[i].sig_mgr = A.priv[i].sig_mgr
                       /\ T.priv[i].bak_sig_mgr = A.priv[i].bak_sig_mgr
                       /\ T.priv[i].sig_pending = A.priv[i].sig_pending
    BY <1>12, <1>15
  <2> QED
    BY <1>1, <1>3, <1>9, <2>1
<1>19. SlotsOk(T)
  BY <1>1, <1>15, <1>16 DEF Base, SlotsOk
<1>20. PrivsOk(T)
  <2>1. \A q \in Others : T.proc[q].priv \in ServiceIds \cup {USER_PRIV}
    BY <1>1, <1>15, <1>16 DEF Base, PrivsOk
  <2>2. \A q \in Procs : "NO_PRIV" \in T.proc[q].rts => T.proc[q].priv = USER_PRIV
    BY <1>1, <1>15, <1>16 DEF Base, PrivsOk
  <2>3. ASSUME NEW q \in UsedIn(T), T.proc[q].priv \in ServiceIds
        PROVE  T.priv[T.proc[q].priv].proc_nr = q
    <3>1. q \in Procs /\ q \in UsedIn(S)
      BY <1>17 DEF UsedIn
    <3>2. CASE q = p
      BY <1>16, <1>18, <3>2
    <3>3. CASE q # p
      <4>1. S.priv[S.proc[q].priv].proc_nr = q /\ T.proc[q].priv = S.proc[q].priv
        BY <1>1, <1>15, <2>3, <3>1, <3>3 DEF Base, PrivsOk
      <4> QED
        BY <1>18, <2>3, <3>1, <4>1
    <3> QED
      BY <3>2, <3>3
  <2>4. ASSUME NEW i \in ServiceIds, T.priv[i].proc_nr # NONE
        PROVE  T.priv[i].proc_nr \in UsedIn(T) /\ T.proc[T.priv[i].proc_nr].priv = i
    <3>1. CASE i = id
      BY <1>2, <1>16, <1>17, <1>18, <3>1
    <3>2. CASE i # id
      <4>1. S.priv[i].proc_nr \in UsedIn(S) /\ S.proc[S.priv[i].proc_nr].priv = i
            /\ T.priv[i].proc_nr = S.priv[i].proc_nr
        BY <1>1, <1>18, <2>4, <3>2 DEF Base, PrivsOk
      <4>2. S.priv[i].proc_nr # p /\ S.priv[i].proc_nr \in Procs
        BY <1>2, <4>1 DEF UsedIn
      <4> QED
        BY <1>15, <1>17, <4>1, <4>2
    <3> QED
      BY <3>1, <3>2
  <2>5. \A i \in ServiceIds : T.priv[i].sig_mgr = SELF => T.priv[i].bak_sig_mgr = PM
    BY <1>1, <1>18 DEF Base, PrivsOk
  <2>6. T.priv[PM_PRIV].proc_nr = PM /\ T.priv[USER_PRIV].proc_nr = INIT /\ T.priv[USER_PRIV].sig_mgr = PM
    BY <1>1, <1>18 DEF Base, PrivsOk
  <2> QED
    BY <2>1, <2>2, <2>3, <2>4, <2>5, <2>6 DEF PrivsOk
<1>21. MasksOk(T)
  <2>1. \A i \in Ids : T.priv[i].ipc_to = IF i = id THEN set
                                          ELSE (S.priv[i].ipc_to \ unset(i)) \cup back(i)
    BY <1>9, <1>12, <1>15
  <2>2. \A i \in Ids : i \in set <=> i \in map /\ i # id /\ S.priv[i].proc_nr # NONE
    BY <1>9 DEF set
  <2>3. \A i \in Ids : i # id => (id \in back(i) <=> i \in set /\ ~S.priv[i].receiveOnly)
    BY <1>9 DEF back
  <2>4. \A i \in Ids : id \in unset(i) <=> i \notin map
    BY DEF unset
  <2>5. \A i \in Ids : back(i) \subseteq {id} /\ unset(i) \subseteq {id}
    BY DEF back, unset
  <2>6. ASSUME NEW i \in Ids, NEW j \in Ids, T.priv[i].proc_nr # NONE, T.priv[j].proc_nr # NONE,
               j \in T.priv[i].ipc_to, ~T.priv[j].receiveOnly
        PROVE  i \in T.priv[j].ipc_to
    <3>1. CASE i = id
      BY <1>18, <2>1, <2>2, <2>3, <2>6, <3>1
    <3>2. CASE i # id /\ j = id
      <4>1. id \in back(i) \/ id \notin unset(i)
        BY <2>1, <2>6, <3>2
      <4>2. i \in map /\ S.priv[i].proc_nr # NONE
        BY <1>18, <2>2, <2>3, <2>4, <2>6, <3>2, <4>1
      <4>3. i \in set
        BY <2>2, <3>2, <4>2
      <4> QED
        BY <1>1, <2>1, <3>2, <4>3
    <3>3. CASE i # id /\ j # id
      <4>1. j \in S.priv[i].ipc_to
        BY <2>1, <2>5, <2>6, <3>3
      <4>2. i \in S.priv[j].ipc_to
        BY <1>18, <2>6, <3>3, <4>1 DEF Ok, MasksOk
      <4> QED
        BY <2>1, <2>5, <3>3, <4>2
    <3> QED
      BY <3>1, <3>2, <3>3
  <2>7. ASSUME NEW i \in Ids, T.priv[i].proc_nr # NONE
        PROVE  i \notin T.priv[i].ipc_to
    <3>1. CASE i = id
      BY <2>1, <2>2, <3>1
    <3>2. CASE i # id
      BY <1>18, <2>1, <2>5, <2>7, <3>2 DEF Ok, MasksOk
    <3> QED
      BY <3>1, <3>2
  <2> QED
    BY <2>6, <2>7 DEF MasksOk
<1>22. WaitsOk(T)
  BY <1>15, <1>16, <1>17 DEF Ok, WaitsOk
<1>23. QueuesOk(T)
  BY <1>15, <1>16 DEF Ok, QueuesOk
<1>24. PendingOk(T)
  <2>1. \A q \in Procs : T.proc[q].asyn = S.proc[q].asyn /\ T.proc[q].notify = S.proc[q].notify
    BY <1>15, <1>16
  <2>2. \A i \in Ids : S.priv[i].proc_nr # NONE => T.priv[i].proc_nr # NONE
    BY <1>18
  <2>3. \A q \in Procs : S.proc[q].notify \ {SYSTEM} \subseteq Ids
    BY <1>1, Types DEF Proc
  <2> QED
    BY <1>17, <2>1, <2>2, <2>3 DEF Ok, PendingOk
<1>25. SignalsOk(T)
  <2>1. Told(S) => Told(T)
    BY <1>15, <1>18 DEF Told
  <2>2. ASSUME NEW q \in Others
        PROVE  SignalOk(T, q)
    <3>1. CASE q = p
      BY <1>15, <1>16, <1>18, <2>1, <3>1 DEF Ok, SignalsOk, SignalOk
    <3>2. CASE q # p
      BY <1>15, <1>18, <2>1, <3>2 DEF Ok, SignalsOk, SignalOk
    <3> QED
      BY <3>1, <3>2
  <2>3. T.pm \in Others => T.proc[T.pm].used
    BY <1>15, <1>16 DEF Ok, SignalsOk
  <2> QED
    BY <1>15, <2>2, <2>3 DEF Ok, SignalsOk, SignalOk
<1> QED
  BY <1>5, <1>15, <1>19, <1>20, <1>21, <1>22, <1>23, <1>24, <1>25 DEF Ok, T

-----------------------------------------------------------------------------
(* Steps of the specification *)

\* A step to a state that satisfies the invariant.
LEMMA BecomesOk ==
    ASSUME NEW S, Ok(S), Becomes(S)
    PROVE  Inv'
<1>1. State' = [proc |-> S.proc, priv |-> S.priv, panic |-> S.panic, pm |-> S.pm]
  BY DEF Becomes, State
<1>2. S = [proc |-> S.proc, priv |-> S.priv, panic |-> S.panic, pm |-> S.pm]
  BY DEF Ok, StateT
<1>3. State' = S
  BY <1>1, <1>2
<1> QED
  BY <1>3 DEF Inv

\* The record and the variables.
LEMMA StateFields ==
    /\ State.proc = proc /\ State.priv = priv /\ State.panic = panic /\ State.pm = pm
  BY DEF State

\* Initially PM runs and nothing has happened.
LEMMA InitInv == Init => Inv
<1> USE Names, StateFields
<1> SUFFICES ASSUME Init PROVE Ok(State)
  BY DEF Inv
<1>1. /\ FreeSlot \in Proc /\ FreePriv \in Priv
  BY FreeTypes
<1>2. /\ proc[PM] = [FreeSlot EXCEPT !.used = TRUE, !.priv = PM_PRIV]
      /\ \A p \in Others : proc[p] = FreeSlot
  BY DEF Init
<1>3. /\ \A p \in Procs : /\ proc[p].rts = {} /\ proc[p].caller_q = <<>> /\ proc[p].pending = {}
                          /\ ~proc[p].resume /\ proc[p].notify = {} /\ proc[p].asyn = {}
      /\ proc[PM].used /\ proc[PM].priv = PM_PRIV
      /\ \A p \in Others : ~proc[p].used /\ proc[p].priv = USER_PRIV
  <2> DEFINE r == [FreeSlot EXCEPT !.used = TRUE, !.priv = PM_PRIV]
  <2>1. /\ r.rts = {} /\ r.caller_q = <<>> /\ r.pending = {} /\ ~r.resume /\ r.notify = {}
        /\ r.asyn = {} /\ r.used /\ r.priv = PM_PRIV
    BY DEF FreeSlot
  <2>2. /\ FreeSlot.rts = {} /\ FreeSlot.caller_q = <<>> /\ FreeSlot.pending = {} /\ ~FreeSlot.resume
        /\ FreeSlot.notify = {} /\ FreeSlot.asyn = {} /\ ~FreeSlot.used /\ FreeSlot.priv = USER_PRIV
    BY DEF FreeSlot
  <2>3. proc[PM] = r
    BY <1>2
  <2> HIDE DEF r
  <2> QED
    BY <1>2, <2>1, <2>2, <2>3
<1>4. \A p \in Procs : proc[p] \in Proc
  <2>1. [FreeSlot EXCEPT !.used = TRUE, !.priv = PM_PRIV] \in Proc
    BY <1>1 DEF Proc
  <2> QED
    BY <1>1, <1>2, <2>1
<1>5. /\ priv[PM_PRIV] = [FreePriv EXCEPT !.proc_nr = PM, !.ipc_to = {USER_PRIV}, !.bak_sig_mgr = NONE]
      /\ priv[USER_PRIV] = [FreePriv EXCEPT !.ipc_to = {PM_PRIV}, !.sig_mgr = PM,
                                            !.bak_sig_mgr = NONE, !.proc_nr = INIT]
      /\ \A i \in ServiceIds : priv[i] = FreePriv
  BY DEF Init
<1>6. \A i \in Ids : i \in ServiceIds \/ i = PM_PRIV \/ i = USER_PRIV
  BY DEF Ids
<1>7. \A i \in Ids : priv[i] \in Priv
  <2>1. [FreePriv EXCEPT !.proc_nr = PM, !.ipc_to = {USER_PRIV}, !.bak_sig_mgr = NONE] \in Priv
    BY <1>1 DEF Priv
  <2>2. [FreePriv EXCEPT !.ipc_to = {PM_PRIV}, !.sig_mgr = PM, !.bak_sig_mgr = NONE,
                         !.proc_nr = INIT] \in Priv
    BY <1>1 DEF Priv
  <2> QED
    BY <1>1, <1>5, <1>6, <2>1, <2>2
<1>8. /\ priv[PM_PRIV].proc_nr = PM /\ priv[PM_PRIV].ipc_to = {USER_PRIV}
      /\ ~priv[PM_PRIV].receiveOnly
      /\ priv[USER_PRIV].proc_nr = INIT /\ priv[USER_PRIV].ipc_to = {PM_PRIV}
      /\ priv[USER_PRIV].sig_mgr = PM /\ ~priv[USER_PRIV].receiveOnly
      /\ \A i \in ServiceIds : /\ priv[i].proc_nr = NONE /\ priv[i].bak_sig_mgr = PM
                               /\ priv[i].sig_pending = {}
  BY <1>5 DEF FreePriv
<1>9. State \in StateT /\ ~State.panic
  <2>1. proc \in [Procs -> Proc] /\ priv \in [Ids -> Priv] /\ panic \in BOOLEAN /\ ~panic
        /\ pm \in Others \cup {NONE, ANY}
    BY <1>4, <1>7 DEF Init
  <2> QED
    BY <2>1 DEF StateT, State
<1>10. SlotsOk(State)
  BY <1>2, <1>3 DEF SlotsOk
<1>11. PrivsOk(State)
  BY <1>3, <1>8 DEF PrivsOk, UsedIn
<1>12. MasksOk(State)
  BY <1>6, <1>8 DEF MasksOk
<1>13. WaitsOk(State)
  BY <1>3 DEF WaitsOk
<1>14. QueuesOk(State)
  <2>1. Once(<<>>) /\ Elems(<<>>) = {}
    BY DEF Once, Elems
  <2> QED
    BY <1>3, <2>1 DEF QueuesOk
<1>15. PendingOk(State)
  BY <1>3 DEF PendingOk
<1>16. SignalsOk(State)
  <2>1. pm = NONE
    BY DEF Init
  <2> QED
    BY <1>3, <1>8, <2>1 DEF SignalsOk
<1> QED
  BY <1>9, <1>10, <1>11, <1>12, <1>13, <1>14, <1>15, <1>16 DEF Ok

\* Which processes can act.
LEMMA Acting ==
    ASSUME Inv
    PROVE  /\ Ok(State) /\ UsedIn(State) = Used /\ PM \in Used
           /\ \A p \in Procs : Runnable(p) => p \in UsedIn(State) /\ State.proc[p].rts = {}
           /\ \A p \in Procs : proc[p].rts # {} => p \in UsedIn(State)
           /\ \A p \in Procs : proc[p].used => p \in UsedIn(State)
<1> USE Names, StateFields
<1>1. Ok(State)
  BY DEF Inv
<1>2. \A p \in Procs : proc[p].rts # {} => proc[p].used
  BY <1>1 DEF Ok, SlotsOk, FreeSlot
<1> QED
  BY <1>1, <1>2 DEF UsedIn, Used, Runnable, Ok, SlotsOk

\* send_diag_sig(): each service is told, one as if it were alone.
LEMMA DiagInv ==
    ASSUME Inv, send_diag_sig
    PROVE  Inv'
<1> USE Names, StateFields
<1> DEFINE asked == {i \in ServiceIds : priv[i].proc_nr # NONE}
           told == {priv[i].proc_nr : i \in asked}
           after(q) == send_sig(State, q, SIGKMESS)
           newproc == [q \in Procs |-> IF q \in told THEN after(q).proc[q] ELSE proc[q]]
           newpriv == [i \in Ids |-> IF i \in asked THEN after(priv[i].proc_nr).priv[i] ELSE priv[i]]
           T == [proc |-> newproc, priv |-> newpriv, panic |-> panic, pm |-> pm]
<1>1. Ok(State) /\ Base(State) /\ State \in StateT /\ SignalsOk(State) /\ PrivsOk(State) /\ ~panic
  BY Acting DEF Ok, Base
<1>2. proc' = newproc /\ priv' = newpriv /\ panic' = panic /\ pm' = pm
  BY DEF send_diag_sig
<1>3. \A i \in asked : /\ priv[i].proc_nr \in UsedIn(State) /\ priv[i].proc_nr \in Others
                       /\ proc[priv[i].proc_nr].priv = i /\ i \in ServiceIds /\ i \in Ids
  BY <1>1 DEF PrivsOk, UsedIn, Ok, SlotsOk
<1>4. /\ told \subseteq UsedIn(State) /\ told \subseteq Others
      /\ \A q \in told : proc[q].priv \in asked /\ priv[proc[q].priv].proc_nr = q
  BY <1>3
<1>5. \A q \in Others : q \notin told /\ proc[q].priv \in ServiceIds => priv[proc[q].priv].sig_pending = {} \/ SYSTEM \in proc[q].notify
  BY <1>1 DEF SignalsOk
<1> HIDE DEF asked, told
<1>6. \A q \in told : Quiet(State, after(q)) /\ Signalled(State, after(q), q, SIGKMESS)
  BY <1>1, <1>4, SendSigEffect DEF SigSet
<1> HIDE DEF after
<1>7. \A q \in told : after(q) \in StateT
  BY <1>6 DEF Quiet
<1>8. T \in StateT /\ ~T.panic
  <2>1. newproc \in [Procs -> Proc]
    BY <1>1, <1>7, Types
  <2>2. newpriv \in [Ids -> Priv]
    BY <1>1, <1>3, <1>7, Types DEF told
  <2>3. panic \in BOOLEAN /\ pm \in Others \cup {NONE, ANY}
    BY <1>1 DEF StateT
  <2> HIDE DEF newproc, newpriv
  <2> QED
    BY <1>1, <2>1, <2>2, <2>3 DEF StateT
<1>9. /\ \A q \in Procs : T.proc[q] = IF q \in told THEN after(q).proc[q] ELSE proc[q]
      /\ \A i \in Ids : T.priv[i] = IF i \in asked THEN after(priv[i].proc_nr).priv[i] ELSE priv[i]
      /\ T.pm = pm
  OBVIOUS
<1>10. State' = T
  BY <1>2 DEF State
<1> HIDE DEF T, newproc, newpriv
<1>11. Quiet(State, T)
  <2>1. \A q \in Procs : QuietSlot(State, q, proc[q])
    BY <1>1 DEF QuietSlot, Base, SlotsOk
  <2>2. \A q \in Procs : QuietSlot(State, q, T.proc[q])
    BY <1>6, <1>9, <2>1 DEF Quiet
  <2>3. \A i \in Ids : QuietPriv(State, i, priv[i])
    BY DEF QuietPriv
  <2>4. \A i \in asked : priv[i].proc_nr \in told
    BY DEF told
  <2>5. \A i \in Ids : QuietPriv(State, i, T.priv[i])
    BY <1>6, <1>9, <2>3, <2>4 DEF Quiet
  <2> QED
    BY <1>8, <2>2, <2>5 DEF Quiet
<1>12. SignalsOk(T)
  <2>1. PM \notin told /\ PM_PRIV \notin asked
    BY <1>3, <1>4
  <2>2. T.proc[PM] = proc[PM] /\ T.priv[PM_PRIV] = priv[PM_PRIV] /\ (Told(State) => Told(T))
    BY <1>9, <2>1 DEF Told
  <2>3. T.pm \in Others => T.proc[T.pm].used
    BY <1>1, <1>9, <1>11 DEF SignalsOk, Quiet, QuietSlot
  <2>4. ASSUME NEW q \in Others
        PROVE  SignalOk(T, q)
    <3>1. CASE q \in told
      <4>1. T.proc[q] = after(q).proc[q] /\ T.priv[proc[q].priv] = after(q).priv[proc[q].priv]
        BY <1>3, <1>4, <1>9, <3>1
      <4>2. T.proc[q].priv = proc[q].priv
        BY <1>11 DEF Quiet, QuietSlot
      <4>3. /\ T.proc[q].pending = proc[q].pending
            /\ \A f \in {"SIGNALED", "SIG_PENDING"} : f \in T.proc[q].rts <=> f \in proc[q].rts
            /\ SYSTEM \in T.proc[q].notify \/ T.priv[proc[q].priv].sig_pending = {}
        BY <1>6, <3>1, <4>1 DEF Signalled
      <4> QED
        BY <1>1, <1>9, <2>2, <4>2, <4>3 DEF SignalOk, SignalsOk
    <3>2. CASE q \notin told
      <4>1. T.proc[q] = proc[q]
        BY <1>9, <3>2
      <4>2. proc[q].priv \in ServiceIds => proc[q].priv \notin asked
        <5>1. proc[q].priv \in ServiceIds => priv[proc[q].priv].proc_nr = q
          BY <1>1 DEF Ok, PrivsOk, SlotsOk, FreeSlot, UsedIn
        <5> QED
          BY <3>2, <5>1 DEF told
      <4>3. proc[q].priv \in ServiceIds => T.priv[proc[q].priv] = priv[proc[q].priv]
        BY <1>9, <4>2
      <4> QED
        BY <1>1, <1>9, <2>2, <4>1, <4>3 DEF SignalOk, SignalsOk
    <3> QED
      BY <3>1, <3>2
  <2>5. "RECEIVING" \in T.proc[PM].rts => T.pm = NONE
    BY <1>1, <1>9, <2>2 DEF SignalsOk
  <2> QED
    BY <2>3, <2>4, <2>5 DEF SignalsOk, SignalOk
<1>13. Ok(T)
  BY <1>1, <1>11, <1>12, QuietOk
<1> QED
  BY <1>10, <1>13 DEF Inv

\* Every step keeps the invariant.
LEMMA NextInv == Inv /\ [Next]_vars => Inv'
<1> USE Names, StateFields
<1> SUFFICES ASSUME Inv, [Next]_vars PROVE Inv'
  OBVIOUS
<1>1. /\ Ok(State) /\ PM \in UsedIn(State)
      /\ \A p \in Procs : Runnable(p) => p \in UsedIn(State) /\ State.proc[p].rts = {}
      /\ \A p \in Procs : proc[p].rts # {} => p \in UsedIn(State)
      /\ \A p \in Procs : proc[p].used => p \in UsedIn(State)
  BY Acting
<1>2. CASE PmReceives
  <2>1. Ok(Receive(State, PM, ANY))
    BY <1>1, <1>2, ReceiveOk DEF PmReceives, PmIdle
  <2> QED
    BY <1>2, <2>1, BecomesOk DEF PmReceives
<1>3. CASE GetKsig
  <2> DEFINE signaled == {p \in Others : proc[p].used /\ "SIGNALED" \in proc[p].rts}
  <2>1. State.pm = ANY /\ State.proc[PM].rts = {}
    BY <1>1, <1>3 DEF GetKsig
  <2>2. CASE signaled = {} /\ pm' = NONE /\ UNCHANGED <<proc, priv, panic, workload>>
    <3>1. Ok([State EXCEPT !.pm = NONE])
      BY <1>1, <2>1, <2>2, LoopEndsOk
    <3>2. Becomes([State EXCEPT !.pm = NONE])
      BY <2>2 DEF Becomes, State
    <3> QED
      BY <3>1, <3>2, BecomesOk
  <2>3. ASSUME NEW p \in signaled,
               Becomes([Unset(State, p, {"SIGNALED"}) EXCEPT !.proc[p].pending = {}, !.pm = p])
        PROVE  Inv'
    <3>1. Ok([Unset(State, p, {"SIGNALED"}) EXCEPT !.proc[p].pending = {}, !.pm = p])
      BY <1>1, <2>1, FetchOk
    <3> QED
      BY <2>3, <3>1, BecomesOk
  <2> QED
    BY <1>3, <2>2, <2>3 DEF GetKsig
<1>4. CASE send_diag_sig
  BY <1>4, DiagInv
<1>5. ASSUME NEW p \in Others, NEW service \in BOOLEAN, SysFork(p, service)
      PROVE  Inv'
  <2> DEFINE flags == IF service THEN {"NO_PRIV"} ELSE {}
  <2>1. flags \in SUBSET {"NO_PRIV"} /\ ~State.proc[p].used
    BY <1>5 DEF SysFork
  <2>2. Becomes([State EXCEPT !.proc[p] = [FreeSlot EXCEPT !.used = TRUE, !.rts = flags]])
    BY <1>5 DEF SysFork
  <2> HIDE DEF flags
  <2>3. Ok([State EXCEPT !.proc[p] = [FreeSlot EXCEPT !.used = TRUE, !.rts = flags]])
    BY <1>1, <2>1, ForkOk
  <2> QED
    BY <2>2, <2>3, BecomesOk
<1>6. ASSUME NEW p \in Others, NEW want \in StaticIds \cup {NONE}, NEW map \in Maps \cup {Ids},
             NEW ro \in BOOLEAN, PrivCtl(p, want, map, ro)
      PROVE  Inv'
  <2> DEFINE id == get_priv(State, want)
             fresh == [FreePriv EXCEPT !.proc_nr = p, !.receiveOnly = ro]
             A == [State EXCEPT !.proc[p].priv = id, !.priv[id] = fresh]
             T == Unset(fill_sendto_mask(A, id, map), p, {"NO_PRIV"})
  <2>1. "NO_PRIV" \in State.proc[p].rts /\ id # NONE /\ Becomes(T)
    BY <1>6 DEF PrivCtl
  <2>2. id \in ServiceIds /\ State.priv[id].proc_nr = NONE
    BY <2>1, GetPrivFree
  <2>3. map \in SUBSET Ids
    BY IdsAssumption
  <2> HIDE DEF id
  <2>4. Ok(T)
    BY <1>1, <2>1, <2>2, <2>3, PrivCtlOk
  <2> HIDE DEF T
  <2> QED
    BY <2>1, <2>4, BecomesOk
<1>7. ASSUME NEW p \in Others, SysClear(p)
      PROVE  Inv'
  <2>1. p \in UsedIn(State) /\ State.pm = NONE /\ Becomes(Cleared(State, p))
    BY <1>1, <1>7 DEF SysClear, PmIdle
  <2>2. Ok(Cleared(State, p))
    BY <1>1, <2>1, ClearedOk DEF Ok, Still, Base, SignalsOk, SignalOk
  <2> QED
    BY <2>1, <2>2, BecomesOk
<1>8. ASSUME NEW p \in Others, Reply(p)
      PROVE  Inv'
  <2>1. p \in UsedIn(State)
    BY <1>1, <1>8 DEF Reply, Awaits
  <2> QED
    BY <1>1, <1>8, <2>1, WakeOk, BecomesOk DEF Reply
<1>9. ASSUME NEW p \in Others, StopDelayed(p)
      PROVE  Inv'
  BY <1>1, <1>9, StopDelayedOk, BecomesOk DEF StopDelayed
<1>10. ASSUME NEW p \in Others, EndKsig(p)
       PROVE  Inv'
  <2> DEFINE A == [State EXCEPT !.pm = ANY]
  <2>1. State.pm = p /\ State.proc[PM].rts = {}
    BY <1>1, <1>10 DEF EndKsig
  <2>2. p \in UsedIn(State)
    BY <1>1, <2>1 DEF Ok, SignalsOk
  <2>3. CASE Becomes(IF "SIGNALED" \in proc[p].rts THEN A ELSE Unset(A, p, {"SIG_PENDING"}))
    <3>1. Ok(IF "SIGNALED" \in proc[p].rts THEN A ELSE Unset(A, p, {"SIG_PENDING"}))
      BY <1>1, <2>1, EndOk
    <3> QED
      BY <2>3, <3>1, BecomesOk
  <2>4. CASE Becomes(Cleared(A, p))
    <3>1. A.proc = proc /\ A.priv = priv /\ A.pm = ANY /\ Still(A)
      BY <1>1, LoopMoves
    <3> HIDE DEF A
    <3>2. Told(A) /\ UsedIn(A) = UsedIn(State)
      BY <3>1 DEF Told, UsedIn
    <3>3. \A q \in Others : q # p => SignalOk(A, q)
      BY <1>1, <2>1, <3>1, <3>2 DEF Ok, SignalsOk, SignalOk
    <3>4. Ok(Cleared(A, p))
      BY <2>1, <2>2, <3>1, <3>2, <3>3, ClearedOk
    <3> QED
      BY <2>4, <3>4, BecomesOk
  <2> QED
    BY <1>10, <2>3, <2>4 DEF EndKsig
<1>11. ASSUME NEW p \in Others, NEW sig \in Lethal, KernelCallFaults(p, sig)
       PROVE  Inv'
  BY <1>1, <1>11, CauseSigOk, BecomesOk DEF KernelCallFaults
<1>12. ASSUME NEW p \in Others, KernelCallSuspends(p)
       PROVE  Inv'
  BY <1>1, <1>12, SuspendedOk, BecomesOk DEF KernelCallSuspends
<1>13. ASSUME NEW p \in Others, VmReply(p)
       PROVE  Inv'
  BY <1>1, <1>13, VmReplyOk, BecomesOk DEF VmReply
<1>14. ASSUME NEW p \in Others, KernelCallResume(p)
       PROVE  Inv'
  <2>1. p \in UsedIn(State) /\ proc[p].reqsrc = p
    BY <1>1, <1>14 DEF KernelCallResume, Ok, SlotsOk
  <2>2. Ok(Finished(State, p)) /\ UsedIn(Finished(State, p)) = UsedIn(State)
    BY <1>1, <2>1, FinishedOk
  <2>3. \A sig \in Lethal : Ok(cause_sig(Finished(State, p), p, sig))
    BY <2>1, <2>2, CauseSigOk
  <2>4. Ok(Suspended(State, p))
    BY <1>1, <2>1, SuspendedOk
  <2>5. CASE Becomes(Finished(State, p))
    BY <2>2, <2>5, BecomesOk
  <2>6. ASSUME NEW sig \in Lethal, Becomes(cause_sig(Finished(State, p), p, sig))
        PROVE  Inv'
    BY <2>3, <2>6, BecomesOk
  <2>7. CASE Becomes(Suspended(State, p))
    BY <2>4, <2>7, BecomesOk
  <2> QED
    BY <1>14, <2>1, <2>5, <2>6, <2>7 DEF KernelCallResume
<1>15. ASSUME NEW p \in Others, NEW q \in Procs, NEW rec \in BOOLEAN, Send(p, q, rec)
       PROVE  Inv'
  <2> DEFINE queued == [Set(State, p, {"SENDING"} \cup IF rec THEN {"RECEIVING"} ELSE {}) EXCEPT
                          !.proc[p].sendto = q, !.proc[q].caller_q = Append(@, p),
                          !.proc[p].getfrom = IF rec THEN q ELSE @]
             D == Unset(State, q, {"RECEIVING"})
  <2>1. /\ p \in UsedIn(State) /\ q \in UsedIn(State) /\ State.proc[p].rts = {} /\ p # q
        /\ Becomes(IF ~Awaits(State, q, p) THEN queued ELSE IF rec THEN Receive(D, p, q) ELSE D)
    BY <1>1, <1>15 DEF Send, MaySend
  <2>2. Ok(queued)
    BY <1>1, <2>1, QueuedOk
  <2>3. Ok(D)
    BY <1>1, <2>1, WakeOk
  <2>4. OnlySlot(State, D, q) /\ SameRest(D.proc[q], State.proc[q])
    BY <1>1, UnsetEffect DEF Ok
  <2> HIDE DEF queued, D
  <2>5. UsedIn(D) = UsedIn(State) /\ D.proc[p].rts = {}
    BY <2>1, <2>4 DEF OnlySlot, SameRest, UsedIn
  <2>6. Ok(Receive(D, p, q))
    BY <2>1, <2>3, <2>5, ReceiveOk
  <2>7. CASE ~Awaits(State, q, p)
    BY <2>1, <2>2, <2>7, BecomesOk
  <2>8. CASE Awaits(State, q, p) /\ rec
    BY <2>1, <2>6, <2>8, BecomesOk
  <2>9. CASE Awaits(State, q, p) /\ ~rec
    BY <2>1, <2>3, <2>9, BecomesOk
  <2> QED
    BY <2>7, <2>8, <2>9
<1>16. ASSUME NEW p \in Others, NEW q \in Procs, Notify(p, q)
       PROVE  Inv'
  <2>1. p \in UsedIn(State) /\ q \in UsedIn(State) /\ proc[p].priv \in ServiceIds
        /\ Becomes(mini_notify(State, p, proc[p].priv, q))
    BY <1>1, <1>16 DEF Notify, MaySend, IsService
  <2>2. State.priv[proc[p].priv].proc_nr = p
    BY <1>1, <2>1 DEF Ok, PrivsOk
  <2>3. Ok(mini_notify(State, p, proc[p].priv, q))
    BY <1>1, <2>1, <2>2, MiniNotifyOk
  <2> QED
    BY <2>1, <2>3, BecomesOk
<1>17. ASSUME NEW p \in Others, NEW q \in Procs, Asend(p, q)
       PROVE  Inv'
  <2> DEFINE T == IF Awaits(State, q, p) THEN Unset(State, q, {"RECEIVING"})
                  ELSE [State EXCEPT !.proc[q].asyn = @ \cup {p}]
  <2>1. p \in UsedIn(State) /\ q \in UsedIn(State) /\ Becomes(T)
    BY <1>1, <1>17 DEF Asend, MaySend
  <2>2. Ok(T)
    BY <1>1, <2>1, WakeOk, AsynOk
  <2> HIDE DEF T
  <2> QED
    BY <2>1, <2>2, BecomesOk
<1>18. ASSUME NEW p \in Others, NEW q \in Procs \cup {ANY}, RECEIVE(p, q)
       PROVE  Inv'
  <2>1. p \in UsedIn(State) /\ State.proc[p].rts = {} /\ q \in UsedIn(State) \cup {ANY}
        /\ Becomes(Receive(State, p, q))
    BY <1>1, <1>18 DEF RECEIVE
  <2>2. Ok(Receive(State, p, q))
    BY <1>1, <2>1, ReceiveOk
  <2> QED
    BY <2>1, <2>2, BecomesOk
<1>19. ASSUME NEW p \in Others, NEW q \in Others, NEW sig \in Sigs \ {SIGSNDELAY, SIGKMESS},
              SysKill(p, q, sig)
       PROVE  Inv'
  BY <1>1, <1>19, CauseSigOk, BecomesOk DEF SysKill
<1>20. CASE UNCHANGED vars
  BY <1>20 DEF Inv, State, vars
<1> QED
  BY <1>2, <1>3, <1>4, <1>5, <1>6, <1>7, <1>8, <1>9, <1>10, <1>11, <1>12, <1>13, <1>14, <1>15,
     <1>16, <1>17, <1>18, <1>19, <1>20 DEF Next

-----------------------------------------------------------------------------
(* Theorems *)

\* The inductive invariant holds in every reachable state.
LEMMA Invariant == Spec => []Inv
  BY InitInv, NextInv, PTL DEF Spec

\* clear_ipc and clear_ipc_refs, with mini_send and mini_receive: a process is in
\* the queue of the one it sends to, exactly once, and nobody waits for, or has
\* something pending from, a process that is gone.
THEOREM NoDanglingWaits == Spec => []NobodyWaitsForTheDead
<1>1. Inv => NobodyWaitsForTheDead
  <2> USE Names, StateFields
  <2> SUFFICES ASSUME Inv PROVE NobodyWaitsForTheDead
    OBVIOUS
  <2>1. Ok(State) /\ UsedIn(State) = Used /\ \A p \in Procs : proc[p].rts # {} => p \in UsedIn(State)
    BY Acting
  <2>2. ASSUME NEW p \in Procs, NEW q \in Procs
        PROVE  LET at == {k \in DOMAIN proc[q].caller_q : proc[q].caller_q[k] = p}
               IN  IF proc[p].used /\ "SENDING" \in proc[p].rts /\ proc[p].sendto = q
                   THEN \E k \in at : at = {k} ELSE at = {}
    <3> DEFINE queue == proc[q].caller_q
               at == {k \in DOMAIN queue : queue[k] = p}
    <3>1. Once(queue) /\ (p \in Elems(queue) <=> "SENDING" \in proc[p].rts /\ proc[p].sendto = q)
      BY <2>1 DEF Ok, QueuesOk
    <3>2. "SENDING" \in proc[p].rts => proc[p].used
      BY <2>1 DEF UsedIn
    <3> HIDE DEF queue
    <3>3. p \in Elems(queue) => \E k \in at : at = {k}
      BY <3>1 DEF Elems, Once
    <3>4. p \notin Elems(queue) => at = {}
      BY DEF Elems
    <3>5. IF proc[p].used /\ "SENDING" \in proc[p].rts /\ proc[p].sendto = q
          THEN \E k \in at : at = {k} ELSE at = {}
      BY <3>1, <3>2, <3>3, <3>4
    <3> QED
      BY <3>5 DEF queue
  <2>3. \A p \in Used : BlockedOn(State, p) \in Used \cup {ANY, NONE}
    BY <2>1 DEF BlockedOn, Ok, WaitsOk, Used
  <2>4. \A p \in Used : /\ proc[p].asyn \subseteq Used
                        /\ \A id \in proc[p].notify \ {SYSTEM} : priv[id].proc_nr # NONE
    BY <2>1 DEF Ok, PendingOk, Used
  <2> QED
    BY <2>2, <2>3, <2>4 DEF NobodyWaitsForTheDead
<1> QED
  BY <1>1, Invariant, PTL

\* cause_sig, sig_delay_done and PM's loop: a process with pending signals is
\* blocked and its manager will come for it, one that is blocked has signals that
\* are not finished, and a service with signals to take has a notification.
THEOREM SignalsNotLost == Spec => []SignalsTracked
<1>1. Inv => SignalsTracked
  BY Names, StateFields DEF Inv, Ok, SignalsOk, SignalsTracked, IsService, Told
<1> QED
  BY <1>1, Invariant, PTL

\* get_priv, fill_sendto_mask, set_sendto_bit and unset_sendto_bit: the masks of
\* the structures in use are symmetric, and every service owns its structure.
THEOREM MasksSymmetric == Spec => []MasksAgree
<1>1. Inv => MasksAgree
  <2> USE Names, StateFields
  <2> SUFFICES ASSUME Inv PROVE MasksAgree
    OBVIOUS
  <2>1. Ok(State) /\ UsedIn(State) = Used
    BY Acting
  <2>2. ASSUME NEW i \in ServiceIds, priv[i].proc_nr # NONE, NEW p \in Used
        PROVE  proc[p].priv = i <=> priv[i].proc_nr = p
    BY <2>1, <2>2 DEF Ok, PrivsOk
  <2> QED
    BY <2>1, <2>2 DEF MasksAgree, Ok, MasksOk
<1> QED
  BY <1>1, Invariant, PTL

\* send_sig, cause_sig, clear_endpoint and kernel_call_resume: none of the kernel's
\* panics and assertions fires.
THEOREM NeverPanics == Spec => []NoPanic
<1>1. Inv => NoPanic
  BY StateFields DEF Inv, Ok, NoPanic
<1> QED
  BY <1>1, Invariant, PTL
=============================================================================
