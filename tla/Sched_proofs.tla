----------------------------- MODULE Sched_proofs -----------------------------
(***************************************************************************)
(* Proofs about the scheduling server for every set of processes, number   *)
(* of queues and width of an unsigned integer: priorities stay legal, the  *)
(* three views of a process agree, and a priority stays within its bounds. *)
(***************************************************************************)
EXTENDS Sched, TLAPS

Priorities == Queues \cup {UINT_MAX}
SlotT == [in_use : BOOLEAN, priority : Priorities, max_priority : Queues]
KernelT == [state : {"none", "run", "noq", "dead"}, queue : Queues]
PmT == [nice : Queues, parent : Procs, awaited : BOOLEAN, service : BOOLEAN]

\* A priority is a queue, or the unsigned -1 that only the pseudo FIFO policy
\* makes; the queue that the kernel has is always one of its queues.
TypeOK ==
    /\ policy \in {"A03", "A05"}
    /\ schedproc \in [Procs -> SlotT]
    /\ kernel \in [Procs -> KernelT]
    /\ pm \in [Procs -> PmT]
    /\ policy = "A03" => \A p \in Procs : schedproc[p].priority \in Queues

\* A process that SCHED has not yet been told of.
Newborn(c) == kernel[c].state = "noq" /\ ~schedproc[c].in_use

\* What holds of it as long as its parent waits in fork: the parent is known to
\* SCHED and as nice as it was, so that a priority the child inherits suits the
\* nice value it got from PM, and so does the queue in which the kernel put it.
NewbornOK(c) ==
    /\ pm[c].awaited
    /\ schedproc[pm[c].parent].in_use
    /\ pm[c].nice = schedproc[pm[c].parent].max_priority
    /\ policy = "A05" => kernel[c].queue <= pm[c].nice

\* SCHED's own priority of a process, also of one that the kernel has cleared.
PriorityOK(p) ==
    IF policy = "A03" THEN schedproc[p].max_priority <= schedproc[p].priority
    ELSE \/ schedproc[p].priority = UINT_MAX
         \/ schedproc[p].priority <= schedproc[p].max_priority

\* The inductive invariant of WithinBounds, beyond types and agreement.
BoundsInv ==
    /\ \A c \in Procs : Newborn(c) => NewbornOK(c)
    /\ \A p \in Procs : schedproc[p].in_use => PriorityOK(p)
    /\ WithinBounds

Step(p) ==
    \/ OutOfQuantum(p) \/ Die(p) \/ do_noquantum(p) \/ do_start_inherit(p)
    \/ \E parent \in Procs : Fork(parent, p)
    \/ \E q \in Niceness : do_start_service(p, q)
    \/ /\ Forking(p) => ForkRaces
       /\ do_stop_scheduling(p) \/ \E q \in Niceness : do_nice(p, q)

\* Next, as one step of one process or the timer.
LEMMA NextCases ==
    Next <=> ((\E p \in Procs : Step(p)) \/ balance_queues) /\ UNCHANGED policy
  BY DEF Next, Step

\* The values of constants and helpers that every step needs.
LEMMA Constants ==
    /\ NR_SCHED_QUEUES \in Nat /\ NR_SCHED_QUEUES > 0
    /\ MIN_USER_Q \in Nat /\ MIN_USER_Q = NR_SCHED_QUEUES - 1 /\ MIN_USER_Q < UINT_MAX
    /\ UINT_MAX \in Nat /\ USER_Q \in Queues /\ 0 \in Queues
    /\ \A q : q \in Queues <=> q \in Nat /\ q < NR_SCHED_QUEUES
    /\ Niceness \subseteq Nat /\ INIT_PROC \in Procs
  BY QueuesAssumption, InitAssumption DEF MIN_USER_Q, Queues

\* A queue that SCHED asks the kernel for is one the kernel has.
LEMMA NewPrioType ==
    ASSUME TypeOK, NEW p \in Procs, NEW q \in Priorities
    PROVE  NewPrio(p, q) \in Queues
  BY DEF TypeOK, NewPrio, Priorities, KernelT

\* What the message of a spent quantum makes of a priority: with "lower" one
\* queue down unless it is the last, with "higher" one up, and 0 wraps around.
LEMMA QuantumArith ==
    ASSUME TypeOK, NEW old \in Priorities, policy = "A03" => old \in Queues,
           NEW q, q = IF old < MIN_USER_Q THEN (old + NoQuantumStep) % (UINT_MAX + 1) ELSE old
    PROVE  /\ q \in Priorities
           /\ policy = "A03" => q \in Queues /\ old <= q
           /\ policy = "A05" => q = UINT_MAX \/ q <= old
<1> USE Constants
<1>1. CASE ~(old < MIN_USER_Q)
  BY <1>1 DEF Priorities, TypeOK
<1>2. CASE old < MIN_USER_Q /\ policy = "A03"
  <2>1. old \in Nat /\ old + 1 < UINT_MAX + 1 /\ old + 1 < NR_SCHED_QUEUES
    BY <1>2
  <2>2. q = (old + 1) % (UINT_MAX + 1)
    BY <1>2 DEF NoQuantumStep
  <2>3. q = old + 1
    BY <2>1, <2>2
  <2> QED
    BY <2>1, <2>3, <1>2 DEF Priorities
<1>3. CASE old < MIN_USER_Q /\ policy = "A05"
  <2>1. old \in Nat
    BY <1>3 DEF Priorities
  <2>2. q = (old - 1) % (UINT_MAX + 1)
    BY <1>3, <2>1 DEF NoQuantumStep
  <2>3. CASE old = 0
    <3>1. (0 - 1) % (UINT_MAX + 1) = UINT_MAX
      OBVIOUS
    <3> QED
      BY <2>2, <2>3, <3>1, <1>3 DEF Priorities
  <2>4. CASE old > 0
    <3>1. old - 1 \in Nat /\ old - 1 < UINT_MAX + 1 /\ old - 1 < NR_SCHED_QUEUES
      BY <2>4, <2>1, <1>3
    <3>2. q = old - 1
      BY <2>2, <3>1
    <3> QED
      BY <3>1, <3>2, <2>1, <1>3 DEF Priorities
  <2> QED
    BY <2>1, <2>3, <2>4
<1> QED
  BY <1>1, <1>2, <1>3 DEF TypeOK

-----------------------------------------------------------------------------
(* Type correctness *)

\* Every step of a process keeps the types: the queue that a request asks for is
\* checked, and an inherited priority is one that the parent had.
LEMMA StepType ==
    ASSUME TypeOK, NEW p \in Procs, Step(p), UNCHANGED policy
    PROVE  TypeOK'
<1> USE Constants
<1>1. CASE OutOfQuantum(p)
  BY <1>1 DEF OutOfQuantum, TypeOK, KernelT
<1>2. CASE Die(p)
  BY <1>2 DEF Die, TypeOK, KernelT
<1>3. CASE do_noquantum(p)
  <2> DEFINE old == schedproc[p].priority
             q == IF old < MIN_USER_Q THEN (old + NoQuantumStep) % (UINT_MAX + 1) ELSE old
  <2>1. schedproc[p] \in SlotT /\ old \in Priorities /\ (policy = "A03" => old \in Queues)
    BY DEF TypeOK, SlotT
  <2>2. q \in Priorities /\ (policy = "A03" => q \in Queues)
    BY <2>1, QuantumArith
  <2>3. /\ schedproc' = [schedproc EXCEPT ![p].priority = q]
        /\ kernel' = [kernel EXCEPT ![p] = Scheduled(p, q)]
        /\ pm' = pm
    BY <1>3 DEF do_noquantum
  <2> HIDE DEF q
  <2>4. Scheduled(p, q) \in KernelT
    BY <2>2, NewPrioType DEF Scheduled, KernelT
  <2>5. schedproc' \in [Procs -> SlotT]
    BY <2>1, <2>2, <2>3 DEF TypeOK, SlotT
  <2> QED
    BY <2>2, <2>3, <2>4, <2>5 DEF TypeOK, SlotT
<1>4. CASE do_start_inherit(p)
  <2> DEFINE slot == Started(p, pm[p].parent)
  <2>1. pm[p] \in PmT /\ pm[p].parent \in Procs
    BY DEF TypeOK, PmT
  <2>2. slot \in SlotT /\ (policy = "A03" => slot.priority \in Queues)
    BY <2>1 DEF TypeOK, SlotT, PmT, Started
  <2>3. /\ schedproc' = [schedproc EXCEPT ![p] = slot]
        /\ kernel' = [kernel EXCEPT ![p] = Scheduled(p, slot.priority)]
        /\ pm' = [pm EXCEPT ![p].awaited = FALSE]
    BY <1>4 DEF do_start_inherit
  <2> HIDE DEF slot
  <2>4. Scheduled(p, slot.priority) \in KernelT
    BY <2>2, NewPrioType DEF Scheduled, KernelT, SlotT
  <2>5. pm' \in [Procs -> PmT]
    BY <2>1, <2>3 DEF TypeOK, PmT
  <2> QED
    BY <2>2, <2>3, <2>4, <2>5 DEF TypeOK
<1>5. ASSUME NEW parent \in Procs, Fork(parent, p)
      PROVE  TypeOK'
  <2>1. pm[parent] \in PmT /\ kernel[parent] \in KernelT
    BY DEF TypeOK
  <2>2. [pm[parent] EXCEPT !.parent = parent, !.awaited = TRUE] \in PmT
    BY <2>1 DEF PmT
  <2>3. [state |-> "noq", queue |-> kernel[parent].queue] \in KernelT
    BY <2>1 DEF KernelT
  <2> QED
    BY <1>5, <2>2, <2>3 DEF Fork, TypeOK
<1>6. ASSUME NEW max \in Niceness, do_start_service(p, max)
      PROVE  TypeOK'
  <2>1. max \in Queues /\ max \in Priorities
    BY <1>6 DEF do_start_service, Priorities
  <2>2. [in_use |-> TRUE, priority |-> max, max_priority |-> max] \in SlotT
    BY <2>1 DEF SlotT
  <2>3. Scheduled(p, max) \in KernelT
    BY <2>1, NewPrioType DEF Scheduled, KernelT
  <2>4. [Unborn EXCEPT !.nice = max, !.service = TRUE] \in PmT
    BY <2>1 DEF Unborn, PmT
  <2> QED
    BY <1>6, <2>1, <2>2, <2>3, <2>4 DEF do_start_service, TypeOK
<1>7. CASE do_stop_scheduling(p)
  <2>1. Unborn \in PmT
    BY DEF Unborn, PmT
  <2>2. ASSUME NEW c \in Procs
        PROVE  [pm[c] EXCEPT !.parent = INIT_PROC, !.awaited = FALSE] \in PmT
    <3>1. pm[c] \in PmT
      BY DEF TypeOK
    <3> QED
      BY <3>1 DEF PmT
  <2>3. pm' \in [Procs -> PmT]
    BY <1>7, <2>1, <2>2 DEF do_stop_scheduling, TypeOK
  <2>4. schedproc' \in [Procs -> SlotT] /\ kernel' \in [Procs -> KernelT]
    BY <1>7 DEF do_stop_scheduling, TypeOK, SlotT, KernelT
  <2>5. \A c \in Procs : schedproc'[c].priority = schedproc[c].priority
    BY <1>7 DEF do_stop_scheduling, TypeOK, SlotT
  <2> QED
    BY <2>3, <2>4, <2>5 DEF TypeOK
<1>8. ASSUME NEW new_q \in Niceness, do_nice(p, new_q)
      PROVE  TypeOK'
  <2>1. new_q \in Queues /\ new_q \in Priorities
    BY <1>8 DEF do_nice, Priorities
  <2>2. CASE ~Alive(p)
    BY <1>8, <2>2 DEF do_nice, TypeOK
  <2>3. CASE Alive(p)
    <3>1. /\ schedproc' = [schedproc EXCEPT ![p].priority = new_q, ![p].max_priority = new_q]
          /\ kernel' = [kernel EXCEPT ![p] = Requeued(p, new_q)]
          /\ pm' = [pm EXCEPT ![p].nice = new_q]
      BY <1>8, <2>3 DEF do_nice
    <3>2. Requeued(p, new_q) \in KernelT
      BY <2>1, NewPrioType DEF Requeued, KernelT, TypeOK
    <3>3. schedproc' \in [Procs -> SlotT]
          /\ (policy = "A03" => \A c \in Procs : schedproc'[c].priority \in Queues)
      BY <2>1, <3>1 DEF TypeOK, SlotT
    <3>4. pm' \in [Procs -> PmT]
      BY <2>1, <3>1 DEF TypeOK, PmT
    <3> QED
      BY <3>1, <3>2, <3>3, <3>4 DEF TypeOK
  <2> QED
    BY <2>2, <2>3
<1> QED
  BY <1>1, <1>2, <1>3, <1>4, <1>5, <1>6, <1>7, <1>8 DEF Step

\* The timer makes only the priority of a process better that is worse than its
\* best one, so it never goes below queue 0.
LEMMA BalanceType ==
    ASSUME TypeOK, balance_queues, UNCHANGED policy
    PROVE  TypeOK'
<1> USE Constants
<1>1. ASSUME NEW p \in Bumped
      PROVE  /\ p \in Procs
             /\ schedproc[p].priority - BalanceStep \in Priorities
             /\ policy = "A03" => schedproc[p].priority - BalanceStep \in Queues
  <2>1. p \in Procs /\ schedproc[p] \in SlotT
        /\ schedproc[p].priority > schedproc[p].max_priority
    BY DEF Bumped, TypeOK
  <2>2. CASE policy = "A03"
    BY <2>1, <2>2 DEF BalanceStep, TypeOK, SlotT, Priorities
  <2>3. CASE policy # "A03"
    BY <2>1, <2>3 DEF BalanceStep, TypeOK, SlotT, Priorities
  <2> QED
    BY <2>1, <2>2, <2>3
<1>2. \A p \in Bumped : [schedproc[p] EXCEPT !.priority = @ - BalanceStep] \in SlotT
  BY <1>1 DEF TypeOK, SlotT
<1>3. \A p \in Bumped : Requeued(p, schedproc[p].priority - BalanceStep) \in KernelT
  BY <1>1, NewPrioType DEF Requeued, TypeOK, KernelT
<1>4. schedproc' \in [Procs -> SlotT]
  BY <1>2 DEF balance_queues, TypeOK
<1>5. kernel' \in [Procs -> KernelT]
  BY <1>3 DEF balance_queues, TypeOK
<1>6. policy = "A03" => \A p \in Procs : schedproc'[p].priority \in Queues
  BY <1>1 DEF balance_queues, TypeOK, SlotT
<1> QED
  BY <1>4, <1>5, <1>6 DEF balance_queues, TypeOK

\* The first states have the types.
LEMMA InitType == Init => TypeOK
  BY Constants, PolicyAssumption
  DEF Init, TypeOK, FreeSlot, Unborn, SlotT, KernelT, PmT, Priorities

\* SCHED never asks the kernel for a queue that does not exist, and its unsigned
\* priority is a queue or the wrapped -1, the latter with "pseudo FIFO" only.
THEOREM TypeCorrect == Spec => []TypeOK
<1>1. TypeOK /\ [Next]_vars => TypeOK'
  <2> SUFFICES ASSUME TypeOK, [Next]_vars PROVE TypeOK'
    OBVIOUS
  <2>1. CASE UNCHANGED vars
    BY <2>1 DEF vars, TypeOK
  <2>2. CASE Next
    BY <2>2, NextCases, StepType, BalanceType
  <2> QED
    BY <2>1, <2>2
<1> QED
  BY <1>1, InitType, PTL DEF Spec

-----------------------------------------------------------------------------
(* The views of a process *)

\* Every step of a process keeps the three views in agreement.
LEMMA StepViews ==
    ASSUME TypeOK, TypeOK', ViewsAgree, NEW p \in Procs, Step(p), UNCHANGED policy
    PROVE  ViewsAgree'
<1> USE DEF ViewsAgree, KernelAgrees, NiceAgrees, Alive, NewPrio
<1>1. CASE OutOfQuantum(p)
  BY <1>1 DEF OutOfQuantum, TypeOK, KernelT
<1>2. CASE Die(p)
  BY <1>2 DEF Die, TypeOK, KernelT
<1>3. CASE do_noquantum(p)
  BY <1>3 DEF do_noquantum, Scheduled, TypeOK, KernelT, SlotT
<1>4. CASE do_start_inherit(p)
  BY <1>4 DEF do_start_inherit, Started, Scheduled, TypeOK, KernelT, SlotT, PmT
<1>5. ASSUME NEW parent \in Procs, Fork(parent, p)
      PROVE  ViewsAgree'
  BY <1>5 DEF Fork, TypeOK
<1>6. ASSUME NEW max \in Niceness, do_start_service(p, max)
      PROVE  ViewsAgree'
  BY <1>6 DEF do_start_service, Scheduled, Unborn, TypeOK
<1>7. CASE do_stop_scheduling(p)
  <2>1. ~schedproc'[p].in_use
    BY <1>7 DEF do_stop_scheduling, TypeOK, SlotT
  <2>2. ASSUME NEW c \in Procs, c # p
        PROVE  schedproc'[c] = schedproc[c] /\ kernel'[c] = kernel[c] /\ pm'[c].nice = pm[c].nice
    <3>1. pm[c] \in PmT
      BY DEF TypeOK
    <3>2. [pm[c] EXCEPT !.parent = INIT_PROC, !.awaited = FALSE].nice = pm[c].nice
      BY <3>1 DEF PmT
    <3> QED
      BY <1>7, <2>2, <3>2 DEF do_stop_scheduling, TypeOK
  <2> QED
    BY <2>1, <2>2
<1>8. ASSUME NEW new_q \in Niceness, do_nice(p, new_q)
      PROVE  ViewsAgree'
  <2>1. CASE ~Alive(p)
    BY <1>8, <2>1 DEF do_nice
  <2>2. CASE Alive(p)
    <3>1. \A c \in Procs : c # p =>
            schedproc'[c] = schedproc[c] /\ kernel'[c] = kernel[c] /\ pm'[c] = pm[c]
      BY <1>8, <2>2 DEF do_nice, TypeOK
    <3>2. kernel'[p].queue = NewPrio(p, new_q) /\ pm'[p].nice = new_q
      BY <1>8, <2>2 DEF do_nice, Requeued, TypeOK, KernelT, PmT
    <3>3. schedproc'[p].priority = new_q /\ schedproc'[p].max_priority = new_q
      BY <1>8, <2>2 DEF do_nice, TypeOK, SlotT
    <3> QED
      BY <3>1, <3>2, <3>3
  <2> QED
    BY <2>1, <2>2
<1> QED
  BY <1>1, <1>2, <1>3, <1>4, <1>5, <1>6, <1>7, <1>8 DEF Step

\* The timer keeps them in agreement: it schedules every process it moves up.
LEMMA BalanceViews ==
    ASSUME TypeOK, TypeOK', ViewsAgree, balance_queues, UNCHANGED policy
    PROVE  ViewsAgree'
  BY DEF ViewsAgree, KernelAgrees, NiceAgrees, Alive, NewPrio, balance_queues, Requeued,
         TypeOK, KernelT, SlotT

\* The queue a live process sits in is the one SCHED has chosen, and SCHED's best
\* priority is PM's nice value, also when parents are killed or reniced in fork.
THEOREM ViewsCorrect == Spec => []ViewsAgree
<1>1. Init => ViewsAgree
  BY InitAssumption DEF Init, ViewsAgree, KernelAgrees, NiceAgrees, Alive, NewPrio, FreeSlot, Unborn
<1>2. TypeOK /\ TypeOK' /\ ViewsAgree /\ [Next]_vars => ViewsAgree'
  <2> SUFFICES ASSUME TypeOK, TypeOK', ViewsAgree, [Next]_vars PROVE ViewsAgree'
    OBVIOUS
  <2>1. CASE UNCHANGED vars
    BY <2>1 DEF vars, ViewsAgree, KernelAgrees, NiceAgrees, Alive, NewPrio
  <2>2. CASE Next
    BY <2>2, NextCases, StepViews, BalanceViews
  <2> QED
    BY <2>1, <2>2
<1> QED
  BY <1>1, <1>2, TypeCorrect, PTL DEF Spec

-----------------------------------------------------------------------------
(* The bounds of a priority *)

\* A process that waits in fork is neither stopped nor reniced.
LEMMA NotForking ==
    ASSUME TypeOK, ~ForkRaces, BoundsInv, NEW p \in Procs, Forking(p) => ForkRaces,
           NEW c \in Procs, Newborn(c)
    PROVE  pm[c].parent # p
  BY DEF Forking, BoundsInv, NewbornOK

\* Every step of a process keeps its priority within its bounds.  A priority is
\* compared with a nice value from elsewhere only when a child inherits it.
LEMMA StepBounds ==
    ASSUME TypeOK, TypeOK', ~ForkRaces, ViewsAgree, BoundsInv,
           NEW p \in Procs, Step(p), UNCHANGED policy
    PROVE  BoundsInv'
<1> USE Constants
<1> DEFINE Bounds(c) == schedproc[c].in_use => PriorityOK(c) /\
                          (policy = "A05" /\ Alive(c) => kernel[c].queue <= schedproc[c].max_priority)
           Same(c) == schedproc'[c] = schedproc[c] /\ kernel'[c] = kernel[c] /\ pm'[c] = pm[c]
<1>a. \A c \in Procs : Bounds(c)
  BY DEF BoundsInv, WithinBounds
<1>b. SUFFICES /\ \A c \in Procs : Bounds(c)'
               /\ \A c \in Procs : (Newborn(c) => NewbornOK(c))'
  <2>1. ASSUME \A c \in Procs : Bounds(c)'
        PROVE  WithinBounds'
    BY <2>1 DEF WithinBounds, TypeOK, SlotT, PriorityOK
  <2> QED
    BY <2>1 DEF BoundsInv
<1>c. \A c \in Procs : Newborn(c) => NewbornOK(c)
  BY DEF BoundsInv
<1>1. CASE OutOfQuantum(p)
  <2>1. schedproc' = schedproc /\ pm' = pm /\ schedproc[p].in_use
    BY <1>1 DEF OutOfQuantum
  <2>2. \A c \in Procs : kernel'[c].queue = kernel[c].queue /\ (c # p => kernel'[c] = kernel[c])
    BY <1>1 DEF OutOfQuantum, TypeOK, KernelT
  <2>3. kernel[p].state = "run"
    BY <1>1 DEF OutOfQuantum
  <2>4. \A c \in Procs : Alive(c)' => Alive(c)
    BY <2>2, <2>3 DEF Alive
  <2>5. \A c \in Procs : Bounds(c)'
    BY <1>a, <2>1, <2>2, <2>4 DEF PriorityOK
  <2>6. \A c \in Procs : (Newborn(c) => NewbornOK(c))'
    BY <1>c, <2>1, <2>2 DEF Newborn, NewbornOK
  <2> QED
    BY <2>5, <2>6
<1>2. CASE Die(p)
  <2>1. schedproc' = schedproc /\ pm' = pm /\ schedproc[p].in_use
    BY <1>2 DEF Die
  <2>2. \A c \in Procs : kernel'[c].queue = kernel[c].queue /\ (c # p => kernel'[c] = kernel[c])
    BY <1>2 DEF Die, TypeOK, KernelT
  <2>3. \A c \in Procs : Alive(c)' => Alive(c)
    BY <1>2, <2>2 DEF Die, Alive
  <2>4. \A c \in Procs : Bounds(c)'
    BY <1>a, <2>1, <2>2, <2>3 DEF PriorityOK
  <2>5. \A c \in Procs : (Newborn(c) => NewbornOK(c))'
    BY <1>c, <2>1, <2>2 DEF Newborn, NewbornOK
  <2> QED
    BY <2>4, <2>5
<1>3. CASE do_noquantum(p)
  <2> DEFINE old == schedproc[p].priority
             q == IF old < MIN_USER_Q THEN (old + NoQuantumStep) % (UINT_MAX + 1) ELSE old
  <2>1. schedproc[p] \in SlotT /\ old \in Priorities /\ (policy = "A03" => old \in Queues)
        /\ schedproc[p].in_use /\ kernel[p].state = "noq" /\ kernel[p] \in KernelT
    BY <1>3 DEF TypeOK, SlotT, do_noquantum
  <2>2. /\ q \in Priorities
        /\ policy = "A03" => q \in Queues /\ old <= q
        /\ policy = "A05" => q = UINT_MAX \/ q <= old
        /\ old = UINT_MAX => q = UINT_MAX
    <3>1. old = UINT_MAX => q = UINT_MAX
      OBVIOUS
    <3> HIDE DEF old
    <3> QED
      BY <2>1, <3>1, QuantumArith
  <2>3. /\ schedproc' = [schedproc EXCEPT ![p].priority = q]
        /\ kernel' = [kernel EXCEPT ![p] = Scheduled(p, q)]
        /\ pm' = pm
    BY <1>3 DEF do_noquantum
  <2> HIDE DEF q
  <2>4. \A c \in Procs : c # p => Same(c)
    BY <2>3 DEF TypeOK
  <2>5. /\ schedproc'[p].priority = q /\ schedproc'[p].max_priority = schedproc[p].max_priority
        /\ schedproc'[p].in_use /\ kernel'[p].queue = NewPrio(p, q)
        /\ kernel'[p].state = "run"
    BY <2>1, <2>3 DEF TypeOK, SlotT, Scheduled
  <2>6. \A c \in Procs : c # p => Bounds(c)'
    BY <1>a, <2>4 DEF PriorityOK, Alive
  <2>7. PriorityOK(p) /\ (policy = "A05" => kernel[p].queue <= schedproc[p].max_priority)
    BY <1>a, <2>1 DEF Alive
  <2>8. PriorityOK(p)'
    <3>1. CASE policy = "A03"
      <4>1. schedproc[p].max_priority <= old
        BY <2>7, <3>1 DEF PriorityOK
      <4>2. schedproc[p].max_priority <= q
        BY <2>1, <2>2, <3>1, <4>1 DEF SlotT
      <4> QED
        BY <2>5, <3>1, <4>2 DEF PriorityOK
    <3>2. CASE policy = "A05" /\ q = UINT_MAX
      BY <2>5, <3>2 DEF PriorityOK
    <3>3. CASE policy = "A05" /\ q # UINT_MAX
      <4>1. q <= old /\ old <= schedproc[p].max_priority
        BY <2>2, <2>7, <3>3 DEF PriorityOK
      <4>2. q <= schedproc[p].max_priority
        BY <2>1, <2>2, <3>3, <4>1 DEF SlotT, Priorities
      <4> QED
        BY <2>5, <3>3, <4>2 DEF PriorityOK
    <3> QED
      BY <3>1, <3>2, <3>3 DEF TypeOK
  <2>9. policy = "A05" => kernel'[p].queue <= schedproc'[p].max_priority
    <3> SUFFICES ASSUME policy = "A05" PROVE NewPrio(p, q) <= schedproc[p].max_priority
      BY <2>5
    <3>1. CASE q = UINT_MAX
      BY <2>7, <3>1 DEF NewPrio
    <3>2. CASE q # UINT_MAX
      BY <2>5, <2>8, <3>2 DEF NewPrio, PriorityOK
    <3> QED
      BY <3>1, <3>2
  <2>10. \A c \in Procs : Bounds(c)'
    BY <2>6, <2>8, <2>9
  <2>11. \A c \in Procs : (Newborn(c) => NewbornOK(c))'
    <3> SUFFICES ASSUME NEW c \in Procs, Newborn(c)'
                 PROVE  NewbornOK(c)'
      OBVIOUS
    <3>1. c # p /\ Newborn(c) /\ pm[c] \in PmT
      BY <2>4, <2>5 DEF Newborn, TypeOK
    <3>2. pm[c].parent \in Procs
      BY <3>1 DEF PmT
    <3>3. NewbornOK(c)
      BY <1>c, <3>1
    <3>4. /\ schedproc'[pm[c].parent].in_use
          /\ schedproc'[pm[c].parent].max_priority = schedproc[pm[c].parent].max_priority
      BY <2>1, <2>4, <2>5, <3>2, <3>3 DEF NewbornOK
    <3> QED
      BY <2>3, <2>4, <3>1, <3>3, <3>4 DEF NewbornOK
  <2> QED
    BY <2>10, <2>11
<1>4. CASE do_start_inherit(p)
  <2> DEFINE parent == pm[p].parent
             slot == Started(p, parent)
  <2>1. Newborn(p) /\ NewbornOK(p) /\ pm[p] \in PmT /\ parent \in Procs /\ kernel[p] \in KernelT
    BY <1>4, <1>c DEF do_start_inherit, Newborn, TypeOK, PmT
  <2>2. PriorityOK(parent) /\ schedproc[parent] \in SlotT
        /\ pm[p].nice = schedproc[parent].max_priority
        /\ (policy = "A05" => kernel[p].queue <= pm[p].nice)
    BY <1>a, <2>1 DEF NewbornOK, TypeOK
  <2>3. /\ schedproc' = [schedproc EXCEPT ![p] = slot]
        /\ kernel' = [kernel EXCEPT ![p] = Scheduled(p, slot.priority)]
        /\ pm' = [pm EXCEPT ![p].awaited = FALSE]
    BY <1>4 DEF do_start_inherit
  <2>4. \A c \in Procs : c # p => Same(c)
    BY <2>3 DEF TypeOK
  <2>5. /\ schedproc'[p].priority = schedproc[parent].priority
        /\ schedproc'[p].max_priority = schedproc[parent].max_priority
        /\ schedproc'[p].in_use
        /\ kernel'[p].queue = NewPrio(p, schedproc[parent].priority)
        /\ kernel'[p].state = "run"
    BY <2>2, <2>3 DEF TypeOK, Started, Scheduled
  <2>6. \A c \in Procs : c # p => Bounds(c)'
    BY <1>a, <2>4 DEF PriorityOK, Alive
  <2>7. PriorityOK(p)'
    BY <2>2, <2>5 DEF PriorityOK
  <2>8. policy = "A05" => kernel'[p].queue <= schedproc'[p].max_priority
    BY <2>2, <2>5 DEF PriorityOK, NewPrio
  <2>9. \A c \in Procs : Bounds(c)'
    BY <2>6, <2>7, <2>8
  <2>10. \A c \in Procs : (Newborn(c) => NewbornOK(c))'
    <3> SUFFICES ASSUME NEW c \in Procs, Newborn(c)'
                 PROVE  NewbornOK(c)'
      OBVIOUS
    <3>1. c # p /\ Newborn(c) /\ NewbornOK(c) /\ pm[c] \in PmT
      BY <1>c, <2>4, <2>5 DEF Newborn, TypeOK
    <3>2. pm[c].parent \in Procs /\ pm[c].parent # p
      BY <2>1, <3>1 DEF PmT, Newborn, NewbornOK
    <3> QED
      BY <2>4, <3>1, <3>2 DEF NewbornOK
  <2> QED
    BY <2>9, <2>10
<1>5. ASSUME NEW parent \in Procs, Fork(parent, p)
      PROVE  /\ \A c \in Procs : Bounds(c)'
             /\ \A c \in Procs : (Newborn(c) => NewbornOK(c))'
  <2>1. /\ schedproc' = schedproc /\ schedproc[parent].in_use /\ ~schedproc[p].in_use
        /\ kernel[parent].state = "run" /\ parent # p
        /\ \A c \in Procs : c # p => Same(c)
    BY <1>5 DEF Fork, TypeOK
  <2>2. /\ kernel'[p].queue = kernel[parent].queue
        /\ pm'[p].nice = pm[parent].nice /\ pm'[p].parent = parent /\ pm'[p].awaited
    <3>1. pm[parent] \in PmT
      BY DEF TypeOK
    <3> QED
      BY <1>5, <3>1 DEF Fork, TypeOK, PmT
  <2>3. \A c \in Procs : Bounds(c)'
    BY <1>a, <2>1 DEF PriorityOK, Alive
  <2>4. pm[parent].nice = schedproc[parent].max_priority
        /\ (policy = "A05" => kernel[parent].queue <= schedproc[parent].max_priority)
    BY <1>a, <2>1 DEF ViewsAgree, NiceAgrees, Alive
  <2>5. NewbornOK(p)'
    BY <2>1, <2>2, <2>4 DEF NewbornOK
  <2>6. ASSUME NEW c \in Procs, c # p, Newborn(c)'
        PROVE  NewbornOK(c)'
    BY <1>c, <2>1, <2>6 DEF Newborn, NewbornOK
  <2> QED
    BY <2>3, <2>5, <2>6
<1>6. ASSUME NEW max \in Niceness, do_start_service(p, max)
      PROVE  /\ \A c \in Procs : Bounds(c)'
             /\ \A c \in Procs : (Newborn(c) => NewbornOK(c))'
  <2>1. /\ ~schedproc[p].in_use /\ max \in Nat /\ max < UINT_MAX
        /\ \A c \in Procs : c # p => Same(c)
    BY <1>6 DEF do_start_service, TypeOK
  <2>2. /\ schedproc'[p].in_use /\ schedproc'[p].priority = max /\ schedproc'[p].max_priority = max
        /\ kernel'[p].queue = max
    BY <1>6, <2>1 DEF do_start_service, TypeOK, Scheduled, NewPrio
  <2>3. \A c \in Procs : c # p => Bounds(c)'
    BY <1>a, <2>1 DEF PriorityOK, Alive
  <2>4. Bounds(p)'
    BY <2>1, <2>2 DEF PriorityOK
  <2>5. ASSUME NEW c \in Procs, Newborn(c)'
        PROVE  NewbornOK(c)'
    <3>1. c # p /\ Newborn(c) /\ NewbornOK(c) /\ pm[c] \in PmT
      BY <1>c, <2>1, <2>2, <2>5 DEF Newborn, TypeOK
    <3>2. pm[c].parent \in Procs /\ pm[c].parent # p
      BY <2>1, <3>1 DEF PmT, NewbornOK
    <3> QED
      BY <2>1, <3>1, <3>2 DEF NewbornOK
  <2> QED
    BY <2>3, <2>4, <2>5
<1>7. CASE do_stop_scheduling(p) /\ (Forking(p) => ForkRaces)
  <2>1. ~schedproc'[p].in_use
    BY <1>7 DEF do_stop_scheduling, TypeOK, SlotT
  <2>2. kernel'[p].state = "none"
    BY <1>7 DEF do_stop_scheduling, TypeOK, KernelT
  <2>3. \A c \in Procs : c # p => schedproc'[c] = schedproc[c] /\ kernel'[c] = kernel[c]
    BY <1>7 DEF do_stop_scheduling, TypeOK
  <2>4. \A c \in Procs : Bounds(c)'
    BY <1>a, <2>1, <2>3 DEF PriorityOK, Alive
  <2>5. ASSUME NEW c \in Procs, Newborn(c)'
        PROVE  NewbornOK(c)'
    <3>1. c # p /\ Newborn(c) /\ NewbornOK(c) /\ pm[c] \in PmT
      BY <1>c, <2>2, <2>3, <2>5 DEF Newborn, TypeOK
    <3>2. pm[c].parent \in Procs /\ pm[c].parent # p
      BY <1>7, <3>1, NotForking DEF PmT
    <3>3. pm'[c] = pm[c]
      BY <1>7, <3>1, <3>2 DEF do_stop_scheduling
    <3> QED
      BY <2>3, <3>1, <3>2, <3>3 DEF NewbornOK
  <2> QED
    BY <2>4, <2>5
<1>8. ASSUME NEW new_q \in Niceness, do_nice(p, new_q), Forking(p) => ForkRaces
      PROVE  /\ \A c \in Procs : Bounds(c)'
             /\ \A c \in Procs : (Newborn(c) => NewbornOK(c))'
  <2>1. CASE ~Alive(p)
    <3>1. schedproc' = schedproc /\ kernel' = kernel /\ pm' = pm
      BY <1>8, <2>1 DEF do_nice
    <3> QED
      BY <1>a, <1>c, <3>1 DEF PriorityOK, Alive, Newborn, NewbornOK
  <2>2. CASE Alive(p)
    <3>1. \A c \in Procs : c # p => Same(c)
      BY <1>8, <2>2 DEF do_nice, TypeOK
    <3>2. new_q \in Nat /\ new_q < UINT_MAX
      BY <1>8 DEF do_nice
    <3>3. kernel'[p].queue = new_q
      BY <1>8, <2>2, <3>2 DEF do_nice, Requeued, NewPrio, TypeOK, KernelT
    <3>4. schedproc'[p].priority = new_q /\ schedproc'[p].max_priority = new_q
          /\ schedproc'[p].in_use
      BY <1>8, <2>2 DEF do_nice, TypeOK, SlotT
    <3>5. \A c \in Procs : c # p => Bounds(c)'
      BY <1>a, <3>1 DEF PriorityOK, Alive
    <3>6. Bounds(p)'
      BY <3>2, <3>3, <3>4 DEF PriorityOK
    <3>7. ASSUME NEW c \in Procs, Newborn(c)'
          PROVE  NewbornOK(c)'
      <4>1. c # p /\ Newborn(c) /\ NewbornOK(c) /\ pm[c] \in PmT
        BY <1>c, <3>1, <3>4, <3>7 DEF Newborn, TypeOK
      <4>2. pm[c].parent \in Procs /\ pm[c].parent # p
        BY <1>8, <4>1, NotForking DEF PmT
      <4> QED
        BY <3>1, <4>1, <4>2 DEF NewbornOK
    <3> QED
      BY <3>5, <3>6, <3>7
  <2> QED
    BY <2>1, <2>2
<1> QED
  BY <1>1, <1>2, <1>3, <1>4, <1>5, <1>6, <1>7, <1>8 DEF Step

\* The timer keeps every priority within its bounds: it stops at the best one.
LEMMA BalanceBounds ==
    ASSUME TypeOK, TypeOK', ViewsAgree, BoundsInv, balance_queues, UNCHANGED policy
    PROVE  BoundsInv'
<1> USE Constants
<1>1. /\ pm' = pm
      /\ \A c \in Procs : /\ schedproc'[c].in_use = schedproc[c].in_use
                          /\ schedproc'[c].max_priority = schedproc[c].max_priority
                          /\ kernel'[c].state = kernel[c].state
  BY DEF balance_queues, Requeued, TypeOK, SlotT, KernelT
<1>2. ASSUME NEW c \in Procs
      PROVE  /\ policy = "A05" => schedproc'[c].priority = schedproc[c].priority
                                   /\ kernel'[c].queue = kernel[c].queue
             /\ c \notin Bumped => schedproc'[c] = schedproc[c]
             /\ c \in Bumped => schedproc'[c].priority = schedproc[c].priority - BalanceStep
  <2>1. schedproc[c] \in SlotT /\ kernel[c] \in KernelT
    BY DEF TypeOK
  <2>2. c \notin Bumped => schedproc'[c] = schedproc[c] /\ kernel'[c] = kernel[c]
    BY DEF balance_queues
  <2>3. c \in Bumped => schedproc'[c].priority = schedproc[c].priority - BalanceStep
    BY <2>1 DEF balance_queues, SlotT
  <2>4. ASSUME c \in Bumped, policy = "A05"
        PROVE  schedproc'[c].priority = schedproc[c].priority /\ kernel'[c].queue = kernel[c].queue
    <3>1. schedproc'[c].priority = schedproc[c].priority
      BY <2>1, <2>3, <2>4 DEF BalanceStep, SlotT, Priorities
    <3>2. kernel'[c].queue = IF Alive(c) THEN NewPrio(c, schedproc[c].priority - BalanceStep)
                             ELSE kernel[c].queue
      BY <2>1, <2>4 DEF balance_queues, Requeued, KernelT
    <3>3. Alive(c) => NewPrio(c, schedproc[c].priority - BalanceStep) = kernel[c].queue
      BY <2>3, <2>4, <3>1 DEF ViewsAgree, KernelAgrees, NewPrio, Bumped
    <3> QED
      BY <3>1, <3>2, <3>3
  <2> QED
    BY <2>2, <2>3, <2>4
<1>3. \A c \in Procs : (Newborn(c) => NewbornOK(c))'
  <2> SUFFICES ASSUME NEW c \in Procs, Newborn(c)'
               PROVE  NewbornOK(c)'
    OBVIOUS
  <2>1. Newborn(c) /\ NewbornOK(c) /\ pm[c] \in PmT
    BY <1>1 DEF Newborn, BoundsInv, TypeOK
  <2>2. pm[c].parent \in Procs
    BY <2>1 DEF PmT
  <2> QED
    BY <1>1, <1>2, <2>1, <2>2 DEF NewbornOK
<1>4. ASSUME NEW c \in Procs, schedproc'[c].in_use
      PROVE  PriorityOK(c)'
  <2>1. schedproc[c] \in SlotT /\ PriorityOK(c)
    BY <1>1, <1>4 DEF TypeOK, BoundsInv
  <2>2. CASE policy = "A03" /\ c \in Bumped
    BY <1>1, <1>2, <2>1, <2>2 DEF PriorityOK, Bumped, BalanceStep, SlotT, Priorities
  <2>3. CASE policy = "A05" \/ c \notin Bumped
    BY <1>1, <1>2, <2>1, <2>3 DEF PriorityOK
  <2> QED
    BY <2>2, <2>3 DEF TypeOK
<1>5. WithinBounds'
  <2> SUFFICES ASSUME NEW c \in Procs, schedproc'[c].in_use
               PROVE  IF policy = "A03"
                      THEN /\ schedproc'[c].max_priority <= schedproc'[c].priority
                           /\ schedproc'[c].priority <= MIN_USER_Q
                      ELSE Alive(c)' => kernel'[c].queue <= schedproc'[c].max_priority
    BY DEF WithinBounds
  <2>1. CASE policy = "A03"
    BY <1>4, <2>1 DEF PriorityOK, TypeOK
  <2>2. CASE policy = "A05"
    BY <1>1, <1>2, <2>2 DEF BoundsInv, WithinBounds, Alive
  <2> QED
    BY <2>1, <2>2 DEF TypeOK
<1> QED
  BY <1>3, <1>4, <1>5 DEF BoundsInv

\* If no process is killed or reniced while it waits in fork, no process runs
\* better than its nice value allows and none falls off the last queue; with the
\* pseudo FIFO policy the kernel's queue is none behind the nice value's.
THEOREM BoundsCorrect == ~ForkRaces => (Spec => []WithinBounds)
<1> SUFFICES ASSUME ~ForkRaces PROVE Spec => []WithinBounds
  OBVIOUS
<1>1. Init => BoundsInv
  BY Constants DEF Init, BoundsInv, Newborn, NewbornOK, PriorityOK, WithinBounds, Alive, FreeSlot, Unborn
<1>2. TypeOK /\ TypeOK' /\ ViewsAgree /\ BoundsInv /\ [Next]_vars => BoundsInv'
  <2> SUFFICES ASSUME TypeOK, TypeOK', ViewsAgree, BoundsInv, [Next]_vars PROVE BoundsInv'
    OBVIOUS
  <2>1. CASE UNCHANGED vars
    BY <2>1 DEF vars, BoundsInv, Newborn, NewbornOK, PriorityOK, WithinBounds, Alive
  <2>2. CASE Next
    BY <2>2, NextCases, StepBounds, BalanceBounds
  <2> QED
    BY <2>1, <2>2
<1>3. BoundsInv => WithinBounds
  BY DEF BoundsInv
<1> QED
  BY <1>1, <1>2, <1>3, TypeCorrect, ViewsCorrect, PTL DEF Spec
=============================================================================
