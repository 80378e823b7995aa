-------------------------------- MODULE Sched --------------------------------
(***************************************************************************)
(* The user-space scheduling server SCHED: the file schedule.c of          *)
(* "Assignment 03" (the MINIX policy) and of "Assignment 05" (its          *)
(* "pseudo FIFO" variant), which differ in the two steps below.            *)
(*                                                                         *)
(* SCHED keeps a priority for every process and tells the kernel about it. *)
(* A process that has used up its quantum is stopped by the kernel until   *)
(* SCHED schedules it again.  SCHED handles one message or timer at a time *)
(* to its end.  The kernel and PM are modelled from how SCHED uses them.   *)
(*                                                                         *)
(* Abstracted: time slices, the choice of a CPU (the uniprocessor build),  *)
(* printing.  A request that is refused before a slot in use changes has   *)
(* no action.                                                              *)
(***************************************************************************)
EXTENDS Integers, FiniteSets

CONSTANTS
    Procs,              \* slots for processes
    INIT_PROC,          \* the first process, its own parent
    NR_SCHED_QUEUES,    \* the kernel's queues, 0 the best
    USER_Q,             \* the queue of INIT_PROC
    UINT_MAX,           \* the largest unsigned integer
    Policies,           \* the policies looked at: "A03", "A05"
    Niceness,           \* the queues that requests ask for
    ForkRaces           \* may a process be killed or reniced while it waits in fork?

MIN_USER_Q == NR_SCHED_QUEUES - 1
Queues == 0 .. MIN_USER_Q

ASSUME InitAssumption == INIT_PROC \in Procs
ASSUME QueuesAssumption ==
    /\ NR_SCHED_QUEUES \in Nat \ {0} /\ USER_Q \in Queues
    /\ UINT_MAX \in Nat /\ UINT_MAX > NR_SCHED_QUEUES
    /\ Niceness \subseteq Nat
ASSUME PolicyAssumption ==
    /\ Policies \subseteq {"A03", "A05"} /\ ForkRaces \in BOOLEAN

VARIABLES
    policy,         \* which schedule.c it is
    schedproc,      \* SCHED's table
    kernel,         \* the kernel's view: queue and state of every process: "none",
                    \* "run", "noq" (out of quantum, and blocked until SCHED handles
                    \* the message that says so; a forked process: until SCHED is
                    \* told of it), "dead" (cleared, but SCHED is not yet told)
    pm              \* what PM knows: parent, is it waiting in fork for this
                    \* process?, queue of the nice value, service?

vars == <<policy, schedproc, kernel, pm>>

\* What do_noquantum adds to a priority, and balance_queues takes off.
NoQuantumStep == IF policy = "A03" THEN 1 ELSE -1
BalanceStep == IF policy = "A03" THEN 1 ELSE 0

FreeSlot == [in_use |-> FALSE, priority |-> 0, max_priority |-> 0]

Alive(p) == kernel[p].state \in {"run", "noq"}

\* The queue a priority names when it is passed as an int: UINT_MAX becomes -1,
\* which leaves the queue alone.
NewPrio(p, priority) == IF priority = UINT_MAX THEN kernel[p].queue ELSE priority

\* sys_schedule() for a process that is new or whose message has been received:
\* it has a quantum and can run.
Scheduled(p, priority) == [state |-> "run", queue |-> NewPrio(p, priority)]

\* The same for any other process: one that still sends its message stays blocked.
Requeued(p, priority) == [kernel[p] EXCEPT !.queue = NewPrio(p, priority)]

\* Is p waiting in fork for a child that SCHED has not been told of?
Forking(p) == \E c \in Procs : pm[c].parent = p /\ pm[c].awaited

Unborn == [nice |-> USER_Q, parent |-> INIT_PROC, awaited |-> FALSE, service |-> FALSE]

\* INIT has been started with SCHEDULING_START, as the parent of itself.
Init ==
    /\ policy \in Policies
    /\ schedproc = [p \in Procs |->
                      IF p = INIT_PROC
                      THEN [in_use |-> TRUE, priority |-> USER_Q, max_priority |-> USER_Q]
                      ELSE FreeSlot]
    /\ kernel = [p \in Procs |->
                   [state |-> IF p = INIT_PROC THEN "run" ELSE "none", queue |-> USER_Q]]
    /\ pm = [p \in Procs |-> Unborn]

-----------------------------------------------------------------------------
(* The kernel and PM *)

\* PM forks p: the kernel makes it unable to run, and PM gives it its parent's
\* nice value.  SCHED is told when VFS has answered.
Fork(parent, p) ==
    /\ kernel[parent].state = "run" /\ schedproc[parent].in_use
    /\ ~pm[parent].service /\ ~Forking(parent)
    /\ kernel[p].state = "none" /\ ~schedproc[p].in_use
    /\ kernel' = [kernel EXCEPT ![p] = [state |-> "noq", queue |-> kernel[parent].queue]]
    /\ pm' = [pm EXCEPT ![p] = [pm[parent] EXCEPT !.parent = parent, !.awaited = TRUE]]
    /\ UNCHANGED schedproc

\* The kernel finds that a process has used up its quantum.
OutOfQuantum(p) ==
    /\ kernel[p].state = "run" /\ schedproc[p].in_use /\ ~Forking(p)
    /\ kernel' = [kernel EXCEPT ![p].state = "noq"]
    /\ UNCHANGED <<schedproc, pm>>

\* PM clears an exiting service in the kernel before it tells SCHED.
Die(p) ==
    /\ pm[p].service /\ Alive(p) /\ schedproc[p].in_use
    /\ kernel' = [kernel EXCEPT ![p].state = "dead"]
    /\ UNCHANGED <<schedproc, pm>>

-----------------------------------------------------------------------------
(* SCHED *)

\* Mutant: the slot keeps the priority of the process that had it before.
StartedStale(p, parent) ==
    [in_use |-> TRUE, max_priority |-> pm[p].nice, priority |-> schedproc[p].priority]

\* The slot of a process that inherits its parent's priority.
Started(p, parent) ==
    [in_use |-> TRUE, max_priority |-> pm[p].nice,
     priority |-> schedproc[parent].priority]

\* do_start_scheduling for SCHEDULING_INHERIT: the parent must be known.
do_start_inherit(p) ==
    /\ kernel[p].state = "noq" /\ ~schedproc[p].in_use
    /\ schedproc[pm[p].parent].in_use
    /\ LET slot == Started(p, pm[p].parent)
       IN  /\ schedproc' = [schedproc EXCEPT ![p] = slot]
           /\ kernel' = [kernel EXCEPT ![p] = Scheduled(p, slot.priority)]
    /\ pm' = [pm EXCEPT ![p].awaited = FALSE]

\* do_start_scheduling for SCHEDULING_START, a service with a priority of its own.
do_start_service(p, max) ==
    /\ kernel[p].state = "none" /\ ~schedproc[p].in_use
    /\ max < NR_SCHED_QUEUES
    /\ schedproc' = [schedproc EXCEPT ![p] = [in_use |-> TRUE, priority |-> max,
                                               max_priority |-> max]]
    /\ kernel' = [kernel EXCEPT ![p] = Scheduled(p, max)]
    /\ pm' = [pm EXCEPT ![p] = [Unborn EXCEPT !.nice = max, !.service = TRUE]]

\* do_stop_scheduling for an exiting process, whose children are INIT's now.
do_stop_scheduling(p) ==
    /\ p # INIT_PROC /\ kernel[p].state # "none" /\ schedproc[p].in_use
    /\ schedproc' = [schedproc EXCEPT ![p].in_use = FALSE]
    /\ kernel' = [kernel EXCEPT ![p].state = "none"]
    /\ pm' = [c \in Procs |-> IF c = p THEN Unborn
                              ELSE IF pm[c].parent = p THEN [pm[c] EXCEPT !.parent = INIT_PROC, !.awaited = FALSE]
                              ELSE pm[c]]

\* Mutant: only a process whose priority changed is scheduled again.
do_noquantumOnce(p) ==
    /\ kernel[p].state = "noq" /\ schedproc[p].in_use
    /\ LET old == schedproc[p].priority
           q == IF old < MIN_USER_Q THEN (old + NoQuantumStep) % (UINT_MAX + 1) ELSE old
       IN  /\ schedproc' = [schedproc EXCEPT ![p].priority = q]
           /\ q # old /\ kernel' = [kernel EXCEPT ![p] = Scheduled(p, q)]
    /\ UNCHANGED pm

\* The message of a process that ran out of quantum.
do_noquantum(p) ==
    /\ kernel[p].state = "noq" /\ schedproc[p].in_use
    /\ LET old == schedproc[p].priority
           q == IF old < MIN_USER_Q THEN (old + NoQuantumStep) % (UINT_MAX + 1) ELSE old
       IN  /\ schedproc' = [schedproc EXCEPT ![p].priority = q]
           /\ kernel' = [kernel EXCEPT ![p] = Scheduled(p, q)]
    /\ UNCHANGED pm

\* Mutant: the old priority is not restored when the kernel refuses.
do_niceNoRollback(p, new_q) ==
    /\ schedproc[p].in_use /\ new_q < NR_SCHED_QUEUES
    /\ schedproc' = [schedproc EXCEPT ![p].priority = new_q, ![p].max_priority = new_q]
    /\ IF Alive(p) THEN /\ kernel' = [kernel EXCEPT ![p] = Requeued(p, new_q)]
                        /\ pm' = [pm EXCEPT ![p].nice = new_q]
       ELSE UNCHANGED <<kernel, pm>>

\* do_nice: the kernel refuses a process that it has already cleared; the old
\* priority is then restored, and PM forgets the new nice value.
do_nice(p, new_q) ==
    /\ schedproc[p].in_use /\ new_q < NR_SCHED_QUEUES
    /\ IF Alive(p)
       THEN /\ schedproc' = [schedproc EXCEPT ![p].priority = new_q,
                                              ![p].max_priority = new_q]
            /\ kernel' = [kernel EXCEPT ![p] = Requeued(p, new_q)]
            /\ pm' = [pm EXCEPT ![p].nice = new_q]
       ELSE UNCHANGED <<schedproc, kernel, pm>>

\* Mutant: the first process of the table is left out.
BumpedLater == {p \in Procs \ {INIT_PROC} : /\ schedproc[p].in_use
                                      /\ schedproc[p].priority > schedproc[p].max_priority}

\* The processes balance_queues looks after.
Bumped == {p \in Procs : /\ schedproc[p].in_use
                         /\ schedproc[p].priority > schedproc[p].max_priority}

\* The timer: every process below its best priority moves up and is scheduled.
balance_queues ==
    /\ schedproc' = [p \in Procs |->
                       IF p \in Bumped THEN [schedproc[p] EXCEPT !.priority = @ - BalanceStep]
                       ELSE schedproc[p]]
    /\ kernel' = [p \in Procs |->
                    IF p \in Bumped /\ Alive(p)
                    THEN Requeued(p, schedproc[p].priority - BalanceStep)
                    ELSE kernel[p]]
    /\ UNCHANGED pm

-----------------------------------------------------------------------------

Next ==
    /\ \/ \E p \in Procs :
            \/ OutOfQuantum(p) \/ Die(p) \/ do_noquantum(p) \/ do_start_inherit(p)
            \/ \E parent \in Procs : Fork(parent, p)
            \/ \E q \in Niceness : do_start_service(p, q)
            \/ /\ Forking(p) => ForkRaces
               /\ do_stop_scheduling(p) \/ \E q \in Niceness : do_nice(p, q)
       \/ balance_queues
    /\ UNCHANGED policy

Spec == Init /\ [][Next]_vars

\* SCHED receives every message sent to it, and its timer keeps expiring.
FairSpec ==
    /\ Spec
    /\ WF_vars(balance_queues /\ UNCHANGED policy)
    /\ \A p \in Procs : WF_vars(do_noquantum(p) /\ UNCHANGED policy)

-----------------------------------------------------------------------------
(* Properties *)

\* The queue a live process sits in is the one SCHED has chosen for it, across
\* quantum expiries, renicing, rebalancing and the reuse of slots.
KernelAgrees ==
    \A p \in Procs : schedproc[p].in_use /\ Alive(p) =>
                       kernel[p].queue = NewPrio(p, schedproc[p].priority)

\* SCHED and PM agree on how nice a process is, also after a do_nice that the
\* kernel refused.
NiceAgrees == \A p \in Procs : schedproc[p].in_use => schedproc[p].max_priority = pm[p].nice

\* The three views of a process agree: the kernel's, SCHED's and PM's.
ViewsAgree == KernelAgrees /\ NiceAgrees

\* No process runs better than its nice value allows, and none falls off the
\* last queue (unless its parent was killed or reniced in the middle of fork: the
\* nice value is then the parent's at the fork, the priority of a later moment).
\* With "higher priority" at each quantum SCHED's unsigned value may wrap around;
\* then too the queue that the kernel has is none behind the nice value's.
WithinBounds ==
    \A p \in Procs : schedproc[p].in_use =>
      IF policy = "A03"
      THEN /\ schedproc[p].max_priority <= schedproc[p].priority
           /\ schedproc[p].priority <= MIN_USER_Q
      ELSE Alive(p) => kernel[p].queue <= schedproc[p].max_priority

\* A process that ran out of quantum gets another one, or has died.
QuantumRenewed ==
    \A p \in Procs : (kernel[p].state = "noq" /\ schedproc[p].in_use)
                       ~> (kernel[p].state # "noq")

\* "find all proccesses that have been bumped down, and pulls them back up": a
\* process that stops using up its quanta is back at its best priority.
PulledUp ==
    \A p \in Procs :
      (policy = "A03" /\ <>[](kernel[p].state = "run")) =>
         <>[](schedproc[p].priority <= schedproc[p].max_priority)
=============================================================================
