------------------------------- MODULE CpuSim -------------------------------
(***************************************************************************)
(* The CPU scheduling simulators of "Assignment 04": shortest job first    *)
(* (sjf-hash.c) and round robin (rr-hash.c).  Both read processes, each    *)
(* with an arrival time and alternating CPU and I/O bursts, and then       *)
(* simulate one CPU and one I/O device tick by tick.  Neither has any      *)
(* nondeterminism: 'program' and 'input' are chosen at the start.          *)
(*                                                                         *)
(* A tick is one turn of main's loop, in steps: the queue (rr), the CPU,   *)
(* the I/O device, the clock.  Where a program reads freed memory or       *)
(* follows NULL it ends in "fault", and nothing is claimed from there on.  *)
(* Abstracted: the printed log, ratios and averages, the status field,     *)
(* which is written and never read.                                        *)
(***************************************************************************)
EXTENDS Integers, Sequences, SequencesExt

CONSTANTS
    SjfInputs,      \* the inputs given to sjf-hash.c
    RrInputs,       \* and those given to rr-hash.c
    MaxTime         \* bound: how many ticks are simulated at most

VARIABLES
    program,        \* "sjf" or "rr"
    input,          \* process number -> its arrival time and bursts
    pc,             \* the part of the tick that is next: "enqueue" (rr only),
                    \* "cpu", "io", "clock"; then "stats", "end" or "fault"
    time,
    proc,           \* the lists of bursts that are left
    log,            \* processLog: first_time, last_time, waiting_time, ...
    cpu, ioDevice,  \* idle, curr_pid, time_left
    cpuQueue,       \* rr: the circular queue from its head on
    flag_pid,       \* sjf: the process that the CPU worked on in this tick
    ran             \* history: process -> the ticks it had the CPU, or did I/O

vars == <<program, input, pc, time, proc, log, cpu, ioDevice, cpuQueue, flag_pid, ran>>

time_quantum == 2
NONE == -1
Procs == DOMAIN input

\* insert_node for every burst: CPU and I/O in turn.
Nodes(bursts) ==
    [i \in DOMAIN bursts |-> [type |-> IF i % 2 = 1 THEN "C" ELSE "I",
                              val |-> bursts[i], age |-> 0]]

\* main up to its loop.  The global structures begin as zeros.
Init ==
    /\ \/ program = "sjf" /\ input \in SjfInputs
       \/ program = "rr" /\ input \in RrInputs
    /\ proc = [p \in Procs |-> Nodes(input[p].bursts)]
    /\ log = [p \in Procs |-> [first_time |-> -1, last_time |-> -1, waiting_time |-> 0,
                               turnaround_time |-> -1, response_time |-> -1]]
    /\ cpu = [idle |-> TRUE, curr_pid |-> 0, time_left |-> 0]
    /\ ioDevice = [idle |-> TRUE, curr_pid |-> 0, time_left |-> 0]
    /\ cpuQueue = <<>> /\ flag_pid = NONE
    /\ time = 0 /\ pc = IF program = "rr" THEN "enqueue" ELSE "cpu"
    /\ ran = [p \in Procs |-> [C |-> {}, I |-> {}]]

Begins(r, type) == proc[r] # <<>> /\ Head(proc[r]).type = type

\* The loops over the processes stop at the first that is still to come.
Arrived(r) == \A q \in 0 .. r : input[q].arrival_time <= time

\* A device begins a burst of 'val' ticks with this one, or goes on with one.
Started(p, val) == [idle |-> val = 1, curr_pid |-> p, time_left |-> val - 1]
Continued(d) == [d EXCEPT !.idle = d.time_left = 1, !.time_left = @ - 1]

FirstRun(p) == IF log[p].first_time = -1 THEN time ELSE log[p].first_time
Used(p, type) == ran' = [ran EXCEPT ![p][type] = @ \cup {time}]
Waited(S) == [p \in Procs |-> IF p \in S THEN [log[p] EXCEPT !.waiting_time = @ + 1]
                              ELSE log[p]]

-----------------------------------------------------------------------------
(* Shortest job first *)

\* find_next(): the arrived process with the shortest burst of this type, the
\* first of them if there are several.  Whoever the CPU names is passed over,
\* also when the CPU is through with it and only has not forgotten it.
find_next(type) ==
    LET found == {r \in Procs : /\ Arrived(r) /\ Begins(r, type)
                                /\ (time = 0 \/ r # cpu.curr_pid)}
        val(r) == Head(proc[r]).val
    IN  IF found = {} THEN NONE
        ELSE CHOOSE r \in found :
               \A q \in found : val(r) < val(q) \/ (val(r) = val(q) /\ r <= q)

\* Mutant: a process gets the CPU while it is still in its I/O burst.
NextForCpuAny == find_next("C")

\* The process that gets the CPU: nobody if the shortest is still doing I/O, even
\* if others are ready.
NextForCpu ==
    LET r == find_next("C")
    IN  IF r = ioDevice.curr_pid /\ ioDevice.time_left >= 1 THEN NONE ELSE r

SjfNobody ==
    /\ program = "sjf" /\ pc = "cpu" /\ cpu.idle /\ NextForCpu = NONE
    /\ pc' = "io" /\ flag_pid' = NONE
    /\ UNCHANGED <<program, input, time, proc, log, cpu, ioDevice, cpuQueue, ran>>

SjfDispatch ==
    LET r == NextForCpu
    IN  /\ program = "sjf" /\ pc = "cpu" /\ cpu.idle /\ r # NONE
        /\ cpu' = Started(r, Head(proc[r]).val)
        /\ log' = [log EXCEPT ![r].first_time = FirstRun(r)]
        /\ proc' = [proc EXCEPT ![r] = Tail(@)]
        /\ flag_pid' = r
        /\ Used(r, "C")
        /\ pc' = "io"
        /\ UNCHANGED <<program, input, time, ioDevice, cpuQueue>>

\* Mutant: the CPU does not forget the process at the end of its burst.
RelinquishedKeeps(c) == Continued(c)

\* At the end of a burst the CPU forgets the process (but not at the end of a
\* burst that began in the same tick).
Relinquished(c) == [Continued(c) EXCEPT !.curr_pid = IF c.time_left = 1 THEN -1 ELSE @]

SjfCompute ==
    /\ program = "sjf" /\ pc = "cpu" /\ ~cpu.idle
    /\ log' = Waited({r \in Procs : Arrived(r) /\ Begins(r, "C")})
    /\ flag_pid' = cpu.curr_pid
    /\ cpu' = Relinquished(cpu)
    /\ Used(cpu.curr_pid, "C")
    /\ pc' = "io"
    /\ UNCHANGED <<program, input, time, proc, ioDevice, cpuQueue>>

SjfNoIo ==
    /\ program = "sjf" /\ pc = "io" /\ ioDevice.idle
    /\ find_next("I") \in {NONE, flag_pid}
    /\ pc' = "clock"
    /\ UNCHANGED <<program, input, time, proc, log, cpu, ioDevice, cpuQueue, flag_pid, ran>>

SjfIo ==
    LET r == find_next("I")
    IN  /\ program = "sjf" /\ pc = "io" /\ ioDevice.idle
        /\ r \notin {NONE, flag_pid}
        /\ ioDevice' = Started(r, Head(proc[r]).val)
        /\ proc' = [proc EXCEPT ![r] = Tail(@)]
        /\ Used(r, "I")
        /\ pc' = "clock"
        /\ UNCHANGED <<program, input, time, log, cpu, cpuQueue, flag_pid>>

\* The bursts that wait for the device grow older.
Aged(S) == [p \in Procs |-> IF p \in S THEN <<[Head(proc[p]) EXCEPT !.age = @ + 1]>> \o Tail(proc[p])
                            ELSE proc[p]]

\* Mutant: what is left of the last burst is not counted.
LastTickNow == time

\* The tick in which the CPU ends its burst: "record when a process is done".
LastTick == time + cpu.time_left

\* The end of the tick: a process without bursts is completed, and when all are
\* the simulation is over, although the CPU may not have come to its end.
SjfClock ==
    /\ program = "sjf" /\ pc = "clock" /\ time < MaxTime
    /\ time' = time + 1
    /\ log' = [p \in Procs |-> IF proc[p] = <<>> /\ log[p].last_time < 0
                               THEN [log[p] EXCEPT !.last_time = LastTick] ELSE log[p]]
    /\ proc' = Aged({p \in Procs : Begins(p, "I")})
    /\ flag_pid' = NONE
    /\ pc' = IF \A p \in Procs : proc[p] = <<>> THEN "stats" ELSE "cpu"
    /\ UNCHANGED <<program, input, cpu, ioDevice, cpuQueue, ran>>

\* The statistics of each process.
SjfStats ==
    /\ program = "sjf" /\ pc = "stats"
    /\ log' = [p \in Procs |->
                 [log[p] EXCEPT !.turnaround_time = log[p].last_time - input[p].arrival_time,
                                !.response_time = log[p].first_time - input[p].arrival_time]]
    /\ pc' = "end"
    /\ UNCHANGED <<program, input, time, proc, cpu, ioDevice, cpuQueue, flag_pid, ran>>

-----------------------------------------------------------------------------
(* Round robin *)

in_cQueue(p) == \E i \in DOMAIN cpuQueue : cpuQueue[i].pid = p

\* Mutant: a process is queued although it is in the queue already.
UnqueuedAny(p) == Begins(p, "C")

\* A process that is ready for the CPU and not in the queue, whether it has
\* arrived or not.
Unqueued(p) == Begins(p, "C") /\ ~in_cQueue(p)

\* enqueue() them in the order of their numbers, and let waiting bursts age.
RrEnqueue ==
    LET new == SetToSortSeq({p \in Procs : Unqueued(p)}, <)
    IN  /\ program = "rr" /\ pc = "enqueue"
        /\ cpuQueue' = cpuQueue \o [i \in DOMAIN new |->
                                      [pid |-> new[i], time_left |-> Head(proc[new[i]]).val]]
        /\ proc' = Aged({p \in Procs : Begins(p, "I") /\ ~in_cQueue(p)})
        /\ pc' = "cpu"
        /\ UNCHANGED <<program, input, time, log, cpu, ioDevice, flag_pid, ran>>

RrNobody ==
    /\ program = "rr" /\ pc = "cpu" /\ cpu.idle /\ cpuQueue = <<>>
    /\ pc' = "io"
    /\ UNCHANGED <<program, input, time, proc, log, cpu, ioDevice, cpuQueue, flag_pid, ran>>

\* Mutant: the head stays where it is after a slice.
PassedOnNever(q) == q

\* "for next pass": the head moves on to the next node.
PassedOn(q) == IF q = <<>> THEN q ELSE Append(Tail(q), Head(q))

\* delete_begin() frees the only node of a queue and leaves the head on it.
Dangling(q) == Len(q) = 1

\* The CPU's part of a tick leaves the CPU as c.  Within a slice nothing else
\* happens; at its end a finished burst leaves queue and list, and the head may
\* move on (also behind a deletion, past the node that has just become the head).
RrWorked(c, q, lists, moves(_)) ==
    /\ cpu' = c
    /\ \/ ~c.idle /\ cpuQueue' = q /\ proc' = lists /\ pc' = "io"
       \/ /\ c.idle /\ Head(q).time_left # 0
          /\ cpuQueue' = moves(q) /\ proc' = lists /\ pc' = "io"
       \/ /\ c.idle /\ Head(q).time_left = 0
          /\ cpuQueue' = moves(Tail(q))
          /\ proc' = [lists EXCEPT ![c.curr_pid] = Tail(@)]
          /\ pc' = IF Dangling(q) THEN "fault" ELSE "io"

\* The head gets the CPU for a quantum, or for less if its burst is shorter.  The
\* slice is taken off at once, in the queue and in the list.
RrDispatch ==
    LET h == Head(cpuQueue)
        slice == IF time_quantum < h.time_left THEN time_quantum ELSE h.time_left
        Stay(q) == q
    IN  /\ program = "rr" /\ pc = "cpu" /\ cpu.idle /\ cpuQueue # <<>>
        /\ log' = [log EXCEPT ![h.pid].first_time = FirstRun(h.pid)]
        /\ Used(h.pid, "C")
        /\ RrWorked(Started(h.pid, slice),
                    [cpuQueue EXCEPT ![1].time_left = @ - slice],
                    [proc EXCEPT ![h.pid][1].val = @ - slice], Stay)
        /\ UNCHANGED <<program, input, time, ioDevice, flag_pid>>

RrCompute ==
    /\ program = "rr" /\ pc = "cpu" /\ ~cpu.idle
    /\ log' = Waited({r \in Procs : Arrived(r) /\ in_cQueue(r) /\ r # cpu.curr_pid})
    /\ Used(cpu.curr_pid, "C")
    /\ RrWorked(Continued(cpu), cpuQueue, proc, PassedOn)
    /\ UNCHANGED <<program, input, time, ioDevice, flag_pid>>

\* The scan for I/O follows the list of every process but the CPU's.
RrScanned == Procs \ {cpu.curr_pid}

RrIoFaults ==
    /\ program = "rr" /\ pc = "io" /\ ioDevice.idle
    /\ \E p \in RrScanned : proc[p] = <<>>
    /\ pc' = "fault"
    /\ UNCHANGED <<program, input, time, proc, log, cpu, ioDevice, cpuQueue, flag_pid, ran>>

RrNoIo ==
    /\ program = "rr" /\ pc = "io" /\ ioDevice.idle
    /\ \A p \in RrScanned : Begins(p, "C")
    /\ pc' = "clock"
    /\ UNCHANGED <<program, input, time, proc, log, cpu, ioDevice, cpuQueue, flag_pid, ran>>

\* The youngest burst gets the device.  It stays in its list: when it is through
\* it waits for the device again, for ever.
RrIo ==
    LET waiting == {p \in RrScanned : Begins(p, "I")}
        age(p) == Head(proc[p]).age
        r == CHOOSE p \in waiting :
               \A q \in waiting : age(p) < age(q) \/ (age(p) = age(q) /\ p <= q)
    IN  /\ program = "rr" /\ pc = "io" /\ ioDevice.idle
        /\ \A p \in RrScanned : proc[p] # <<>>
        /\ waiting # {}
        /\ ioDevice' = Started(r, Head(proc[r]).val)
        /\ Used(r, "I")
        /\ pc' = "clock"
        /\ UNCHANGED <<program, input, time, proc, log, cpu, cpuQueue, flag_pid>>

\* The end of the tick.  Nothing ever sets 'done'.
RrClock ==
    /\ program = "rr" /\ pc = "clock" /\ time < MaxTime
    /\ time' = time + 1
    /\ pc' = "enqueue"
    /\ UNCHANGED <<program, input, proc, log, cpu, ioDevice, cpuQueue, flag_pid, ran>>

-----------------------------------------------------------------------------

\* In both programs the device goes on with the burst that it has.
IoContinues ==
    /\ pc = "io" /\ ~ioDevice.idle
    /\ ioDevice' = Continued(ioDevice)
    /\ Used(ioDevice.curr_pid, "I")
    /\ pc' = "clock"
    /\ UNCHANGED <<program, input, time, proc, log, cpu, cpuQueue, flag_pid>>

Next ==
    \/ SjfNobody \/ SjfDispatch \/ SjfCompute \/ SjfNoIo \/ SjfIo \/ SjfClock \/ SjfStats
    \/ RrEnqueue \/ RrNobody \/ RrDispatch \/ RrCompute
    \/ RrIoFaults \/ RrNoIo \/ RrIo \/ RrClock
    \/ IoContinues

Spec == Init /\ [][Next]_vars

\* The simulators are sequential programs that go on.
FairSpec == Spec /\ WF_vars(Next)

-----------------------------------------------------------------------------
(* Properties *)

Total(n, S) == FoldSet(LAMBDA i, sum : n[i] + sum, 0, S)

\* What process p has still to get from a device that works for it.
Rest(d, p) == IF ~d.idle /\ d.curr_pid = p THEN d.time_left ELSE 0

\* "sjf" takes a burst off its list when it begins, "rr" reduces a CPU burst slice
\* by slice: what has been taken off is exactly what the CPU has given to the
\* process, or owes it; and the same for the I/O device of "sjf".  A burst begins
\* only when the one before it is over, so never has a process both at once.
WorkInOrder ==
    \A p \in Procs :
      LET all == Nodes(input[p].bursts)
          gone == Len(all) - Len(proc[p])
          Taken(type) == Total(input[p].bursts, {i \in 1 .. gone : all[i].type = type})
          sliced == IF Begins(p, "C") THEN all[gone + 1].val - Head(proc[p]).val ELSE 0
      IN  /\ Cardinality(ran[p].C) + Rest(cpu, p) = Taken("C") + sliced
          /\ program = "sjf" => /\ Cardinality(ran[p].I) + Rest(ioDevice, p) = Taken("I")
                                /\ Rest(cpu, p) = 0 \/ Rest(ioDevice, p) = 0
          /\ ran[p].C \cap ran[p].I = {}

\* What sjf reports: last_time is the last tick in which the process has the CPU
\* ("record when a process is done"), although it is computed when that burst
\* begins; and in the end no process has been answered before it arrived, or was
\* faster than its bursts are long.
StatsRight ==
    program = "sjf" =>
      \A p \in Procs :
        /\ log[p].last_time # -1 => log[p].last_time = Max(ran[p].C) + Rest(cpu, p)
        /\ pc = "end" =>
             /\ log[p].response_time \in 0 .. log[p].turnaround_time
             /\ log[p].turnaround_time + 1 >= Total(input[p].bursts, DOMAIN input[p].bursts)

\* rr keeps what is left of a burst twice, in the queue and in the list; a process
\* is in the queue at most once, and only with the burst that is its next.
QueueMatchesLists ==
    pc # "fault" =>
      \A i \in DOMAIN cpuQueue :
        LET n == cpuQueue[i]
        IN  /\ \A k \in DOMAIN cpuQueue : cpuQueue[k].pid = n.pid => k = i
            /\ Begins(n.pid, "C") /\ Head(proc[n.pid]).val = n.time_left

\* Round robin: the process whose slice has just ended gets the CPU again only if
\* nobody else is in the queue.
TakesTurns ==
    [][RrDispatch /\ time - 1 \in ran[Head(cpuQueue).pid].C => Len(cpuQueue) = 1]_vars

\* sjf comes to its end, if the first process arrives at once and no CPU burst is
\* of length 1: the CPU remembers the process of such a burst, or process 0 when
\* it has not had any, and find_next passes it over, for ever if it is the last.
SjfEnds ==
    (/\ program = "sjf" /\ (Procs # {} => input[0].arrival_time = 0)
     /\ \A p \in Procs : \A i \in DOMAIN input[p].bursts : i % 2 = 1 => input[p].bursts[i] > 1)
    ~> pc = "end"
=============================================================================
