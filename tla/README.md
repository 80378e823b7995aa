# TLA+ models of the CS314 operating-systems lab code

The repository collects the programs of an operating-systems lab: MINIX 3 servers changed for
exercises (process manager, scheduling server, VFS and the MINIX file system) and stand-alone
programs (a buddy allocator, scheduling simulators, image pipelines, page replacement, address
translation).  This directory holds TLA+ models of that code, the TLC configurations that check
them, and TLAPS proofs.

Everything is run from this directory: `tlc -config X.cfg M`, `tlapm M.tla`.  `PROJECT.json` maps
each definition to the lines it models and lists runs, hazards, findings and theorems.

## 1. Inventory

| component | state | operations | what is hard |
|---|---|---|---|
| **Process manager**, `Assignment 02/part3/forkexit.c` | process table `mproc`, counter `procs_in_use`, the loop of `exit_proc` | fork, srv_fork, exit, exit_restart, waitpid, zombify, check_parent, tell_parent, tell_tracer, tracer_died, cleanup | VFS answers later and in any order; a parent, a tracer or a session leader may die in the middle of anything; `exit_proc` calls itself |
| **Scheduling server**, `Assignment 03/schedule.c`, `Assignment 05/schedule.c`, with `sched_proc` of `Assignment 05/system.c` | `schedproc`: priority and best priority of each process | noquantum, start (two kinds), stop, nice, balance_queues | three parties (PM, SCHED, kernel) keep copies of the same fact; unsigned priorities; everybody waits for SCHED |
| **Immediate files**, `Assignment 10/{mfs,vfs}` | inode (mode, size, zones), blocks, free zones; vnode (mode, size), filps | open/creat, close, unlink, truncate, lseek, read, write | two servers keep the size; a write changes how the file is stored; the device may be full half-way |
| **Buddy allocator**, `CS304 - PA/buddy.cpp` | tree of blocks, a free list per size, map from processes to blocks | request (with splitting), release (with coalescing), next test case | long mixed sequences; lists, tree and map must agree |
| **Image pipelines**, `Assignment 06` | image, its copy, lock or semaphore, shared position; pipes | grayscale and edge detection in two threads or processes | truly concurrent code; the lock does not cover the copy of the image; what is left behind by an execution |
| **Kernel system task**, `Assignment 05/system.c` | process slots with their blocking flags, queues of senders, pending notifications and signals; privilege structures with send masks | kernel calls that fail, finish or wait for VM; cause_sig, send_sig; clear_endpoint; get_priv, fill_sendto_mask | everybody refers to everybody, and anybody may die; signals are coalesced; structures are given out again |
| **VFS with traces**, `Assignment 09` | vnodes and filps with counts, descriptors, suspended processes, `bsf_lock` | open/creat, mknod, link, unlink, rename, truncate, lseek, close, read, write, getdents | calls that suspend their caller half-way; FIFOs whose users share a filp; failures after half of an open |
| **Scheduling simulators**, `Assignment 04` | burst lists, CPU, I/O device, circular queue, log | one tick | bursts kept twice, a dangling list head, termination |
| Page replacement, `Assignment 08` | page table, queue or list | one request | order of use, a full memory |
| Address translation, `Assignment 07`; exec examples, `Assignment 02/part1`, `part2`; reports | none | | |

Interactions.  PM asks VFS to confirm forks and exits and is answered later; it tells SCHED about
new, exiting and reniced processes.  The kernel tells SCHED that a process is out of quantum, and
SCHED tells the kernel queue and quantum.  VFS calls MFS for every operation on a file and keeps
its own copy of mode and size; processes meet in it through FIFOs, locks and the names of files.
The kernel delivers messages, and tells PM of the signals of the processes it manages.  The stand-alone programs interact with nobody.

For each modelled component, the correctness conditions are those listed with its runs below;
`hazards` in `PROJECT.json` says at which line each of them bites.

## 2. Modules

**`ForkExit`** (process manager).  `mproc` is a function from slots to records with the fields of
`struct mproc` that matter, flags as a set.  PM handles one message to its end, so a handler is
one action and its subroutines are operators on the triple (table, counter, fault) that end in
`Becomes`.  The exception is the loop of `exit_proc`, which can re-enter itself through
`tracer_died` and `sig_proc`: `stack` holds its frames, `LoopTracerDied`, `LoopDisinherit`,
`LoopEnd` and `LoopHangup` are its iterations, and no other message is taken before the stack is
empty.  `fault` records a panic, an assertion, a reply to a process that does not wait for it, or
a signal to a dead process.  `VfsReply` is VFS answering any outstanding request.  Signals,
`get_free_pid`, the ptrace calls and the setters live in files of PM that the repository does not
hold; they are modelled from how `forkexit.c` depends on them and are marked external.  CPU time,
timers, exit codes and printing are left out.

**`Buddy`** (allocator).  A tree node is the path from the root.  `AllotExact`/`AllotSplit` are the
two branches of a request, `SplitStep`/`SplitDone` the splitting loop, `Release`,
`CoalesceStep`, `ReleaseDone` the release; `Ignore`, `TooLarge`, `ReleaseNothing` the error paths
(the last one is the null pointer).  **`Allocator`** is what an allocator promises: disjoint,
aligned blocks that stay until they are given back.  `ImplementsAllocator` maps the node that a process
holds to its `Addresses`: they begin at `Base`, to which each right turn of the path adds half of what is
left, and are as many as the block has bytes.

**`ImmediateFile`** (MFS and VFS).  One file with any number of open files.  An operation holds the
vnode's lock, so it is one step that does VFS's and MFS's part.  The size of the inode and of a
block are constants; a transfer stops at the first block that finds no zone, or whose bytes cannot be
copied from the caller.  `MfsWrite` follows `fs_readwrite`: stay in the inode, move to a block
(`Converted`, or `ConvertFails` when the device is full), or write blocks.  `MfsWriteFault` is the same from
a buffer of which only the first bytes are there: `FaultBlocks` for blocks, and `LoseZone` where the copy into
the inode fails and the chunk loop goes on with an immediate file.  The zones that are lost there are counted
in `lost`, a history variable.  The name of an unlinked file is not used again before the file is
gone.  `workload` holds what the processes of a behaviour do and how large the device is.  Shrinking an
immediate file with truncate is left out: MFS then clears part of the block whose number the file's
bytes spell, which is outside the model.  **`PosixFile`** is an
array of bytes with the promises of read, write, lseek, truncate, unlink and close.  `ImplementsPosix`
claims that `ImmediateFile` implements it in the workloads that are `Ordinary`: those in which no process
relies on the end of the file, reads a part of an immediate file, truncates one, passes a bad buffer, or
leaves a hole behind an O_TRUNC, and in which regular files are resized only where every write has its zone.  In all others
an immediate file can be told from a regular one (section 5).

**`Sched`** (scheduling server).  `schedproc` is SCHED's table, `kernel` the queue and run state the
kernel keeps, `pm` what PM remembers, `policy` which of the two files it is: `NoQuantumStep` and
`BalanceStep` are +1 and 1 in Assignment 03, -1 and 0 in Assignment 05, the only behavioural
difference between them.  Priorities are unsigned and wrap at `UINT_MAX`, and `UINT_MAX` passed to
the kernel is -1, "leave the queue alone" (`NewPrio`).  A process that is out of quantum is blocked
until SCHED handles its message; being reniced or rebalanced meanwhile changes its queue only.
`CONFIG_SMP` is off, so `pick_cpu` does nothing.

**`ImageShared`** (threads and processes of Assignment 06).  `program` tells the threads of `part2_1a`
and `part2_1b` (which differ in the kind of lock) from the processes of `part2_2`.  A pixel is what
it comes from: blank memory, raw, gray, edge, or an edge turned gray.  Taking the lock, converting a
pixel and publishing the position with the release are separate steps; `EdgeCopy` is the copy of the
image that is made without the lock, pixel by pixel.  `Kill` and `Restart` are repeated executions
of `part2_2`, whose shared memory, position and named semaphore outlive it.

**`ImagePipe`** (`part2_3`).  Sender, receiver and `main` with two pipes of bounded capacity; it is
shown to implement **`ImageFilter`**, the sequential `part1`; the operators on images that both use
are in `ImageOps`.

**`SystemTask`** (kernel).  The kernel runs to completion, so a kernel call or a trap is one action; the
functions of `system.c` are operators on the record `S` of both tables that end in `Becomes`.
`cause_sig` splits into `CauseLethal` (hand over to the backup manager) and `CauseManaged`;
`clear_endpoint` is `clear_ipc` and `clear_ipc_refs`; `KernelCallFaults`, `KernelCallSuspends` and
`KernelCallResume` are the ways a kernel call can go.  Message passing (`Send`, `RECEIVE`, `Notify`,
`Asend`), the calls PM makes (`SysFork`, `SysClear`, `GetKsig`, `EndKsig`, ...) and `PrivCtl` are not in
the repository and are marked external.  PM's signal loop is the variable `pm`.  A slot stands for its
endpoint: `clear_ipc_refs` leaves no reference by which an old one could be told from a new one, which
is what `NobodyWaitsForTheDead` checks.

**`Vfs`** (Assignment 09).  A call is one action up to the point where its caller is suspended: in the
open of a FIFO, in a read or write of a pipe, on a file lock (`susp` says on what, `Resume` and
`ResumeLock` go on), or around a request to a block driver, which is made with `bsf_lock` held
(`lock_bsf`, then `BdevOpened` or `BdevDone`).  `common_open` is `Claim`, `OpenExisting`, `OpenFifo` with
`FifoAnswer`, `Joined` and `Share`, and `Abandon` for its error exit; `rw_pipe` ends in `Transferred`.  Names are flat; the file
systems, PFS, and the tables of vnodes and filps are external.  A file has a size and no contents; a write
that fails may have grown it (`FileEnds`, from the MFS of Assignment 10).  `stale` is history: VFS and the file
system have parted over the size of this vnode.

**`CpuSim`** (Assignment 04).  A tick of main's loop in up to four steps (`pc`): the queue of round robin,
the CPU, the I/O device, the clock.  `program` tells the two files apart; `input` is the file they
read.  `ran`, the ticks in which each process had the CPU or did I/O, is history.  Freed memory and
NULL lead to `pc = "fault"`.

The modules `MC...` give TLC small instances and symmetries (`MCSessions` also states the property about the groups
of session leaders); the modules `..._proofs` hold the proofs (section 4).

## 3. Runs

Constants such as `TraceForks` and `Sessions`, and the variable `workload` of `ImmediateFile`, `SystemTask`
and `Vfs`, say what the processes do in a behaviour, so that the features that interact are looked at
together and the product of all others is not.  The initial states range over all workloads of the
run; `OneAtATime` in the MC modules lists them.

| run | instance | shows |
|---|---|---|
| `fork_exit` | 5 slots (PM, the kernel's and INIT's included), 11 pids, 2 users, one reserved slot, SIGKILL, services, tracers; waitpid for any child or a pid | the counter is exact, no panic and no stray reply, everybody has a live parent, nobody waits for what has happened or for nothing, no slot leaks; with attach, TO_TRACEFORK, T_EXIT and dying tracers |
| `fork_exit_live` | 6 slots, 13 pids; fair; session leaders, SIGKILL from any process, group waits, traced forks; either two user processes that also trace and wait, or three that do neither | every other untraced process in the group of a leader that exits is hung up; `exit_proc` returns; nobody is blocked for ever in fork or ptrace |
| `buddy` | memories of 8 and 16 bytes in turn, blocks of 2 and more, 3 processes | tree, lists and owners agree, also when the tree is rebuilt; buddies are merged; blocks fit tightly; nothing leaks; refinement of `Allocator` |
| `immediate` | inode of 2 bytes, blocks of 3, files of 4; appends, seeks from the end and holes with one zone, O_TRUNC and truncate of regular files with two, or O_TRUNC and bad buffers with two | no zone is lost but by a failing copy into the inode, whole reads are right, writes keep the rest (or, in a move with a bad buffer, empty the file), holes are zero; refinement of `PosixFile` for the second workload, which is `Ordinary` |
| `imm_append` | *violation* | VFS's size of an immediate file is stale |
| `sched` | 3 processes, 4 queues and a request for a fifth, both policies; fair | kernel, SCHED and PM agree on queue and nice value; queues stay within bounds; quanta are renewed; a process that yields comes back up (Assignment 03) |
| `image_shared` | images of 3 by 4, both programs, 2 executions with kills anywhere; fair | edges come from input pixels only; every pixel is done; both end, unless the edge side starves the other |
| `image_pipe` | images from 3 by 3 to 5 by 4, valid or not, pipes of 4 pixels; fair | refinement of `ImageFilter`; all processes end |
| `system_task` | PM and 2 other slots, one static and one dynamic privilege structure, one lethal signal; 6 workloads (VM, diagnostics, delayed stops, asynchronous messages, notifications, masks); fair | nobody waits for a dead process and nothing of it is pending; a signalled process is blocked and its manager knows; masks are symmetric; no panic; PM comes to fetch signals |
| `vfs` | 3 processes with one descriptor each, 2 names, 2 inodes, 2 filps, pipes of 2 bytes; 12 workloads | counts, sizes, wake-ups, `bsf_lock` and the open count of the device |
| `vfs_partial` | *violation*; 3 filps, large and non-blocking writes of a FIFO | the count of a partial write survives the write |
| `cpu_sim` | up to 3 processes with one CPU burst, or two and an I/O burst between, of lengths 1 to 3, arriving at 0 or 1; 30 ticks | work is done in order and completely; completion times; queue and lists agree; turns; `sjf-hash.c` ends |

Why the bounds are enough to be interesting.  Five slots leave room for a parent, a child that is
traced or orphaned and a third process, and the sixth of `fork_exit_live` gives a session leader two other
members of its group; `MaxPid > 2 * NR_PROCS` is what `get_free_pid` needs, and
11 pids wrap round.  A memory of 16 bytes has three levels of splitting above the smallest block,
and three processes can fragment each level of it; 8 bytes they can fill.  An inode of 2 and a
block of 3 bytes put the end of the inode strictly inside the first block and give files of two
blocks; writes of 1 and 3 (or 4) bytes cross each boundary, and one zone makes every second
allocation fail.  Four queues with the user queue in the middle leave room above and below;
`UINT_MAX = 15` is far enough from the queues that a wrapped priority is never mistaken for one; 4 is
the first number that names no queue.  An image of 3 by 4 has a frame and two inner rows (4 by 4 has
2.7 million states, takes four minutes and gives the same answers); a pipe of 4 pixels is both full
and empty within every image.  In the kernel, two slots besides PM are a victim and somebody who
refers to it, and two service structures can be released and given out again with other masks.  In
VFS three processes are two users of one side of a FIFO and one of the other, a pipe of 2 bytes can
be empty, half full and full, and a write of 3 is larger than the pipe; two filps are exhausted, two
inodes too.  In the simulators a quantum of 2 (the code's) is shorter than, equal to and longer than
bursts of 3, 2 and 1; no input of the run needs 30 ticks, so the bound on time is never met by
`sjf-hash.c` where it ends.

Deadlock is checked for `Sched` only; the other systems may really stop (every process has
exited, the input is read, no operation is called, the image is written, the kernel has nobody to
run, the simulation is over), and their cfg says so.

What the passing runs leave out.  `NoLostExit` is checked without group waits: a child that calls setsid
leaves the group its parent waits for, and the parent then waits on, in the code as in the model.
`WithinBounds` is checked without the two races in which the parent is killed or reniced between PM's
fork and SCHEDULING_INHERIT: the child's nice value is then the one of the fork and its priority that
of the new parent, or of the reniced one, which may be better than the nice value allows.  In all
workloads of `immediate` processes read immediate files from the start and whole, and with `Plain` and
`Faulty` they do not rely on VFS's idea of the end.  `vfs` has no name under `/home` and no failing file
system together with symbolic links, and looks at large and non-blocking writes together only where two
processes use the FIFO; with its two filps a process joins only the filp of another that itself waits in open,
and the driver's open and what fails after it are one step.  `NoPanic` of `vfs` is about the workloads that are
`Tame`, `SizesAgree` excepts vnodes that are `stale`.  `NoPanic` of `system_task` takes from the environment that
managers are replaced before they die and that only slots in use are cleared.  Outside these limits the code
does not do what it should, or is not asked to, which is what the violation runs and section 5 show.

### Fairness

* `ForkExit!FairSpec`: weak fairness of the loop of `exit_proc`, which is sequential code, and
  `VfsFairness`: VFS answers each request, and PM, unless it never returns to its main loop, receives each
  answer.  Nothing is assumed of the processes.  `SessionSpec` of `MCSessions`, which the run uses, says the
  former without `ENABLED` (`LoopFairness`), which is slow to evaluate here: every iteration changes the state.
* `Sched!FairSpec`: weak fairness of `do_noquantum`, whose message is queued and of the timer of
  `balance_queues`, which re-arms itself at the end of each call.
* `ImageShared!FairSpec`: weak fairness of the two threads, and of nothing else.  Neither the spin on
  `atomic_flag` nor `sem_wait` promises the grayscale side the lock against an edge side that retries, so
  `EndsUnlessStarved` leaves open that it never gets it (`Starved`), and says that there is no other way not
  to end.
* `ImagePipe!FairSpec`: weak fairness of each process.
* `SystemTask!FairSpec`: weak fairness of PM's receive and of its signal loop: PM is a server whose main
  loop never stops.  Nothing is assumed of other processes.  `SignalsFetched` says that PM comes to
  fetch signals while there are any, not that it comes to each process: a service that never stops
  signalling can keep it busy.
* `CpuSim!FairSpec`: weak fairness of `Next`: the simulators are sequential programs that go on.

## 4. Proofs

Every theorem holds for all values of the constants: any number of processes, slots, queues and
pixels.  What the constants must satisfy is said by the `ASSUME`s of the component's module, which TLC
evaluates for the instances of the runs.  Each `..._proofs` module extends the module it is about.

**`ForkExit_proofs`** (process manager).

* `TypeCorrect`: `Spec => []TypeOK`;
* `CountCorrect`: `Spec => []CountIsExact`: `procs_in_use` is the number of slots in use.  `do_fork`
  relies on it before it searches a slot, and every way to die ends in `cleanup`.

Neither is inductive.  The invariant `IInv` (theorem `Invariance`) says of the table, the counter and
the frames: they have their types, the counter is the number of slots in use, and only slots in
use have a request at VFS.  The last part is needed because `VfsReply` may release the slot it is
about: if a free slot could be answered for, the counter would drop once too often.  `Keeps(S, T)`
says that a part of a handler changes neither which slots are used nor their number; the lemmas
`...Keeps` show it for each subroutine, `CleanupOk` shows that releasing a used slot is exactly one
less, `ForkedOk` that filling a free one is one more, and one `...Step` lemma per action puts
these together.  `FreePidExists` (n slots name at most 2n pids and groups) shows that
`get_free_pid` finds a pid, from `MaxPid > 2 * NR_PROCS`; the other assumptions are that the table
holds at least the three slots of boot, that user 0 exists, and that switches are Booleans.

The second part of the module is about families.  It has an inductive invariant of its own, `FInv`
(theorem `FamilyInvariance`), which gives three theorems:

* `NeverFaults` (`NoFault`), `FamiliesAlive` (`FamilyAlive`) and `CollectedReleased` (`ToldIsTransient`).

They cannot be had one by one.  PM does not reply to somebody who does not wait because the parent of a
child that VFS is creating is alive and in fork; it is alive because `exit_proc` disinherits all its
children; and `exit_proc` and `check_parent` do not panic because the flags of a slot go through
the stages of death in order.  `FInv` is `Fine(State, stack, NO_SLOT)`, the conjunction of:

* `SlotOk`, `SystemOk`: a slot by itself.  The flags agree with what the process is blocked in and with
  its request at VFS; zombie of the tracer, zombie of the parent and told are stages that exclude each
  other; the system processes never exit (INIT is only stopped), so INIT is always there to inherit.
* `FamilyOk`: parents and tracers are alive, or `Excused`: the exit of the parent is in progress, and its
  loop index has not passed the child.  Each iteration takes away one excuse, by adoption or
  by the death of the tracee, which pushes a frame that excuses the tracee's own family; an empty
  stack excuses nobody, which is `FamilyAlive`.
* `ForksOk`, `TracesOk`: a child whose fork VFS has not confirmed has a parent that waits in fork for this
  child alone (or it has `NEW_PARENT`); likewise for the tracer in `ptrace(T_EXIT)`.
* `FramesOk`: who is in the middle of `exit_proc` has a request at VFS, so nobody else releases the slot.
* a slot that was told has a request at VFS.  The third argument of `Fine` excepts the one slot
  that the handler in progress is going to release.

TLC checked `FInv` on the instances of the two runs of `ForkExit` and on a larger one before the proof.  There is
one lemma per subroutine (`...Fine`: what `Fine` needs to survive `tell_parent`, `check_parent`,
`zombify`, `exit_proc`, ...), one per action (`...Family`), and `RestackFine` and `TopReplaced` for
the changes of the stack alone.

The third part is about waits, with the invariant `WInv` (theorem `WaitsInvariance`):

* `NoWakeupLost`: `"grp" \notin WaitKinds => (Spec => []NoLostExit)`: nobody is blocked in waitpid while
  a child or tracee that qualifies is dead and uncollected, and nobody waits for nothing.  The hypothesis
  is the setting of the run, and is needed for the second half only: a child may leave the group waited
  for with setsid, and PM does not look at the wait again.
* `DeathsReported`: the first half, for all forms of waitpid, without the hypothesis.

`WInv` is `Served(State, NO_SLOT)`.  `Heard` says of each waiting process what the theorems say, in every
iteration of `exit_proc`'s loop and not only when it has returned; `Order` that the stages of death of a
slot end its own wait.  The argument `NO_SLOT` stands for the slot whose death is yet to be reported: inside a
handler `zombify`, `tracer_died` and `exit_proc` mark a slot dead before they look for its waiter.
Steps that no wait depends on are `Easy`; `ChangeServed` is about one slot that changes; again there is one
lemma per subroutine (`...Served`) and one per action (`...Waits`).  TLC checked `WInv` on the instance of
`ForkExit.cfg`, and on those of `ForkExitLive.cfg` with sessions, kills and group waits, before the proof.

**`Sched_proofs`** (scheduling server), for both assignments at once.

* `TypeCorrect`; `ViewsCorrect`: `Spec => []ViewsAgree`: the kernel, SCHED and PM agree on queue and
  nice value.  With the types it is inductive: each handler tells the kernel what it has recorded, or
  undoes what it has recorded when the kernel refuses.
* `BoundsCorrect`: `~ForkRaces => (Spec => []WithinBounds)`.  The hypothesis is the one the run makes (the
  races of section 3).  `BoundsInv` adds what `WithinBounds` does not say: a child that
  SCHED has not been told of has a nice value and a parent whose priority will be within it
  (`NewbornOK`), and the unsigned priority of Assignment 05 is within the nice value or has wrapped
  round (`PriorityOK`), in which case the kernel's queue stays.

**`ImagePipe_proofs`**, with the arithmetic of rows and columns in `ImageOps_proofs`.

* `Refinement`: `Spec => ImplementsFilter`: three processes and two pipes implement the sequential
  program, for images of every size and pipes of every capacity.  The invariant says that the header
  comes before the pixels (`HeaderInv`), that the pipe holds the gray pixels sent and not received, in
  order (`PipeInv`), and that what has been received is that part of the gray image (`ReceivedInv`).
  The step that writes the file is the step of `ImageFilter`; all others are stutters.

**`ImageShared_proofs`** (threads and processes).

* `ImageCorrect`: `Spec => []FinalImage`.  The invariant says how far each side is and what that means
  for the pixels it has passed: `GrayInv`, `EdgeInv`, `FrameInv`; and that there is no edge while the copy
  is made (`CopyInv`).
* `ExclusionCorrect`: at most one side is between lock and unlock (`LockInv`: whoever is there has taken
  the lock), also when a killed execution has left the semaphore at 0.

**`ImmediateFile_proofs`** (immediate files), for every size of inode, block, file and device and every
set of workloads.

* `NoZoneLost`: `Spec => []ZonesAccounted`, without a hypothesis: no zone is lost but those counted in `lost`, and
  none at all where buffers are good;
* `ReadsRight`: `Spec => []ReadIsRight` where no workload has the use `"part"`;
* `WritesExact`: `Spec => WriteIsExact` where all workloads are `Careful`: the device has a zone, nobody
  truncates an immediate file, and not both `"truncate"` and `"sparse"`, nor both `"fault"` and `"sparse"`;
* `Refinement`: `Spec => ImplementsPosix`: initial states and steps of the workloads that are `Ordinary`
  map to those of `PosixFile`; nothing is claimed of the others.

The hypotheses of the second and third are what the run `immediate` makes, and section 5 has a behaviour
that needs each (6, 9, 10, 11, 19).  The inductive invariant `Inv` (theorem `Invariant`) joins to types and `ZonesAccounted`:
`LinksOk` (the inode lives as long as its name or an open file, the vnode as long as an open file),
`ModesOk` (only a regular file has blocks; VFS may take a regular file for an immediate one but not the
other way round), `TailOk` (what lies behind the end in blocks, and in the inode where nobody
truncates, is zero, but for the old bytes that a failed move has left in the block of an empty file: this
is what makes a hole read as zeros later) and `VnodeOk` (where the size in the
vnode matters, it is the size of the file).  The lemmas go from numbers (blocks and positions) over
maps of blocks (`Written...`, `Freed...`, `Converted...`) to one lemma per action; the proof of the refinement maps
each action to the one of `PosixFile` that has its name, and `fs_readwrite`'s conversion to no step of its own.

**`Buddy_proofs`** (allocator), for memories and smallest blocks of every size and any number of
processes.

* `BlocksApart`: `Spec => [](TreeIsWhole /\ BlocksDisjoint /\ FitIsTight)`, whatever is asked for;
* `BlocksAreSound`: `~Again => (Spec => []BlocksSound)`, which adds that nothing is lost.  The hypothesis is
  needed (section 5, 7) and is the setting of the run;
* `FreeIsUsable`: `Spec => []FreeMemoryUsable`;
* `Refinement`: `~Again => (Spec => ImplementsAllocator)`: a request that is answered is a `Take` of `Allocator`,
  a release a `Give`, a new test case a `Restart`, and every iteration of the two loops a stutter.

The inductive invariant `Inv` (theorem `Invariant`) has to say what is true in the middle of the loops.
`Current` is the node a loop has in hand: it is a leaf (`CurrentOk`) and the only one that may be free without
being listed, or be free together with its buddy (`Buddies`).  `FreeList` is the list without the block
that the splitting loop found, which stays at its head until the loop is over, although the block has been
split by then (`ListsOk`, `SplitOk`).  `Shape` and `Rooted` make the nodes a tree; `HeldOk` and `NothingLost`
tie the map to the leaves in use.  There is one lemma per action.  The second half is about addresses:
`Base` is a recursive function, and there is no induction here, so every lemma about it (`SumExists`,
`SumUnique`, `Aligned`, `SamePlace`, `Within`) takes a shortest path, or a nearest ancestor, for which it
would be false, and looks at its parent (`LeastExists`).  `Halves` says where the children of a block begin, `Aligned`
that a block is a multiple of its size, `SameSizeApart` and `Apart` that blocks overlap only when one lies
inside the other, and `LeavesApart` that leaves never do.

**`SystemTask_proofs`** (kernel).  One inductive invariant, `Inv`, gives four theorems:

* `NoDanglingWaits` (`NobodyWaitsForTheDead`), `SignalsNotLost` (`SignalsTracked`), `MasksSymmetric`
  (`MasksAgree`), `NeverPanics` (`NoPanic`).

They hold together or not at all: `cause_sig` does not panic because a signalled process has a live
manager, which is so because `clear_endpoint` removes what refers to the dead, which it can because
each sender is in the one queue that its flags say.  `Inv` is the conjunction of what a slot
(`SlotsOk`), a privilege structure (`PrivsOk`, `MasksOk`), a wait and a queue (`WaitsOk`, `QueuesOk`), a
pending notification or message (`PendingOk`) and a signal (`SignalsOk`) look like.  Handlers compose
subroutines on the record `S`, so there is one lemma per subroutine: `Quiet` for the ones that
disturb none of the parts, the `Cause...` lemmas for signals, the `...Ok` lemmas for message passing,
`ForkOk` and `ClearedOk` for birth and death; `DiagInv`, `InitInv` and `NextInv` put them together.

Only model-checked:

* liveness (`ExitReturns`, `CallsReturn`, `QuantumRenewed`, `EndsUnlessStarved`, ...) and the action properties of
  the modules below: fairness and ENABLED are out of the prover's reach;
* what the simulators compute (`WorkInOrder`, `StatsRight`): these are about sums over lists, whose
  properties for every input need induction over data;
* `OrphanGroupHungUp` (`MCSessions`), the invariants of `Vfs`, and `QueueMatchesLists` of `CpuSim`, which are
  within reach (section 6).

## 5. Where the code and its comments disagree

The first two have a run that ends in a violation; the comments are quoted in `PROJECT.json`.

1. VFS does not update its size of an immediate file, so O_APPEND and SEEK_END are wrong
   (`imm_append`).
2. A second writer of a FIFO overwrites the flags of the filp it shares; a suspended partial write then
   fails with EAGAIN and leaves `fp_cum_io_partial` behind, although "fp->fp_cum_io_partial is only nonzero
   when doing partial writes" (`Assignment 09/read.c:377`), and the next use of a pipe panics
   (`vfs_partial`).

The models contain the following too.  The passing runs exclude them by the constant or workload
named, or the properties say so:

3. `exit_proc` compares the dying process's pid with the group of the *caller* (`forkexit.c:283`), so a
   session leader killed from outside does not hang up its group, against "Send a hangup to the process'
   process group if it was a session leader" (`forkexit.c:390`).  The run has such kills, and
   `OrphanGroupHungUp` is about leaders that call exit; it fails if `LeaderExits` counts leaders that die in
   any way.
4. Assignment 05 decrements an unsigned priority below 0 (`schedule.c:104`, "higher priority"): SCHED's
   value becomes `UINT_MAX`, the kernel is told -1 and leaves the queue alone, and children inherit it
   (`NewPrio`; `WithinBounds` is about the kernel's queue for this policy).  The comment of
   `balance_queues` still says that processes are bumped down.
5. A fully coalesced buddy tree is on no free list, so all later requests of the test case are
   refused (`ReleaseDone`; `FreeMemoryUsable` excepts the root).
6. Reads of an immediate file ignore position and count: `ReadIsRight` fails with the use `"part"`.
7. Releasing a process that holds nothing, because it never asked, was refused, or has released its block
   already, dereferences a null pointer: `ReleaseNothing`, after which the program has ended.  A process that requests again while it holds a block loses the
   first one: `BlocksSound` fails with `Again = TRUE`.
8. When a write behind the end fails, VFS takes its position for the size (`VfsSize`; in `Vfs`, `RwRegular`),
   and MFS keeps what it has written before the error: the two sizes differ until the file is truncated
   or closed by all (`stale`).  `SizesAgree` fails without `~stale`.
9. Truncating an immediate file leaves its bytes in the inode, and a hole exposes them:
   `WriteIsExact` fails with the uses `"truncate"` and `"sparse"` together.
10. A write that outgrows the inode on a full device erases the file: `WriteIsExact` fails without zones.
11. truncate makes an immediate file longer than its inode (use `"I_IMMEDIATE"`).
12. The edge threads of Assignment 06 compute from a copy taken while the image is being turned gray
    (`EdgeCopy`), and those of `part2_2` from the raw image, so the result is not the one of `part1`;
    `FinalImage` claims only that no edge is computed from edges.
13. A second execution of `part2_2` finds the old position, so edge detection does not wait; if the first
    one was killed inside the lock, it hangs (`EndsUnlessStarved` excepts kills).  The first row and column of
    its shared image are never filled.
14. `part2_3` hangs on a file whose size can be read but which `readPPM` refuses (`ProgramEnds` is
    about valid ones).
15. The trace of `do_unlink` for `/home` uses the vnode of a name that is not there (`link.c:178`): `NoPanic`
    fails with a name in `Home`.  `new_node` unlocks a vnode it does not have when the file a dangling
    symbolic link names cannot be created (`open.c:479`): the model panics with `"lnk"` and `"fails"`.
    A writer that ignores SIGPIPE keeps its partial count: it panics with `"big"` and `"nosigpipe"`.  `NoPanic`
    excepts these workloads and that of 2 (`Tame`).
    Truncating an open FIFO (`link.c:432`) makes VFS's size of the pipe differ from what PFS holds, and
    wakes nobody: `SizesAgree` and `NoLostWakeup` except such a pipe (`stale`).
16. `sjf-hash.c` never ends when a CPU burst of length 1 is followed by one that only this process
    has, or when nobody arrives at time 0: `curr_pid` still names the process, and `find_next` passes it
    over (`SjfEnds` says for which inputs it ends).  The averages it prints are sums that begin with
    whatever is in memory.
17. `rr-hash.c` takes no notice of arrival times, never takes an I/O burst off its list, never sets
    `done`, and with any input at all comes to freed memory or NULL (`pc = "fault"`); its README says that the
    "current form of the code has some issues".  The head of the queue moves on after a deletion that has
    already moved it (`RrWorked`), so that a process is passed over.  What is right until then is
    `WorkInOrder`, `QueueMatchesLists` and `TakesTurns`.
18. A write from a bad buffer into an immediate file loses a zone: when the copy into the inode fails
    (`mfs/read.c:163`), the chunk loop runs on the immediate file, `new_block` takes a zone, and `write_map`
    returns `NO_BLOCK`, which is `OK`, without entering it (`LoseZone`; `ZonesAccounted` counts it in `lost`).
19. A write from a bad buffer that turns an immediate file into a regular one empties it: `i_size` is 0 since
    `removeInodeEntry`, and no chunk is done that would set it again (`FaultBlocks`; `WriteIsExact` allows it, as
    `Emptied`).  The old bytes stay in its block behind the end; what is written behind a hole later
    brings them back: `WriteIsExact` fails with the uses `"fault"` and `"sparse"`.
20. `pipe_open` wakes processes that are suspended in `VFS_OPEN` only (`Assignment 09/open.c:557`): who waits for
    the other side of a FIFO in an open with O_CREAT is not woken when it comes (`susp.on = "creat"`;
    `NoLostWakeup` says nothing of it).

## 6. Not modelled, and the plan

Not modelled on purpose: printing, permissions, file times, CPU-time accounting; indirect blocks and
read-ahead; character devices; interrupt hooks and alarms of the kernel; multiprocessor CPU
selection; the textbook scripts of `Assignment 07`, which keep no state; the exec examples; reports.

Planned, in this order:

1. Proofs: `DeviceBalanced` and `CountsExact` of `Vfs`; `QueueMatchesLists` of `CpuSim`;
   `OrphanGroupHungUp`, on top of `FInv`.
2. `PageReplacement` (Assignment 08): FIFO, LRU and random over all short request strings, against
   reference definitions; hits and faults add up, never more than `frames` pages; LRU's stack property.
