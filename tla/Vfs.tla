---------------------------------- MODULE Vfs ----------------------------------
(***************************************************************************)
(* The file server VFS of Assignment 09: open.c, link.c and read.c, with   *)
(* the traces for files under /home.                                       *)
(*                                                                         *)
(* A worker thread handles one call of one process.  It locks the vnodes   *)
(* and mounts it works on before its first request to a file system and    *)
(* unlocks them at the end, so a call is one action, up to the point where *)
(* it suspends its caller: in the open of a FIFO, on an empty or full      *)
(* pipe, on a file lock, or around a request to a block driver, which is   *)
(* made with the lock bsf_lock held.                                       *)
(*                                                                         *)
(* Handlers are operators on the record S of the state.  Names are flat,   *)
(* each on one mount; the file systems, PFS (the contents of pipes), the   *)
(* tables of vnodes and filps and the suspension of processes are outside  *)
(* the repository, and modelled from how the three files use them.         *)
(* Abstracted: permissions (a call may be denied), file contents (only     *)
(* sizes count), times, character devices.                                 *)
(***************************************************************************)
EXTENDS Integers, FiniteSets, FiniteSetsExt

CONSTANTS
    Procs,              \* processes
    Names,              \* file names
    LinkNames,          \* bound: the names that symbolic links are made at
    Home,               \* the names under /home, whose use is traced
    Other,              \* the names on a second mount
    Inodes,             \* the inodes of all file systems
    NR_FILPS, OPEN_MAX, NR_VNODES, PIPE_BUF,
    MaxSize,            \* bound on sizes and file positions
    Workloads           \* bound: the features that are used in a behaviour

Features == {"reg", "dir", "fifo", "blk", "lnk", "names", "seek", "append", "locks", "fork",
             "nonblock", "big", "truncpipe", "nosigpipe", "fails", "crowd"}
NodeTypes == {"reg", "dir", "fifo", "blk"}
Filps == 1..NR_FILPS
Fds == 0..(OPEN_MAX - 1)
NONE == "none"
SUSPEND == -998
EAGAIN == -11
EPIPE == -32

ASSUME ProcsAssumption == NONE \notin Procs \cup Inodes \cup Names
ASSUME ProcsFinite == IsFiniteSet(Procs)
ASSUME NamesAssumption == LinkNames \subseteq Names /\ Home \subseteq Names /\ Other \subseteq Names
ASSUME BoundsAssumption ==
    /\ {NR_FILPS, OPEN_MAX, NR_VNODES, PIPE_BUF, MaxSize} \subseteq Nat \ {0}
    /\ PIPE_BUF <= MaxSize
ASSUME WorkloadsAssumption == Workloads \subseteq SUBSET Features

VARIABLES
    names,      \* the directory entries: name to inode
    inode,      \* the file systems' inodes
    vnode,      \* VFS's copy of those in use
    filp,       \* open files
    proc,       \* struct fproc: descriptors, and what the process waits for
    dev,        \* how often the block device is open, as its driver counts
    bsf_lock,   \* who holds it
    locks,      \* file_lock: <<process, inode>>
    panic,      \* VFS has panicked or used a null pointer
    workload    \* the features that are used in this behaviour

vars == <<names, inode, vnode, filp, proc, dev, bsf_lock, locks, panic, workload>>

State == [names |-> names, inode |-> inode, vnode |-> vnode, filp |-> filp, proc |-> proc,
          dev |-> dev, bsf_lock |-> bsf_lock, locks |-> locks, panic |-> panic]
Becomes(S) ==
    /\ names' = S.names /\ inode' = S.inode /\ vnode' = S.vnode /\ filp' = S.filp
    /\ proc' = S.proc /\ dev' = S.dev /\ bsf_lock' = S.bsf_lock /\ locks' = S.locks
    /\ panic' = S.panic /\ UNCHANGED workload

FreeInode == [type |-> NONE, size |-> 0, target |-> NONE]
\* pfs: the bytes PFS has for a pipe.  stale (history): since the vnode was made, a
\* write has failed behind the end of the file, or a pipe was truncated to another size.
FreeVnode == [ref |-> 0, size |-> 0, pfs |-> 0, stale |-> FALSE]
FreeFilp == [count |-> 0, ino |-> NONE, mode |-> {}, nonblock |-> FALSE, append |-> FALSE,
             pos |-> 0]
\* on: what the process is blocked on; fd, rw, left: the call it will resume.
Idle == [on |-> NONE, revived |-> FALSE, fd |-> 0, rw |-> NONE, left |-> 0]
NewProc == [alive |-> TRUE, fds |-> [d \in Fds |-> 0], cum_io_partial |-> 0, susp |-> Idle]
NoProc == [NewProc EXCEPT !.alive = FALSE]

Init ==
    /\ workload \in Workloads
    /\ names = [n \in Names |-> NONE] /\ inode = [i \in Inodes |-> FreeInode]
    /\ vnode = [i \in Inodes |-> FreeVnode] /\ filp = [f \in Filps |-> FreeFilp]
    /\ \E running \in SUBSET Procs :
         /\ Cardinality(running) = IF "crowd" \in workload THEN Cardinality(Procs) ELSE 2
         /\ proc = [p \in Procs |-> IF p \in running THEN NewProc ELSE NoProc]
    /\ dev = 0 /\ bsf_lock = NONE /\ locks = {} /\ panic = FALSE

-----------------------------------------------------------------------------
(* Vnodes, filps and suspension *)

Panics(S) == [S EXCEPT !.panic = TRUE]
Type(S, i) == S.inode[i].type
HasVnode(S, i) == S.vnode[i].ref > 0 \/ Cardinality({j \in Inodes : S.vnode[j].ref > 0}) < NR_VNODES
Unlinked(S, i) == \A n \in Names : S.names[n] # i

\* get_vnode(): the first user gets a copy of what the file system knows.
get_vnode(S, i) ==
    [S EXCEPT !.vnode[i] = IF S.vnode[i].ref > 0 THEN [S.vnode[i] EXCEPT !.ref = @ + 1]
                           ELSE [FreeVnode EXCEPT !.ref = 1, !.size = S.inode[i].size]]

\* put_vnode(): the last user gives up the copy and the bytes in PFS; the inode
\* itself goes if it has no name.
put_vnode(S, i) ==
    IF S.vnode[i].ref = 0 THEN Panics(S)
    ELSE IF S.vnode[i].ref > 1 THEN [S EXCEPT !.vnode[i].ref = @ - 1]
    ELSE [S EXCEPT !.vnode[i] = FreeVnode,
                   !.inode[i] = IF Unlinked(S, i) THEN FreeInode ELSE @]

\* find_filp(): the open files of an inode with the given mode bit.
find_filp(S, i, bit) ==
    {f \in Filps : S.filp[f].count > 0 /\ S.filp[f].ino = i /\ bit \in S.filp[f].mode}

FreeFds(S, p) == {d \in Fds : S.proc[p].fds[d] = 0}
FreeFilps(S) == {f \in Filps : S.filp[f].count = 0}

\* The inode that a blocked process waits for.
WaitsFor(S, q) == S.filp[S.proc[q].fds[S.proc[q].susp.fd]].ino

\* release() and lock_revive(): processes that wait in open are answered at once,
\* those that wait for a pipe or a lock try again.
release(S, i, on) ==
    LET woken == {q \in Procs : S.proc[q].susp.on = on /\ ~S.proc[q].susp.revived
                                /\ (on = "lock" \/ WaitsFor(S, q) = i)}
    IN  [S EXCEPT !.proc = [q \in Procs |->
           IF q \notin woken THEN S.proc[q]
           ELSE IF on = "open" THEN [S.proc[q] EXCEPT !.susp = Idle]
           ELSE [S.proc[q] EXCEPT !.susp.revived = TRUE]]]

Suspended(S, p, on, fd, rw, left) ==
    [S EXCEPT !.proc[p].susp = [on |-> on, revived |-> FALSE, fd |-> fd, rw |-> rw, left |-> left]]

-----------------------------------------------------------------------------
(* Names: the requests to a file system *)

IsLink(S, n) == S.names[n] # NONE /\ Type(S, S.names[n]) = "lnk"
Follow(S, n) == IF IsLink(S, n) THEN S.inode[S.names[n]].target ELSE n
OnMount(n) == n \in Other

\* The names that eat_path() and last_dir() find a vnode for.
Found(S, n) == S.names[n] # NONE /\ HasVnode(S, S.names[n])

\* req_create(), req_mknod(), req_mkdir(), req_slink(): an inode that is free.
FreeInodes(S) == {i \in Inodes : Type(S, i) = NONE}
Make(S, n, type, target) ==
    LET i == CHOOSE j \in FreeInodes(S) : TRUE
    IN  [S EXCEPT !.names[n] = i, !.inode[i] = [type |-> type, size |-> 0, target |-> target]]

\* req_unlink(): the inode goes with its last name, unless it is in use.
Forget(S, n) ==
    LET i == S.names[n]
        S1 == [S EXCEPT !.names[n] = NONE]
    IN  IF Unlinked(S1, i) /\ S.vnode[i].ref = 0 THEN [S1 EXCEPT !.inode[i] = FreeInode] ELSE S1

-----------------------------------------------------------------------------
(* link.c *)

Ready(p) == ~panic /\ proc[p].alive /\ proc[p].susp = Idle

\* req_ftrunc() may fail, and leaves everything as it is.  PFS is not told.
truncate_vnode(S, i, size, fails) ==
    IF Type(S, i) \notin {"reg", "fifo"} \/ fails THEN S
    ELSE [S EXCEPT !.inode[i].size = size, !.vnode[i].size = size,
                   !.vnode[i].stale = Type(S, i) = "fifo" /\ (@ \/ size # S.vnode[i].pfs)]

\* Bound: a pipe that is open is truncated only in some workloads, and while PFS has no
\* more for it than a pipe can hold.
TruncatesPipe(i) == "truncpipe" \in workload /\ vnode[i].pfs <= PIPE_BUF

\* do_truncate(): the vnode is used for the call only.
do_truncate(p, n, length, fails) ==
    LET i == names[Follow(State, n)]
        S == get_vnode(State, i)
    IN  /\ Ready(p) /\ Found(State, Follow(State, n))
        /\ Type(State, i) = "fifo" => vnode[i].ref = 0 \/ TruncatesPipe(i)
        /\ Becomes(put_vnode(IF Type(S, i) = "reg" /\ S.vnode[i].size = length THEN S
                             ELSE truncate_vnode(S, i, length, fails), i))

do_ftruncate(p, d, length, fails) ==
    LET f == proc[p].fds[d]
        i == filp[f].ino
    IN  /\ Ready(p) /\ f # 0
        /\ "W" \in filp[f].mode /\ ~(Type(State, i) = "reg" /\ vnode[i].size = length)
        /\ Type(State, i) = "fifo" => TruncatesPipe(i)
        /\ Becomes(truncate_vnode(State, i, length, fails))

\* do_link(): name1 is followed, and both are on one mount.
do_link(p, name1, name2) ==
    LET target == Follow(State, name1)
    IN  /\ "names" \in workload /\ Ready(p) /\ Found(State, target) /\ names[name2] = NONE
        /\ OnMount(target) = OnMount(name2)
        /\ Type(State, names[target]) # "dir"
        /\ Becomes([State EXCEPT !.names[name2] = names[target]])

\* do_unlink(), for unlink and rmdir; the name itself is meant, not the file that a
\* symbolic link names.  The trace for /home looks at the vnode also when there is none.
do_unlink(p, n, rmdir) ==
    /\ "names" \in workload /\ Ready(p)
    /\ Becomes(IF n \in Home /\ ~Found(State, n) THEN Panics(State)
               ELSE IF names[n] # NONE /\ rmdir = (Type(State, names[n]) = "dir")
                    THEN Forget(State, n)
               ELSE State)

\* do_rename(): the new name loses what it named, unless that is the same file.
\* (Bound: symbolic links keep their names, so that they never name each other.)
do_rename(p, old, new) ==
    LET isDir(n) == Type(State, names[n]) = "dir"
        S == IF names[new] = NONE THEN State ELSE Forget(State, new)
    IN  /\ "names" \in workload /\ Ready(p)
        /\ ~IsLink(State, old)
        /\ names[old] # NONE /\ OnMount(old) = OnMount(new) /\ names[old] # names[new]
        /\ names[new] # NONE => isDir(old) = isDir(new)
        /\ Becomes([S EXCEPT !.names[new] = names[old], !.names[old] = NONE])

\* do_slink().
do_slink(p, target, n) ==
    /\ "lnk" \in workload /\ Ready(p) /\ names[n] = NONE /\ FreeInodes(State) # {}
    /\ Becomes(Make(State, n, "lnk", target))

\* do_mknod() and do_mkdir().
do_mknod(p, n, type) ==
    /\ type \in workload \ {"reg"} /\ Ready(p) /\ names[n] = NONE /\ FreeInodes(State) # {}
    /\ type = "blk" => \A i \in Inodes : Type(State, i) # "blk"
    /\ Becomes(Make(State, n, type, NONE))

-----------------------------------------------------------------------------
(* open.c: opening *)

\* new_node(): the inode with that name, new or not; ino = NONE is NULL.  Without
\* O_EXCL a symbolic link is followed: then req_create() of the link's own name
\* says EEXIST, and the file it names is created by a second new_node(), whose
\* failure is handled with a vnode that is not there.
new_node(S, n, excl, fails) ==
    LET target == IF excl THEN n ELSE Follow(S, n)
        dangling == target # n
        made == get_vnode(Make(S, target, "reg", NONE), CHOOSE j \in FreeInodes(S) : TRUE)
        full == Cardinality({j \in Inodes : S.vnode[j].ref > 0}) >= NR_VNODES
        failed(err) == [S |-> IF dangling THEN Panics(S) ELSE S, ino |-> NONE, err |-> err]
    IN  IF S.names[target] # NONE
        THEN IF HasVnode(S, S.names[target])
             THEN [S |-> get_vnode(S, S.names[target]), ino |-> S.names[target], err |-> "EEXIST"]
             ELSE [S |-> S, ino |-> NONE, err |-> "ENFILE"]
        ELSE IF full THEN failed("ENFILE")
        ELSE IF fails \/ FreeInodes(S) = {} THEN failed("EACCES")
        ELSE [S |-> made, ino |-> made.names[target], err |-> "OK"]

\* Mutant: the caller is suspended before it has looked for blocked processes.
PipeOpenNoRelease(S, p, i, bits, nonblock) ==
    IF bits = {"R", "W"} THEN [S |-> S, r |-> "ENXIO"]
    ELSE IF find_filp(S, i, IF "W" \in bits THEN "R" ELSE "W") # {} THEN [S |-> S, r |-> "OK"]
    ELSE IF ~nonblock THEN [S |-> S, r |-> "SUSPEND"]
    ELSE [S |-> S, r |-> IF "W" \in bits THEN "ENXIO" ELSE "OK"]

\* pipe_open(): wait for the other side, or revive those that wait for this one in a
\* call of open(); whoever waits in an open with O_CREAT, which is a call of its own,
\* is not looked for.
pipe_open(S, p, i, bits, nonblock) ==
    IF bits = {"R", "W"} THEN [S |-> S, r |-> "ENXIO"]
    ELSE IF find_filp(S, i, IF "W" \in bits THEN "R" ELSE "W") # {}
         THEN [S |-> release(S, i, "open"), r |-> "OK"]
    ELSE IF ~nonblock THEN [S |-> S, r |-> "SUSPEND"]
    ELSE [S |-> S, r |-> IF "W" \in bits THEN "ENXIO" ELSE "OK"]

\* An open that failed gives back its descriptor, its filp and the vnode.
Abandon(S, p, d, f, i) ==
    put_vnode([S EXCEPT !.proc[p].fds[d] = 0, !.filp[f] = FreeFilp], i)

\* Mutant: a process that joins an open FIFO keeps the vnode that it looked up.
ShareKeeps(S, p, d, f, g, nonblock) ==
    [S EXCEPT !.proc[p].fds[d] = g, !.filp[f] = FreeFilp,
              !.filp[g].count = @ + 1, !.filp[g].nonblock = nonblock]

\* common_open(), when a co-reader or writer was found: use its filp g, not f.
Share(S, p, d, f, g, nonblock) ==
    put_vnode([S EXCEPT !.proc[p].fds[d] = g, !.filp[f] = FreeFilp,
                        !.filp[g].count = @ + 1, !.filp[g].nonblock = nonblock], S.filp[g].ino)

\* common_open() for a FIFO: only the first user can fail, in map_vnode() or when a
\* size on the disk has to be truncated.
FifoAnswer(S, p, i, bits, nonblock, fails) ==
    LET trunc == S.vnode[i].ref = 1 /\ S.vnode[i].size # 0
        S1 == IF trunc THEN truncate_vnode(S, i, 0, fails) ELSE S
    IN  IF fails /\ S.vnode[i].ref = 1 THEN [S |-> S1, r |-> "EIO"]
        ELSE pipe_open(S1, p, i, bits, nonblock)

\* Another process that reads (or writes) it shares its filp, and the vnode that was
\* looked up is put; else the process keeps its own filp.
Joined(S, p, d, f, i, bits, nonblock, r) ==
    LET shared == find_filp(S, i, IF "R" \in bits THEN "R" ELSE "W")
    IN  IF r = "ENXIO" \/ shared = {} THEN [S EXCEPT !.filp[f].count = 1]
        ELSE Share(S, p, d, f, Min(shared), nonblock)

\* call: the process that has to wait waits in an "open" or in a "creat".
OpenFifo(S, p, d, f, i, bits, nonblock, fails, call) ==
    LET o == FifoAnswer(S, p, i, bits, nonblock, fails)
        S2 == [o.S EXCEPT !.filp[f].nonblock = nonblock, !.filp[f].append = TRUE,
                          !.filp[f].count = 0]
        S3 == Joined(S2, p, d, f, i, bits, nonblock, o.r)
    IN  IF o.r = "OK" THEN S3
        ELSE IF o.r = "SUSPEND" THEN Suspended(S3, p, call, d, NONE, 0)
        ELSE Abandon(S3, p, d, f, i)

\* common_open() once the vnode is there: claim the descriptor and the filp, and open
\* what exists by its type.
Claim(S, p, i, bits, nonblock, append) ==
    LET d == Min(FreeFds(S, p))
        f == Min(FreeFilps(S))
    IN  [S EXCEPT !.proc[p].fds[d] = f,
                  !.filp[f] = [count |-> 1, ino |-> i, mode |-> bits, nonblock |-> nonblock,
                               append |-> append, pos |-> 0]]

OpenExisting(S, p, i, bits, fl, denied, fails, call) ==
    LET d == Min(FreeFds(S, p))
        f == Min(FreeFilps(S))
        S1 == Claim(S, p, i, bits, fl.nonblock, fl.append)
    IN  CASE denied \/ (Type(S, i) = "dir" /\ "W" \in bits) -> Abandon(S1, p, d, f, i)
          [] Type(S, i) = "reg" /\ fl.trunc /\ ~denied -> truncate_vnode(S1, i, 0, fails)
          [] Type(S, i) = "fifo" /\ ~denied ->
               OpenFifo(S1, p, d, f, i, bits, fl.nonblock, fails, call)
          [] Type(S, i) = "blk" /\ ~denied -> Suspended(S1, p, "bsf", d, "open", 0)
          [] OTHER -> S1

CanOpen(p) == Ready(p) /\ FreeFds(State, p) # {} /\ FreeFilps(State) # {}

\* do_open().
do_open(p, n, bits, fl, denied, fails) ==
    LET i == names[Follow(State, n)]
    IN  /\ CanOpen(p) /\ Found(State, Follow(State, n))
        /\ Becomes(OpenExisting(get_vnode(State, i), p, i, bits, fl, denied, fails, "open"))

\* do_creat(): a file that was just made is open already.
do_creat(p, n, bits, fl, excl, denied, fails) ==
    LET new == new_node(State, n, excl, fails)
        d == Min(FreeFds(State, p))
        f == Min(FreeFilps(State))
        S == Claim(new.S, p, new.ino, bits, fl.nonblock, fl.append)
    IN  /\ "reg" \in workload /\ CanOpen(p)
        /\ Becomes(CASE new.ino = NONE -> new.S
                     [] new.err = "OK" -> S
                     [] new.err = "EEXIST" /\ excl -> Abandon(S, p, d, f, new.ino)
                     [] OTHER ->
                          OpenExisting(new.S, p, new.ino, bits, fl, denied, fails, "creat"))

\* lock_bsf() for an open, a read or a write of a block special file.
lock_bsf(p) ==
    /\ ~panic /\ proc[p].susp.on = "bsf" /\ bsf_lock = NONE
    /\ Becomes([State EXCEPT !.proc[p].susp.on = "driver", !.bsf_lock = p])

\* Mutant: the device stays open when the file system does not take the label.
BdevOpenedForgets(p, outcome) ==
    LET d == proc[p].susp.fd
        f == proc[p].fds[d]
        S == [State EXCEPT !.proc[p].susp = Idle, !.bsf_lock = NONE]
    IN  /\ ~panic /\ proc[p].susp.on = "driver" /\ proc[p].susp.rw = "open"
        /\ Becomes(CASE outcome = "open" -> [S EXCEPT !.dev = @ + 1]
                     [] outcome = "label" -> Abandon([S EXCEPT !.dev = @ + 1], p, d, f, filp[f].ino)
                     [] OTHER -> Abandon(S, p, d, f, filp[f].ino))

\* common_open() after bdev_open(): the driver refuses; it has disappeared (the one
\* that replaces it is told of the filps that are open); the root file system does
\* not take its label, and the device is closed again; or all is well.
BdevOpened(p, outcome) ==
    LET d == proc[p].susp.fd
        f == proc[p].fds[d]
        S == [State EXCEPT !.proc[p].susp = Idle, !.bsf_lock = NONE]
    IN  /\ ~panic /\ proc[p].susp.on = "driver" /\ proc[p].susp.rw = "open"
        /\ Becomes(IF outcome = "open" THEN [S EXCEPT !.dev = @ + 1]
                   ELSE Abandon(S, p, d, f, filp[f].ino))

-----------------------------------------------------------------------------
(* open.c: closing and seeking *)

\* close_filp(): a pipe releases those that wait for the other side to come or go.
close_filp(S, f) ==
    LET i == S.filp[f].ino
        S1 == IF Type(S, i) # "fifo" THEN S
              ELSE release(S, i, IF "R" \in S.filp[f].mode THEN "write" ELSE "read")
        S2 == IF Type(S, i) = "blk" THEN [S1 EXCEPT !.dev = @ - 1] ELSE S1
    IN  IF S.filp[f].count > 1 THEN [S1 EXCEPT !.filp[f].count = @ - 1]
        ELSE put_vnode([S2 EXCEPT !.filp[f] = FreeFilp], i)

\* close_fd(): with any descriptor of a file, all locks of the process on it go.
close_fd(S, p, d) ==
    LET f == S.proc[p].fds[d]
        S1 == close_filp([S EXCEPT !.proc[p].fds[d] = 0], f)
        held == <<p, S.filp[f].ino>>
    IN  IF held \notin S.locks THEN S1
        ELSE release([S1 EXCEPT !.locks = @ \ {held}], NONE, "lock")

do_close(p, d) == Ready(p) /\ proc[p].fds[d] # 0 /\ Becomes(close_fd(State, p, d))

\* actual_lseek(): a negative position is accepted.  (Overflow needs offsets of 2^63.)
do_lseek(p, d, whence, offset) ==
    LET f == proc[p].fds[d]
        pos == (CASE whence = "SET" -> 0 [] whence = "CUR" -> filp[f].pos
                  [] whence = "END" -> vnode[filp[f].ino].size) + offset
    IN  /\ "seek" \in workload /\ Ready(p) /\ f # 0 /\ Type(State, filp[f].ino) # "fifo"
        /\ pos \in -1..MaxSize
        /\ Becomes([State EXCEPT !.filp[f].pos = pos])

-----------------------------------------------------------------------------
(* read.c *)

\* pipe_check(): how much can be read or written now, and who has to be woken.
pipe_check(S, i, rw, nonblock, bytes) ==
    LET size == S.vnode[i].size
        room == PIPE_BUF - size
        answer(T, r) == [S |-> T, r |-> r]
    IN  CASE rw = "read" /\ size > 0 -> answer(S, bytes)
          [] rw = "read" /\ size = 0 /\ find_filp(S, i, "W") = {} -> answer(S, 0)
          [] rw = "read" /\ size = 0 /\ find_filp(S, i, "W") # {} ->
               answer(release(S, i, "write"), IF nonblock THEN EAGAIN ELSE SUSPEND)
          [] rw = "write" /\ find_filp(S, i, "R") = {} -> answer(S, EPIPE)
          [] rw = "write" /\ find_filp(S, i, "R") # {} ->
               IF bytes <= room THEN answer(IF size = 0 THEN release(S, i, "read") ELSE S, bytes)
               ELSE IF bytes > PIPE_BUF /\ room > 0 THEN answer(release(S, i, "read"), room)
               ELSE answer(S, IF nonblock THEN EAGAIN ELSE SUSPEND)

\* Mutant: the count of a write that was done in parts is not reset.
TransferredKeeps(S, p, d, rw, req, done) ==
    IF rw = "write" /\ done < req /\ ~S.filp[S.proc[p].fds[d]].nonblock
    THEN Suspended([S EXCEPT !.proc[p].cum_io_partial = @ + done], p, rw, d, rw, req - done)
    ELSE S

\* rw_pipe() after the request to PFS: a blocking write that did not fit was done in
\* part, and its caller is suspended until there is room for more.
Transferred(S, p, d, rw, req, done) ==
    IF rw = "write" /\ done < req /\ ~S.filp[S.proc[p].fds[d]].nonblock
    THEN Suspended([S EXCEPT !.proc[p].cum_io_partial = @ + done], p, rw, d, rw, req - done)
    ELSE [S EXCEPT !.proc[p].cum_io_partial = 0]

\* rw_pipe().  fp_cum_io_partial stays as it is when
\* there is no reader any more: unless it ignores SIGPIPE, the caller is killed.
rw_pipe(S, p, d, rw, req) ==
    LET f == S.proc[p].fds[d]
        i == S.filp[f].ino
        c == pipe_check(S, i, rw, S.filp[f].nonblock, req)
        done == IF rw = "write" THEN c.r ELSE Min({req, S.vnode[i].size, S.vnode[i].pfs})
        left == IF rw = "write" THEN S.vnode[i].pfs + done ELSE S.vnode[i].pfs - done
        S1 == [c.S EXCEPT !.vnode[i].size = left, !.vnode[i].pfs = left]
    IN  CASE c.r = SUSPEND -> Suspended(c.S, p, rw, d, rw, req)
          [] c.r \in {EAGAIN, 0} -> c.S
          [] c.r = EPIPE -> IF "nosigpipe" \in workload THEN c.S
                            ELSE Suspended(c.S, p, "killed", d, rw, req)
          [] c.r > 0 -> Transferred(S1, p, d, rw, req, done)

\* Where a write begins; O_APPEND is looked at before the request is made.
WritesAt(S, f) == IF S.filp[f].append THEN S.vnode[S.filp[f].ino].size ELSE S.filp[f].pos

\* Where a request leaves the end of the file: a write that fails keeps what was
\* written before the error, or nothing; otherwise see RwRegular.
FileEnds(S, f, rw, n, fails) ==
    LET size == S.inode[S.filp[f].ino].size
        pos == WritesAt(S, f)
    IN  IF rw = "write" /\ fails THEN {size} \cup {k \in pos..(pos + n - 1) : k > size}
        ELSE {size}

\* Mutant: a write that ends before the end of the file sets the size, too.
RwRegularSets(S, f, rw, n, fails, size) ==
    LET i == S.filp[f].ino
        pos == IF rw = "write" THEN WritesAt(S, f) ELSE S.filp[f].pos
        end == CASE fails -> pos
                 [] ~fails /\ rw = "write" -> pos + n
                 [] OTHER -> Max({pos, Min({pos + n, size})})
        S1 == [S EXCEPT !.filp[f].pos = end]
    IN  IF rw = "read" THEN S1
        ELSE [S1 EXCEPT !.inode[i].size = IF fails THEN size ELSE Max({size, end}),
                        !.vnode[i].size = end]

\* read_write() for a regular file: the file system grows the file, VFS its copy of
\* the size.  When the request fails, VFS keeps the position (with O_APPEND: the end of
\* the file), and for a write takes it over as the size if it is larger.
RwRegular(S, f, rw, n, fails, size) ==
    LET i == S.filp[f].ino
        pos == IF rw = "write" THEN WritesAt(S, f) ELSE S.filp[f].pos
        end == CASE fails -> pos
                 [] ~fails /\ rw = "write" -> pos + n
                 [] OTHER -> Max({pos, Min({pos + n, size})})
        S1 == [S EXCEPT !.filp[f].pos = end]
    IN  IF rw = "read" THEN S1
        ELSE [S1 EXCEPT !.inode[i].size = IF fails THEN size ELSE Max({size, end}),
                        !.vnode[i].size = Max({@, end}),
                        !.vnode[i].stale = @ \/ (fails /\ Max({pos, size}) > S.inode[i].size)]

\* actual_read_write_peek() and read_write().
do_read_write(p, d, rw, n, fails) ==
    LET f == proc[p].fds[d]
        i == filp[f].ino
        type == Type(State, i)
    IN  /\ Ready(p) /\ f # 0
        /\ (IF rw = "read" THEN "R" ELSE "W") \in filp[f].mode
        /\ CASE type = "fifo" ->
                  Becomes(IF proc[p].cum_io_partial # 0 THEN Panics(State)
                          ELSE rw_pipe(State, p, d, rw, n))
             [] type = "blk" -> Becomes(Suspended(State, p, "bsf", d, rw, n))
             [] type = "reg" ->
                  /\ filp[f].pos >= 0 /\ filp[f].pos + n <= MaxSize
                  /\ rw = "write" /\ filp[f].append => vnode[i].size + n <= MaxSize
                  /\ \E size \in FileEnds(State, f, rw, n, fails) :
                       Becomes(RwRegular(State, f, rw, n, fails, size))
             [] OTHER -> FALSE

\* read_write() of a block special file after req_breadwrite().
BdevDone(p, ok) ==
    LET f == proc[p].fds[proc[p].susp.fd]
        S == [State EXCEPT !.proc[p].susp = Idle, !.bsf_lock = NONE]
        end == filp[f].pos + proc[p].susp.left
    IN  /\ ~panic /\ proc[p].susp.on = "driver" /\ proc[p].susp.rw # "open"
        /\ Becomes(IF ok /\ end <= MaxSize THEN [S EXCEPT !.filp[f].pos = end] ELSE S)

\* do_getdents().
do_getdents(p, d) ==
    LET f == proc[p].fds[d]
    IN  /\ Ready(p) /\ f # 0 /\ Type(State, filp[f].ino) = "dir"
        /\ filp[f].pos + 1 <= MaxSize
        /\ Becomes([State EXCEPT !.filp[f].pos = @ + 1])

-----------------------------------------------------------------------------
(* The rest of VFS *)

\* A process that was revived goes on with its call.
Resume(p) ==
    LET s == proc[p].susp
        S == [State EXCEPT !.proc[p].susp = Idle]
    IN  /\ ~panic /\ s.revived /\ s.on \in {"read", "write"}
        /\ Becomes(rw_pipe(S, p, s.fd, s.rw, s.left))

\* fcntl(F_SETLKW) takes a lock, or waits while another process has one.
TryLock(S, p, d) ==
    LET i == S.filp[S.proc[p].fds[d]].ino
    IN  IF \E q \in Procs \ {p} : <<q, i>> \in S.locks THEN Suspended(S, p, "lock", d, NONE, 0)
        ELSE [S EXCEPT !.locks = @ \cup {<<p, i>>}]

SetLock(p, d) ==
    /\ "locks" \in workload /\ Ready(p) /\ proc[p].fds[d] # 0
    /\ Type(State, filp[proc[p].fds[d]].ino) = "reg"
    /\ Becomes(TryLock(State, p, d))

ResumeLock(p) ==
    /\ ~panic /\ proc[p].susp.revived /\ proc[p].susp.on = "lock"
    /\ Becomes(TryLock([State EXCEPT !.proc[p].susp = Idle], p, proc[p].susp.fd))

\* pm_fork(): the child shares the open files.
Fork(p, q) ==
    /\ "fork" \in workload /\ Ready(p) /\ ~proc[q].alive
    /\ Becomes([State EXCEPT
         !.proc[q] = [NewProc EXCEPT !.fds = proc[p].fds],
         !.filp = [f \in Filps |->
                     [filp[f] EXCEPT !.count = @ + Cardinality({d \in Fds : proc[p].fds[d] = f})]]])

\* pm_exit(): also for a process that is killed while it waits for a pipe or a lock.
Exit(p) ==
    LET open == {d \in Fds : proc[p].fds[d] # 0}
        S == FoldSet(LAMBDA d, T : close_fd(T, p, d), [State EXCEPT !.proc[p].susp = Idle], open)
    IN  /\ ~panic /\ proc[p].alive
        /\ proc[p].susp.on \notin {"bsf", "driver"}
        /\ Becomes([S EXCEPT !.proc[p] = NoProc])

Failures == IF "fails" \in workload THEN BOOLEAN ELSE {FALSE}
Modes == {{"R"}, {"W"}, {"R", "W"}}
OpenFlags ==
    [nonblock : IF "nonblock" \in workload THEN BOOLEAN ELSE {FALSE},
     append : IF "append" \in workload THEN BOOLEAN ELSE {FALSE},
     trunc : IF "reg" \in workload THEN BOOLEAN ELSE {FALSE}]

FileStep(p) ==
    \/ \E n \in Names, bits \in Modes, fl \in OpenFlags, denied, fails \in Failures :
         \/ do_open(p, n, bits, fl, denied, fails)
         \/ \E excl \in BOOLEAN : do_creat(p, n, bits, fl, excl, denied, fails)
    \/ lock_bsf(p)
    \/ \E outcome \in {"open", "refused", "gone", "label"} : BdevOpened(p, outcome)
    \/ \E ok \in BOOLEAN : BdevDone(p, ok)
    \/ \E d \in Fds :
         \/ do_close(p, d) \/ do_getdents(p, d) \/ SetLock(p, d)
         \/ \E whence \in {"SET", "CUR", "END"}, offset \in -1..1 : do_lseek(p, d, whence, offset)
         \/ \E rw \in {"read", "write"}, fails \in Failures,
               n \in 1..(IF "big" \in workload THEN PIPE_BUF + 1 ELSE PIPE_BUF) :
              do_read_write(p, d, rw, n, fails)
         \/ \E length \in {0, MaxSize}, fails \in Failures : do_ftruncate(p, d, length, fails)
    \/ Resume(p) \/ ResumeLock(p) \/ Exit(p)
    \/ \E q \in Procs : Fork(p, q)

NameStep(p) ==
    \E n \in Names :
      \/ \E type \in NodeTypes : do_mknod(p, n, type)
      \/ \E length \in {0, MaxSize}, fails \in Failures : do_truncate(p, n, length, fails)
      \/ \E m \in Names : do_link(p, n, m) \/ do_rename(p, n, m)
      \/ \E rmdir \in BOOLEAN : do_unlink(p, n, rmdir)
      \/ n \in LinkNames /\ \E m \in Names \ LinkNames : do_slink(p, m, n)

Next == \E p \in Procs : FileStep(p) \/ NameStep(p)

Spec == Init /\ [][Next]_vars

-----------------------------------------------------------------------------
(* Properties *)

Used == {f \in Filps : filp[f].count > 0}
Waiting(p, on) == proc[p].susp.on = on /\ ~proc[p].susp.revived

\* common_open, close_fd and the FIFO's shared filps: every filp is counted once for
\* each descriptor, every vnode once for each filp, and a file that is open or has a
\* name is there.
CountsExact ==
    /\ \A f \in Filps :
         filp[f].count = Cardinality({x \in Procs \X Fds : proc[x[1]].fds[x[2]] = f})
    /\ \A i \in Inodes :
         /\ vnode[i].ref = Cardinality({f \in Used : filp[f].ino = i})
         /\ (inode[i].type # NONE) <=> (vnode[i].ref > 0 \/ ~Unlinked(State, i))

\* read_write and truncate_vnode: what VFS takes for the size of an open file is its
\* size, whatever other names and descriptors it has been changed through; for a
\* pipe, the bytes that PFS holds.  Not so after a write that failed behind the end, of
\* which VFS and the file system keep different parts, until the file is truncated or
\* closed by all; and not for a pipe that was truncated to another size than it had.
SizesAgree ==
    \A i \in Inodes : vnode[i].ref > 0 /\ ~vnode[i].stale =>
      vnode[i].size = (IF inode[i].type = "fifo" THEN vnode[i].pfs ELSE inode[i].size)

\* pipe_open, rw_pipe and close_fd: nobody waits for what is already there.  Who
\* waits in open has no partner, who waits to read has an empty pipe and a writer,
\* who waits to write has a reader that does not itself wait, and who waits for a
\* lock waits for somebody else's.  (Not claimed for who waits in an open with O_CREAT,
\* whom pipe_open never wakes, nor for a pipe that was truncated with bytes in it or to
\* more than it has, which wakes nobody.)
NoLostWakeup ==
    \A p \in Procs :
      LET f == proc[p].fds[proc[p].susp.fd]
          i == filp[f].ino
      IN  /\ Waiting(p, "open") =>
               find_filp(State, i, IF "W" \in filp[f].mode THEN "R" ELSE "W") = {}
          /\ Waiting(p, "read") =>
               find_filp(State, i, "W") # {} /\ (vnode[i].size = 0 \/ vnode[i].stale)
          /\ Waiting(p, "write") =>
               /\ find_filp(State, i, "R") # {}
               /\ \A q \in Procs : Waiting(q, "read") => WaitsFor(State, q) # i \/ vnode[i].stale
          /\ Waiting(p, "lock") => \E q \in Procs \ {p} : <<q, i>> \in locks

\* The workloads without the panics that are known: a second new_node() that fails, after
\* a symbolic link (open.c:479); the trace of do_unlink for a name under /home that is
\* not there (link.c:178); and a partial count that stays behind when a pipe is written
\* in parts by somebody who ignores SIGPIPE, or is switched to O_NONBLOCK meanwhile.
Tame(w) ==
    /\ {"lnk", "nosigpipe"} \cap w = {}
    /\ "names" \notin w \/ Home = {}
    /\ "big" \notin w \/ "nonblock" \notin w

\* read_write's "fp_cum_io_partial not clear" and put_vnode's check of the count: without
\* the causes above VFS does not panic, however partial writes are interrupted, resumed
\* and killed, and however opens of one FIFO share filps and vnodes.
NoPanic == panic => ~Tame(workload)

\* common_open for block special files: the driver has the device open once for each
\* filp, except those whose open is under way, and bsf_lock is held by the process
\* that waits for the driver.
DeviceBalanced ==
    LET opening == {proc[p].fds[proc[p].susp.fd] :
                      p \in {q \in Procs : proc[q].susp.on \in {"bsf", "driver"}
                                           /\ proc[q].susp.rw = "open"}}
    IN  /\ dev = Cardinality({f \in Used \ opening : inode[filp[f].ino].type = "blk"})
        /\ \A p \in Procs : bsf_lock = p <=> proc[p].susp.on = "driver"

\* rw_pipe: "fp->fp_cum_io_partial is only nonzero when doing partial writes".
PartialOnlyWhileWriting ==
    \A p \in Procs : proc[p].cum_io_partial # 0 => proc[p].susp.on \in {"write", "killed"}
================================================================================
