------------------------------ MODULE ForkExit ------------------------------
(***************************************************************************)
(* The process manager's process life cycle: fork, srv_fork, exit, the     *)
(* second half of exit, waitpid and the tracer hand-over of                *)
(* "Assignment 02/part3/forkexit.c".                                       *)
(*                                                                         *)
(* PM is a single-threaded server: it handles one message at a time.  Its  *)
(* clients are the user processes and VFS, whose answers arrive later and  *)
(* in any order.  exit_proc() loops over the process table and may call    *)
(* itself through tracer_died() and sig_proc(); the loop is a stack of     *)
(* frames, one iteration per step, and no other message is handled while   *)
(* the stack is not empty.                                                 *)
(*                                                                         *)
(* Abstracted: CPU-time accounting, timers, exit codes, core file names,   *)
(* printing.  A request that returns an error without changing anything is *)
(* a stuttering step and has no action.                                    *)
(***************************************************************************)
EXTENDS Integers, Sequences, FiniteSets

CONSTANTS
    NR_PROCS,       \* slots of the process table
    LAST_FEW,       \* slots reserved for the superuser
    MaxPid,         \* process identifiers are 1 .. MaxPid
    Uids,           \* effective user ids; 0 is the superuser
    KillSignals,    \* the signals processes send with kill
    Services,       \* does RS start services and scripts?
    TraceForks,     \* the TO_TRACEFORK settings tracers use; {}: no tracing
    WaitKinds,      \* the forms of waitpid's argument processes use
    InitExits,      \* may INIT exit?
    Sessions        \* do processes become session leaders?

ASSUME NrProcsAssumption == NR_PROCS \in Nat /\ NR_PROCS >= 3
ASSUME LastFewAssumption == LAST_FEW \in Nat
ASSUME MaxPidAssumption == MaxPid \in Nat /\ MaxPid > 2 * NR_PROCS
ASSUME UidsAssumption == 0 \in Uids
ASSUME SwitchAssumption ==
    /\ Services \in BOOLEAN /\ Sessions \in BOOLEAN /\ InitExits \in BOOLEAN
    /\ TraceForks \subseteq BOOLEAN
    /\ WaitKinds \subseteq {"any", "pid", "grp"}

Slots == 0 .. NR_PROCS - 1
Pids == 1 .. MaxPid
NoPid == 0          \* a free slot, or a process outside the sessions modelled
PM_PROC_NR == 0
INIT_PROC_NR == 1
RS_PROC_NR == 2
NO_SLOT == -1       \* NO_TRACER

\* The signals the code sends or can receive from the rest of PM, by number.
SIGHUP == 1
SIGKILL == 9
SIGSEGV == 11
SIGSTOP == 17
SIGCHLD == 20
Signals == {SIGHUP, SIGKILL, SIGSEGV, SIGSTOP, SIGCHLD}

ASSUME KillSignalsAssumption == KillSignals \subseteq {SIGKILL, SIGSEGV}

Flags == {"IN_USE", "WAITING", "ZOMBIE", "PROC_STOPPED", "EXITING",
          "NEW_PARENT", "TRACE_STOPPED", "TRACE_ZOMBIE", "TRACE_EXIT",
          "TOLD_PARENT", "PRIV_PROC"}

\* The request to VFS a slot has outstanding; VFS_CALL is "not none".
VfsCalls == {"none", "fork", "srv_fork", "exit", "core"}

\* What the process itself is doing: running, or blocked in a call to PM.
UserStates == {"none", "run", "born", "fork", "wait", "ptrace",
               "exit", "dead"}

\* The argument of waitpid: any child, one pid, or one process group.
WaitArgs == [kind : {"any", "pid", "grp"}, id : Pids \cup {NoPid}]
AnyChild == [kind |-> "any", id |-> NoPid]

Proc == [flags : SUBSET Flags, parent : Slots,
         tracer : Slots \cup {NO_SLOT}, tracefork : BOOLEAN,
         pid : Pids \cup {NoPid}, grp : Pids \cup {NoPid}, uid : Uids,
         wpid : WaitArgs, sched : BOOLEAN, sigs : SUBSET Signals,
         sigtrace : SUBSET Signals, vfs : VfsCalls, user : UserStates]

FreeSlot == [flags |-> {}, parent |-> PM_PROC_NR, tracer |-> NO_SLOT,
             tracefork |-> FALSE, pid |-> NoPid, grp |-> NoPid, uid |-> 0,
             wpid |-> AnyChild, sched |-> FALSE, sigs |-> {},
             sigtrace |-> {}, vfs |-> "none", user |-> "none"]

VARIABLES
    mproc,          \* the process table
    procs_in_use,   \* how many slots are in use
    stack,          \* frames of exit_proc() in progress, innermost last
    fault           \* "none", or the panic or impossible event PM ran into

vars == <<mproc, procs_in_use, stack, fault>>

\* An activation of exit_proc for slot p: the loop index, whether the loop is
\* the hang-up one, the group to hang up, and the group of the caller mp.
Frame == [p : Slots, k : 0 .. NR_PROCS, hup : BOOLEAN,
          pg : Pids \cup {NoPid}, cg : Pids \cup {NoPid}]

Faults == {"none", "panic", "stray reply", "signal to dead process"}

-----------------------------------------------------------------------------
(* A handler computes the next table from the current one, so its parts are *)
(* functions of the triple below; Becomes assigns the result.               *)

State == [mproc |-> mproc, used |-> procs_in_use, fault |-> fault]

Becomes(S) == /\ mproc' = S.mproc
              /\ procs_in_use' = S.used
              /\ fault' = S.fault

Least(K) == CHOOSE k \in K : \A j \in K : k <= j

Fail(S, what) == [S EXCEPT !.fault = IF @ = "none" THEN what ELSE @]

Has(S, s, f) == f \in S.mproc[s].flags
Set(S, s, fs) == [S EXCEPT !.mproc[s].flags = @ \cup fs]
Clear(S, s, fs) == [S EXCEPT !.mproc[s].flags = @ \ fs]
VfsBusy(S, s) == S.mproc[s].vfs # "none"

\* reply() of PM's main loop: the process must be blocked in that very call.
Reply(S, s, call) ==
    IF S.mproc[s].user = call
    THEN [S EXCEPT !.mproc[s].user = "run"]
    ELSE Fail(S, "stray reply")

\* tell_vfs(): one request per slot at a time.
tell_vfs(S, s, call) ==
    IF VfsBusy(S, s) THEN Fail(S, "panic")
    ELSE [S EXCEPT !.mproc[s].vfs = call]

RightChild(arg, child) ==
    \/ arg.kind = "any"
    \/ arg.kind = "pid" /\ arg.id = child.pid
    \/ arg.kind = "grp" /\ arg.id = child.grp

wait_test(S, s, c) ==
    /\ Has(S, s, "WAITING")
    /\ RightChild(S.mproc[s].wpid, S.mproc[c])

\* A reply that ends a waitpid.  mp_wpid is only read while WAITING is set;
\* it is reset with the flag.
Wake(S, p) ==
    [Clear(Reply(S, p, "wait"), p, {"WAITING"}) EXCEPT !.mproc[p].wpid = AnyChild]

tell_parent(S, c) ==
    LET p == S.mproc[c].parent
    IN  IF p <= 0 \/ ~Has(S, c, "ZOMBIE") \/ Has(S, c, "TOLD_PARENT")
        THEN Fail(S, "panic")
        ELSE Set(Clear(Wake(S, p), c, {"ZOMBIE"}), c, {"TOLD_PARENT"})

tell_tracer(S, c) ==
    LET t == S.mproc[c].tracer
    IN  IF t <= 0 \/ ~Has(S, c, "TRACE_ZOMBIE")
        THEN Fail(S, "panic")
        ELSE Set(Clear(Wake(S, t), c, {"TRACE_ZOMBIE"}), c, {"ZOMBIE"})

\* Mutant: the slot is released but still counted.
cleanupUncounted(S, c) == [S EXCEPT !.mproc[c] = FreeSlot]

\* The slot's other fields stay behind in the code, but nothing reads them
\* before do_fork overwrites the whole slot; they are reset here.
cleanup(S, c) == [S EXCEPT !.mproc[c] = FreeSlot, !.used = @ - 1]

(* sig_proc() for a signal that does not kill: a traced process hands it to  *)
(* its tracer and stops; SIGCHLD is ignored otherwise; while VFS is busy     *)
(* with the process every signal is kept for later.                          *)
TraceStop(S, s, sig) ==
    LET t  == S.mproc[s].tracer
        S1 == [S EXCEPT !.mproc[s].sigtrace = @ \cup {sig}]
    IN  IF Has(S, s, "TRACE_STOPPED") THEN S1
        ELSE IF wait_test(S, t, s)
        THEN Set(Wake(S, t), s, {"TRACE_STOPPED"})
        ELSE Set(S1, s, {"TRACE_STOPPED"})

Live(S, s) == Has(S, s, "IN_USE") /\ ~Has(S, s, "EXITING")
ToTracer(S, s, sig) == S.mproc[s].tracer # NO_SLOT /\ sig # SIGKILL
Kills(S, s, sig) == /\ Live(S, s)
                    /\ ~ToTracer(S, s, sig)
                    /\ ~VfsBusy(S, s)
                    /\ sig \notin {SIGCHLD, SIGSTOP}

\* Everything sig_proc does short of killing the process (see exit_proc).
sig_proc(S, s, sig) ==
    IF ~Live(S, s) THEN Fail(S, "signal to dead process")
    ELSE IF ToTracer(S, s, sig) THEN TraceStop(S, s, sig)
    ELSE IF VfsBusy(S, s) THEN [S EXCEPT !.mproc[s].sigs = @ \cup {sig}]
    ELSE S

\* Mutant: the EXITING test is dropped.
check_parentExiting(S, c, try_cleanup) ==
    LET p == S.mproc[c].parent
        told == tell_parent(S, c)
    IN  IF wait_test(S, p, c)
        THEN IF try_cleanup /\ ~VfsBusy(S, c) THEN cleanup(told, c) ELSE told
        ELSE sig_proc(S, p, SIGCHLD)

check_parent(S, c, try_cleanup) ==
    LET p == S.mproc[c].parent
        told == tell_parent(S, c)
    IN  IF Has(S, p, "EXITING") THEN S
        ELSE IF wait_test(S, p, c)
        THEN IF try_cleanup /\ ~VfsBusy(S, c) THEN cleanup(told, c) ELSE told
        ELSE sig_proc(S, p, SIGCHLD)

zombify(S, c) ==
    LET t == S.mproc[c].tracer
        S1 == Set(S, c, {"TRACE_ZOMBIE"})
    IN  IF Has(S, c, "TRACE_ZOMBIE") \/ Has(S, c, "ZOMBIE")
        THEN Fail(S, "panic")
        ELSE IF t # NO_SLOT /\ t # S.mproc[c].parent
        THEN IF wait_test(S1, t, c)
             THEN check_parent(tell_tracer(S1, c), c, FALSE)
             ELSE S1
        ELSE check_parent(Set(S, c, {"ZOMBIE"}), c, FALSE)

\* Mutant: a pending ptrace(T_EXIT) is forgotten with the other flags.
ExitKeepsNoTrace == {"IN_USE", "PRIV_PROC", "PROC_STOPPED"}

\* The flags that survive into EXITING.
ExitKeeps == {"IN_USE", "PRIV_PROC", "TRACE_EXIT", "PROC_STOPPED"}

\* exit_proc() up to its loop over the table; INIT is only stopped.  Pending
\* signals and mp_wpid of an exiting process are never read again.
exit_proc(S, c, dump_core) ==
    LET core == dump_core /\ ~Has(S, c, "PRIV_PROC")
        S1 == [Set(S, c, {"PROC_STOPPED"}) EXCEPT !.mproc[c].user = "dead"]
        S2 == tell_vfs(S1, c, IF core THEN "core" ELSE "exit")
        S3 == [S2 EXCEPT !.mproc[c].flags = (@ \cap ExitKeeps) \cup {"EXITING"},
                         !.mproc[c].wpid = AnyChild, !.mproc[c].sigs = {},
                         !.mproc[c].sigtrace = {}]
    IN  IF c = INIT_PROC_NR THEN S1
        ELSE IF core THEN S3 ELSE zombify(S3, c)

\* The frame of the loop that follows; procgrp compares rmp's pid with the
\* process group of mp, the process whose message PM is handling.
ExitFrame(S, c, cg) ==
    [p |-> c, k |-> 0, hup |-> FALSE, cg |-> cg,
     pg |-> IF S.mproc[c].pid = cg THEN cg ELSE NoPid]

PushExit(S, stk, c, cg) ==
    IF c = INIT_PROC_NR THEN stk ELSE Append(stk, ExitFrame(S, c, cg))

\* Send sig to s, and start the exit it causes on top of the frames stk.
Signal(S, stk, s, sig, cg) ==
    IF Kills(S, s, sig)
    THEN /\ Becomes(exit_proc(S, s, sig = SIGSEGV))
         /\ stack' = PushExit(S, stk, s, cg)
    ELSE /\ Becomes(sig_proc(S, s, sig))
         /\ stack' = stk

\* Mutant: a slot the parent has already collected is not released.
exit_restartLeaks(S, c, dump_core) ==
    LET S1 == [S EXCEPT !.mproc[c].sched = FALSE]
        S2 == IF dump_core THEN zombify(S1, c) ELSE S1
    IN  IF Has(S2, c, "TRACE_EXIT")
        THEN Reply(S2, S2.mproc[c].tracer, "ptrace") ELSE S2

exit_restart(S, c, dump_core) ==
    LET S1 == [S EXCEPT !.mproc[c].sched = FALSE]
        S2 == IF dump_core THEN zombify(S1, c) ELSE S1
        S3 == IF Has(S2, c, "TRACE_EXIT")
              THEN Reply(S2, S2.mproc[c].tracer, "ptrace") ELSE S2
    IN  IF Has(S3, c, "TOLD_PARENT") THEN cleanup(S3, c) ELSE S3

-----------------------------------------------------------------------------
(* Init: PM, INIT and RS occupy the first slots, as after boot.              *)

SystemSlots == {PM_PROC_NR, INIT_PROC_NR, RS_PROC_NR}

Boot(s) == [FreeSlot EXCEPT
              !.flags = IF s = INIT_PROC_NR THEN {"IN_USE"}
                        ELSE {"IN_USE", "PRIV_PROC"},
              !.parent = IF s = PM_PROC_NR THEN RS_PROC_NR ELSE INIT_PROC_NR,
              !.pid = s + 1,
              !.sched = s = INIT_PROC_NR,
              !.user = IF s = PM_PROC_NR THEN "none" ELSE "run"]

Init ==
    /\ mproc = [s \in Slots |-> IF s \in SystemSlots THEN Boot(s) ELSE FreeSlot]
    /\ procs_in_use = 3
    /\ stack = <<>>
    /\ fault = "none"

\* PM takes a new message only between handlers, and never after a panic.
Idle == stack = <<>>
Ready == Idle /\ fault = "none"

\* A process that can send a request; main() discards those of exiting ones.
Running(s) == /\ mproc[s].user = "run"
              /\ Live(State, s)
              /\ "TRACE_STOPPED" \notin mproc[s].flags
              /\ s = RS_PROC_NR => Services

-----------------------------------------------------------------------------
(* fork *)

TableFull(p) ==
    \/ procs_in_use = NR_PROCS
    \/ procs_in_use >= NR_PROCS - LAST_FEW /\ mproc[p].uid # 0

\* The slots the search loop can stop at.  Where it starts (next_child) only
\* decides which free slot is taken first, so any of them is.
FreeSlots == {s \in Slots : "IN_USE" \notin mproc[s].flags}

\* get_free_pid(): a pid no process has, as its pid or as its group.
get_free_pid ==
    Least({i \in Pids : \A s \in Slots : mproc[s].pid # i /\ mproc[s].grp # i})

\* Mutant: the wrong field of the caller becomes the child's parent.
ForkedSlotTracer(p, keeps) ==
    [mproc[p] EXCEPT !.parent = mproc[p].tracer, !.flags = @ \cap keeps,
                     !.pid = get_free_pid, !.vfs = "none", !.user = "born"]

\* The child's slot: a copy of the parent's but for these fields.
ForkedSlot(p, keeps) ==
    LET traced == mproc[p].tracefork
    IN  [mproc[p] EXCEPT
           !.parent = p,
           !.tracer = IF traced THEN @ ELSE NO_SLOT,
           !.tracefork = traced,
           !.sigtrace = IF traced THEN @ ELSE {},
           !.sched = @ \/ ("PRIV_PROC" \in mproc[p].flags /\ "PRIV_PROC" \notin keeps),
           !.flags = @ \cap keeps,
           !.pid = get_free_pid,
           !.vfs = "none",
           !.user = "born"]

\* do_fork's assertion: a system process is not scheduled by SCHED.
ForkAssert(p) == "PRIV_PROC" \in mproc[p].flags => ~mproc[p].sched

\* Everything after vm_fork(): fill the slot, tell VFS, tell the tracer.
Forked(p, c, slot, call, callerState) ==
    LET S1 == [State EXCEPT !.mproc[c] = slot, !.mproc[p].user = callerState,
                            !.used = @ + 1]
        S2 == tell_vfs(S1, c, call)
    IN  IF slot.tracer # NO_SLOT THEN sig_proc(S2, c, SIGSTOP) ELSE S2

\* (When vm_fork() fails nothing has changed yet.)
do_fork(p) ==
    /\ Ready /\ Running(p)
    /\ ~TableFull(p)
    /\ UNCHANGED stack
    /\ IF FreeSlots = {} \/ ~ForkAssert(p)
       THEN Becomes(Fail(State, "panic"))
       ELSE \E c \in FreeSlots :
              Becomes(Forked(p, c, ForkedSlot(p, {"IN_USE"}), "fork", "fork"))

\* RS continues at once and so does the child: nobody waits for VFS.
do_srv_fork(uid) ==
    LET p == RS_PROC_NR
        slot == [ForkedSlot(p, {"IN_USE", "PRIV_PROC"}) EXCEPT !.uid = uid]
    IN  /\ Ready /\ Running(p)
        /\ ~TableFull(p)
        /\ UNCHANGED stack
        /\ IF FreeSlots = {}
           THEN Becomes(Fail(State, "panic"))
           ELSE \E c \in FreeSlots :
                  Becomes(Reply(Forked(p, c, slot, "srv_fork", "run"),
                                c, "born"))

-----------------------------------------------------------------------------
(* exit, kill and VFS's answers *)

\* exit(2); a system process that tries is killed by the kernel instead.
do_exit(p) ==
    /\ Ready /\ Running(p) /\ p \notin {PM_PROC_NR, RS_PROC_NR}
    /\ p = INIT_PROC_NR => InitExits
    /\ IF "PRIV_PROC" \in mproc[p].flags
       THEN /\ Becomes([State EXCEPT !.mproc[p].user = "exit"])
            /\ stack' = stack
       ELSE /\ Becomes(exit_proc(State, p, FALSE))
            /\ stack' = PushExit(State, stack, p, mproc[p].grp)

\* The SIGKILL do_exit asked the kernel for comes back to PM.
KernelKill(s) ==
    /\ Ready /\ mproc[s].user = "exit"
    /\ Signal(State, stack, s, SIGKILL, NoPid)

\* kill(2) by the process 'by', whose slot is mp while PM handles it.
Kill(by, s, sig) ==
    /\ Ready /\ Running(by)
    /\ Live(State, s) /\ s \notin SystemSlots
    /\ Signal(State, stack, s, sig, mproc[by].grp)

\* One iteration of exit_proc's loops in the innermost frame.
Top == stack[Len(stack)]
Below == SubSeq(stack, 1, Len(stack) - 1)

\* Mutant: the loop looks at children only.
BereavedChildren(f) == {k \in f.k .. NR_PROCS - 1 :
                          /\ "IN_USE" \in mproc[k].flags
                          /\ mproc[k].parent = f.p}

\* The slots the loops still have to act on.
Bereaved(f) == {k \in f.k .. NR_PROCS - 1 :
                  /\ "IN_USE" \in mproc[k].flags
                  /\ mproc[k].tracer = f.p \/ mproc[k].parent = f.p}
Members(f) == {k \in f.k .. NR_PROCS - 1 :
                 Live(State, k) /\ mproc[k].grp = f.pg}

\* tracer_died() up to the SIGKILL; a zombie goes to its real parent.
tracer_died(S, c) ==
    LET S1 == [Clear(S, c, {"TRACE_EXIT"}) EXCEPT !.mproc[c].tracer = NO_SLOT]
    IN  IF Has(S1, c, "TRACE_ZOMBIE")
        THEN check_parent(Set(Clear(S1, c, {"TRACE_ZOMBIE"}), c, {"ZOMBIE"}),
                          c, TRUE)
        ELSE S1

LoopTracerDied ==
    /\ stack # <<>> /\ ~Top.hup /\ Bereaved(Top) # {}
    /\ LET f == Top
           k == Least(Bereaved(f))
           S == tracer_died(State, k)
           stk == Append(Below, [f EXCEPT !.k = k])
       IN  /\ mproc[k].tracer = f.p
           /\ IF Has(State, k, "EXITING")
              THEN Becomes(S) /\ stack' = stk
              ELSE Signal(S, stk, k, SIGKILL, f.cg)

\* Mutant: INIT is not notified of a zombie.
disinheritSilent(S, k) ==
    LET S1 == [S EXCEPT !.mproc[k].parent = INIT_PROC_NR]
    IN  IF VfsBusy(S1, k) THEN Set(S1, k, {"NEW_PARENT"}) ELSE S1

\* A child of the exiting process is inherited by INIT.
disinherit(S, k) ==
    LET S1 == [S EXCEPT !.mproc[k].parent = INIT_PROC_NR]
        S2 == IF VfsBusy(S1, k) THEN Set(S1, k, {"NEW_PARENT"}) ELSE S1
    IN  IF Has(S2, k, "ZOMBIE") THEN check_parent(S2, k, TRUE) ELSE S2

LoopDisinherit ==
    /\ stack # <<>> /\ ~Top.hup /\ Bereaved(Top) # {}
    /\ LET f == Top
           k == Least(Bereaved(f))
       IN  /\ mproc[k].tracer # f.p
           /\ Becomes(disinherit(State, k))
           /\ stack' = Append(Below, [f EXCEPT !.k = k + 1])

\* Mutant: the search for members goes on from the last child.
LoopEndNoReset ==
    /\ stack # <<>> /\ ~Top.hup /\ Bereaved(Top) = {}
    /\ stack' = IF Top.pg # NoPid THEN Append(Below, [Top EXCEPT !.hup = TRUE]) ELSE Below
    /\ UNCHANGED <<mproc, procs_in_use, fault>>

\* End of the loop: hang up the session's group, if there is one, or return.
LoopEnd ==
    /\ stack # <<>> /\ ~Top.hup /\ Bereaved(Top) = {}
    /\ stack' = IF Top.pg # NoPid
                THEN Append(Below, [Top EXCEPT !.k = 0, !.hup = TRUE])
                ELSE Below
    /\ UNCHANGED <<mproc, procs_in_use, fault>>

\* Mutant: after the hang-up the table is searched again, with procgrp still set.
LoopHangupAgain ==
    /\ stack # <<>> /\ Top.hup
    /\ IF Members(Top) = {}
       THEN /\ stack' = Append(Below, [Top EXCEPT !.k = 0, !.hup = FALSE])
            /\ UNCHANGED <<mproc, procs_in_use, fault>>
       ELSE LET f == Top
                k == Least(Members(f))
            IN  Signal(State, Append(Below, [f EXCEPT !.k = k + 1]),
                       k, SIGHUP, f.cg)

\* check_sig(-procgrp, SIGHUP): each live member in turn.
LoopHangup ==
    /\ stack # <<>> /\ Top.hup
    /\ IF Members(Top) = {}
       THEN /\ stack' = Below
            /\ UNCHANGED <<mproc, procs_in_use, fault>>
       ELSE LET f == Top
                k == Least(Members(f))
            IN  Signal(State, Append(Below, [f EXCEPT !.k = k + 1]),
                       k, SIGHUP, f.cg)

\* The signal a process dies of once VFS is done with its fork, if any.
PendingKill(S, s) == S.mproc[s].sigs \cap {SIGHUP, SIGKILL, SIGSEGV}

\* VFS answers the outstanding request of slot s.
VfsReply(s) ==
    /\ Ready
    /\ mproc[s].vfs # "none"
    /\ LET call == mproc[s].vfs
           newParent == "NEW_PARENT" \in mproc[s].flags
           S1 == [Clear(State, s, {"NEW_PARENT"}) EXCEPT !.mproc[s].vfs = "none"]
           S2 == IF call = "fork" THEN Reply(S1, s, "born") ELSE S1
           S3 == IF call = "fork" /\ ~newParent
                 THEN Reply(S2, S2.mproc[s].parent, "fork") ELSE S2
           S4 == [S3 EXCEPT !.mproc[s].sigs = {}]
           doomed == PendingKill(S3, s)
       IN  IF call \in {"exit", "core"}
           THEN Becomes(exit_restart(S1, s, call = "core")) /\ stack' = stack
           ELSE IF doomed # {} \/ Has(S4, s, "TRACE_EXIT")
           THEN /\ Becomes(exit_proc(S4, s, doomed = {SIGSEGV}))
                /\ stack' = PushExit(S4, stack, s, NoPid)
           ELSE Becomes(S4) /\ stack' = stack

-----------------------------------------------------------------------------
(* waitpid *)

\* The processes the call may report on.
Acceptable(p, arg) ==
    {c \in Slots :
        /\ "IN_USE" \in mproc[c].flags /\ "TOLD_PARENT" \notin mproc[c].flags
        /\ \/ mproc[c].parent = p
           \/ mproc[c].tracer = p /\ "ZOMBIE" \notin mproc[c].flags
        /\ RightChild(arg, mproc[c])}

DeadToTracer(p, c) == mproc[c].tracer = p /\ "TRACE_ZOMBIE" \in mproc[c].flags
StoppedForTracer(p, c) == /\ mproc[c].tracer = p
                          /\ "TRACE_STOPPED" \in mproc[c].flags
                          /\ mproc[c].sigtrace # {}
DeadToParent(p, c) == mproc[c].parent = p /\ "ZOMBIE" \in mproc[c].flags

Collectable(p, arg) ==
    {c \in Acceptable(p, arg) : \/ DeadToTracer(p, c)
                                \/ StoppedForTracer(p, c)
                                \/ DeadToParent(p, c)}

\* The first collectable slot is reported at once; otherwise the caller waits
\* (with WNOHANG, or without any acceptable child, it returns unchanged).
do_waitpid(p, arg) ==
    /\ Ready /\ Running(p)
    /\ UNCHANGED stack
    /\ LET S == [State EXCEPT !.mproc[p].user = "wait"] IN
       IF Collectable(p, arg) # {}
       THEN LET c == Least(Collectable(p, arg)) IN
            IF DeadToTracer(p, c)
            THEN Becomes(check_parent(tell_tracer(S, c), c, TRUE))
            ELSE IF StoppedForTracer(p, c)
            THEN Becomes([State EXCEPT
                            !.mproc[c].sigtrace = @ \ {Least(@)}])
            ELSE Becomes(IF VfsBusy(S, c) THEN tell_parent(S, c)
                         ELSE cleanup(tell_parent(S, c), c))
       ELSE /\ Acceptable(p, arg) # {}
            /\ p # RS_PROC_NR              \* RS always passes WNOHANG
            /\ Becomes([Set(S, p, {"WAITING"}) EXCEPT !.mproc[p].wpid = arg])

WaitArgsOf(p) ==
    {arg \in {AnyChild}
             \cup {[kind |-> "pid", id |-> mproc[c].pid] : c \in Acceptable(p, AnyChild)}
             \cup {[kind |-> "grp", id |-> mproc[c].grp] : c \in Acceptable(p, AnyChild)} :
        arg.kind \in WaitKinds /\ (arg.kind = "grp" => arg.id # NoPid)}

-----------------------------------------------------------------------------
(* Calls handled elsewhere in PM that set the fields read above.             *)

SetUid(p, uid) ==
    /\ Ready /\ Running(p) /\ p \notin SystemSlots
    /\ mproc[p].uid = 0
    /\ mproc' = [mproc EXCEPT ![p].uid = uid]
    /\ UNCHANGED <<procs_in_use, stack, fault>>

Setsid(p) ==
    /\ Sessions
    /\ Ready /\ Running(p) /\ p \notin SystemSlots
    /\ mproc' = [mproc EXCEPT ![p].grp = mproc[p].pid]
    /\ UNCHANGED <<procs_in_use, stack, fault>>

\* ptrace(T_ATTACH), with or without TO_TRACEFORK: the tracee is stopped.
Attach(t, c, tracefork) ==
    /\ Ready /\ Running(t) /\ t \notin SystemSlots
    /\ "PRIV_PROC" \notin mproc[t].flags
    /\ c # t /\ c \notin SystemSlots /\ Live(State, c)
    /\ mproc[c].tracer = NO_SLOT
    /\ Becomes(sig_proc([State EXCEPT !.mproc[c].tracer = t,
                                      !.mproc[c].tracefork = tracefork],
                        c, SIGSTOP))
    /\ UNCHANGED stack

\* ptrace(T_RESUME)
Resume(t, c) ==
    /\ Ready /\ Running(t)
    /\ mproc[c].tracer = t /\ Live(State, c)
    /\ "TRACE_STOPPED" \in mproc[c].flags /\ mproc[c].sigtrace = {}
    /\ Becomes(Clear(State, c, {"TRACE_STOPPED"}))
    /\ UNCHANGED stack

\* ptrace(T_EXIT): the tracer blocks until exit_restart wakes it.
TraceExit(t, c) ==
    /\ Ready /\ Running(t)
    /\ mproc[c].tracer = t /\ Live(State, c)
    /\ "TRACE_STOPPED" \in mproc[c].flags
    /\ LET S == [Set(State, c, {"TRACE_EXIT"}) EXCEPT !.mproc[t].user = "ptrace"]
       IN  IF VfsBusy(S, c) THEN Becomes(S) /\ stack' = stack
           ELSE /\ Becomes(exit_proc(S, c, FALSE))
                /\ stack' = PushExit(S, stack, c, mproc[t].grp)

-----------------------------------------------------------------------------

Loop == LoopTracerDied \/ LoopDisinherit \/ LoopEnd \/ LoopHangup

Next ==
    \/ Loop
    \/ \E p \in Slots :
         \/ do_fork(p)
         \/ do_exit(p)
         \/ KernelKill(p)
         \/ VfsReply(p)
         \/ \E arg \in WaitArgsOf(p) : do_waitpid(p, arg)
         \/ \E uid \in Uids : SetUid(p, uid)
         \/ Setsid(p)
    \/ \E uid \in Uids : do_srv_fork(uid)
    \/ \E p, c \in Slots :
         \/ \E sig \in KillSignals : Kill(p, c, sig)
         \/ \E tracefork \in TraceForks : Attach(p, c, tracefork)
         \/ Resume(p, c)
         \/ TraceExit(p, c)

Spec == Init /\ [][Next]_vars

\* VFS answers every request, and PM, which receives from all senders in FIFO
\* order, comes to the answer unless it never returns to its main loop.  (A
\* slot's request is only ever replaced or removed by an answer, and after two
\* answers at most there is none.)
VfsFairness == \/ <>[]~Ready
               \/ \A s \in Slots : []<>(mproc[s].vfs = "none")

\* exit_proc's loops run on.
FairSpec == Spec /\ WF_vars(Loop) /\ VfsFairness

-----------------------------------------------------------------------------
(* Properties *)

\* Type correctness of PM's process table and of the exit_proc frames.
TypeOK ==
    /\ mproc \in [Slots -> Proc]
    /\ procs_in_use \in Int
    /\ stack \in Seq(Frame)
    /\ fault \in Faults

InUse == {s \in Slots : "IN_USE" \in mproc[s].flags}

\* procs_in_use, which do_fork trusts before it searches for a slot, always
\* counts the slots in use: no path through exit, wait and tracer death
\* releases a slot twice or forgets to count it.
CountIsExact == procs_in_use = Cardinality(InUse)

\* No panic() or assert() of forkexit.c is reachable, no reply goes to a
\* process that is not blocked in the call it answers, and no signal is sent
\* to a process that has exited.
NoFault == fault = "none"

\* Between messages every process has a live parent, and a live tracer if it
\* is traced: exit_proc's loop left nobody behind.
FamilyAlive ==
    Idle => \A s \in InUse :
              /\ mproc[s].parent \in InUse
              /\ ~Has(State, mproc[s].parent, "EXITING")
              /\ mproc[s].tracer # NO_SLOT =>
                   Live(State, mproc[s].tracer)

\* No lost wakeup: between messages nobody is WAITING while a child or a
\* traced process that qualifies is already dead and uncollected, and nobody
\* waits for nothing: there is one that may end the wait.
NoLostExit ==
    Idle => \A p \in InUse : "WAITING" \in mproc[p].flags =>
              /\ Acceptable(p, mproc[p].wpid) # {}
              /\ \A c \in Acceptable(p, mproc[p].wpid) :
                   ~DeadToParent(p, c) /\ ~DeadToTracer(p, c)

\* No slot leaks: a process whose parent collected it keeps its slot only
\* until VFS has answered.
ToldIsTransient ==
    Idle => \A s \in InUse :
              "TOLD_PARENT" \in mproc[s].flags => mproc[s].vfs # "none"

\* exit_proc always returns, however deeply tracer_died and the hang-up make
\* it call itself.
ExitReturns == (stack # <<>>) ~> (stack = <<>>)

\* Nobody is blocked for ever in fork or in ptrace(T_EXIT): VFS's answer for
\* the child or the tracee ends the call, or the caller is killed meanwhile.
CallsReturn ==
    \A s \in Slots : (mproc[s].user \in {"fork", "ptrace", "born"})
                       ~> (mproc[s].user \notin {"fork", "ptrace", "born"})
=============================================================================
