----------------------------- MODULE MCSessions -----------------------------
(* For TLC: a session leader with two other members of its group, and        *)
(* fairness of exit_proc's loops without ENABLED, which is slow to evaluate. *)
EXTENDS MCForkExit

\* The bound: while the last slot is in use nobody has traced or waited, and
\* nothing was collected, so that the pids are still those of the first forks.
Users == Slots \ SystemSlots

Bounded ==
    \/ mproc'[NR_PROCS - 1] = FreeSlot
    \/ /\ procs_in_use' >= procs_in_use
       /\ {mproc'[s].pid : s \in Users} \subseteq {NoPid} \cup 4 .. procs_in_use'
       /\ \A s \in Slots :
            /\ mproc'[s].tracer = NO_SLOT /\ ~mproc'[s].tracefork
            /\ mproc'[s].sigtrace = {}
            /\ {"WAITING", "TOLD_PARENT", "TRACE_STOPPED"} \cap mproc'[s].flags = {}

\* WF of Loop: it is the only action while there is a frame, its cases are
\* complete, and every iteration changes the state.
LoopFairness == []<>Idle \/ []<><<~Idle>>_vars

SessionSpec == Spec /\ LoopFairness /\ VfsFairness

\* exit_proc has a process group to hang up, and has not done so.
HangingUp(pid) == \E i \in DOMAIN stack : stack[i].pg = pid

HungUp(pid) ==
    \A s \in Slots :
        Live(State, s) /\ mproc[s].tracer = NO_SLOT /\ mproc[s].grp = pid
          => SIGHUP \in mproc[s].sigs

\* do_exit by the leader of a session.
LeaderExits(l) ==
    /\ mproc[l].pid = mproc[l].grp /\ "PRIV_PROC" \notin mproc[l].flags
    /\ do_exit(l)

\* "Send a hangup to the process' process group if it was a session leader":
\* a leader that calls exit has its group hung up, and once that is done no
\* live, untraced process is left in the group, whatever the exits the hang-up
\* causes did to the table meanwhile, except one whose SIGHUP is pending until
\* VFS answers.  (A leader killed by a process of another group, or by the
\* kernel, hangs up nobody.)
OrphanGroupHungUp ==
    /\ [][\A l \in Slots : LeaderExits(l) => HangingUp(mproc[l].pid)']_vars
    /\ [][\A pid \in 1 .. MaxPid :
            HangingUp(pid) /\ ~HangingUp(pid)' => HungUp(pid)']_vars
=============================================================================
