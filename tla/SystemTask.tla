------------------------------ MODULE SystemTask ------------------------------
(***************************************************************************)
(* The kernel's system task, "Assignment 05/system.c": signals and their   *)
(* managers, what the death of a process does to those that talk to it,    *)
(* privilege structures with their send masks, and kernel calls that VM    *)
(* has to help with.                                                       *)
(*                                                                         *)
(* The kernel runs to completion, so a kernel call or trap is one action.  *)
(* Its subroutines are operators on S, the record of the two tables and    *)
(* the panic flag.  Message passing (proc.c) and the handlers of single    *)
(* calls are outside the repository; they are modelled from how system.c   *)
(* depends on them.  PM is the signal manager of user processes and the    *)
(* backup manager of services, which are their own managers first.         *)
(*                                                                         *)
(* Abstracted: endpoints (a slot is one, as no reference outlives its      *)
(* process), message contents, interrupt hooks and timers, accounting.     *)
(***************************************************************************)
EXTENDS Naturals, Sequences, FiniteSets

CONSTANTS
    PM,             \* the process manager
    Others,         \* the other process slots
    StaticIds,      \* privilege structures that are asked for by number
    DynIds,         \* those that are given out dynamically
    Maps,           \* the send masks that services are started with
    Signals,        \* signals that do not kill, SIGSNDELAY and SIGKMESS among them
    Lethal,         \* signals that do
    Workloads       \* bound: which of the kernel's features a behaviour uses

NONE == "none"
ANY == "any"
SELF == "self"
SYSTEM == "system"          \* the privilege id of the kernel itself
USER_PRIV == "user"         \* the structure that all user processes share
PM_PRIV == "pm"
SIGSNDELAY == "SIGSNDELAY"
SIGKMESS == "SIGKMESS"
INIT == "init"              \* the owner of USER_PRIV

Features == {"vm", "async", "notify", "diag", "delay", "masks", "static"}

Procs == {PM} \cup Others
ServiceIds == StaticIds \cup DynIds
Ids == ServiceIds \cup {USER_PRIV, PM_PRIV}
Sigs == Signals \cup Lethal

ASSUME ProcsAssumption == PM \notin Others /\ {NONE, ANY, SELF, SYSTEM, INIT} \cap Procs = {}
ASSUME IdsAssumption ==
    /\ StaticIds \cap DynIds = {}
    /\ ServiceIds \cap {SYSTEM, USER_PRIV, PM_PRIV, NONE} = {}
    /\ Maps \subseteq SUBSET Ids
ASSUME SignalsAssumption ==
    /\ Signals \cap Lethal = {} /\ {SIGSNDELAY, SIGKMESS} \subseteq Signals
    /\ Workloads \subseteq SUBSET Features

VARIABLES
    proc,       \* struct proc of each slot
    priv,       \* struct priv of each privilege id
    panic,      \* the kernel has panicked
    workload,   \* the features that are used in this behaviour
    pm          \* what PM's signal loop does: NONE, ANY (between two signals), or
                \* the process whose signals it handles

vars == <<proc, priv, panic, pm, workload>>

State == [proc |-> proc, priv |-> priv, panic |-> panic, pm |-> pm]
Becomes(S) ==
    /\ proc' = S.proc /\ priv' = S.priv /\ panic' = S.panic /\ pm' = S.pm
    /\ UNCHANGED workload

RtsFlags == {"SENDING", "RECEIVING", "SIGNALED", "SIG_PENDING", "VMREQUEST", "NO_PRIV"}
Proc == [used : BOOLEAN,
         rts : SUBSET RtsFlags,
         sendto : Procs \cup {NONE},            \* p_sendto_e
         getfrom : Procs \cup {NONE, ANY},      \* p_getfrom_e
         caller_q : Seq(Procs),                 \* p_caller_q
         pending : SUBSET Sigs,                 \* p_pending
         resume : BOOLEAN,                      \* MF_KCALL_RESUME
         reqsrc : Procs \cup {NONE},            \* source of the saved request
         delay : BOOLEAN,                       \* MF_SIG_DELAY
         notify : SUBSET ({SYSTEM} \cup Ids),    \* s_notify_pending
         asyn : SUBSET Procs,                   \* s_asyn_pending
         priv : Ids]
Priv == [proc_nr : Procs \cup {NONE, INIT},
         ipc_to : SUBSET Ids,
         receiveOnly : BOOLEAN,                 \* s_trap_mask
         sig_mgr : {PM, SELF},
         bak_sig_mgr : {PM, NONE},
         sig_pending : SUBSET (Sigs \cup {"SIGKSIG", "SIGKSIGSM"})]

FreeSlot == [used |-> FALSE, rts |-> {}, sendto |-> NONE, getfrom |-> NONE, caller_q |-> <<>>,
             pending |-> {}, resume |-> FALSE, reqsrc |-> NONE, delay |-> FALSE,
             notify |-> {}, asyn |-> {}, priv |-> USER_PRIV]
FreePriv == [proc_nr |-> NONE, ipc_to |-> {}, receiveOnly |-> FALSE, sig_mgr |-> SELF,
             bak_sig_mgr |-> PM, sig_pending |-> {}]

\* PM runs; user processes can talk to PM.
Init ==
    /\ proc = [p \in Procs |-> IF p = PM THEN [FreeSlot EXCEPT !.used = TRUE, !.priv = PM_PRIV]
                               ELSE FreeSlot]
    /\ priv = [i \in Ids |->
                 CASE i = PM_PRIV -> [FreePriv EXCEPT !.proc_nr = PM, !.ipc_to = {USER_PRIV},
                                                      !.bak_sig_mgr = NONE]
                   [] i = USER_PRIV -> [FreePriv EXCEPT !.ipc_to = {PM_PRIV}, !.sig_mgr = PM,
                                                        !.bak_sig_mgr = NONE, !.proc_nr = INIT]
                   [] OTHER -> FreePriv]
    /\ panic = FALSE
    /\ pm = NONE
    /\ workload \in Workloads

-----------------------------------------------------------------------------
(* Notifications and signals *)

PrivOf(S, p) == S.priv[S.proc[p].priv]
Set(S, p, flags) == [S EXCEPT !.proc[p].rts = @ \cup flags]
Unset(S, p, flags) ==
    LET left == S.proc[p].rts \ flags
    IN  [S EXCEPT !.proc[p].rts = left,
                  !.proc[p].sendto = IF "SENDING" \in left THEN @ ELSE NONE,
                  !.proc[p].getfrom = IF "RECEIVING" \in left THEN @ ELSE NONE]

\* q waits for a message from p (or from the kernel: SYSTEM).
Awaits(S, q, p) ==
    /\ "RECEIVING" \in S.proc[q].rts /\ "SENDING" \notin S.proc[q].rts
    /\ S.proc[q].getfrom \in {ANY, p}

\* A delivered notification of the kernel carries the pending signals; SIGKSIG
\* makes PM fetch those of the processes it manages.
TakeSigs(S, q, id) ==
    IF id # SYSTEM THEN S
    ELSE [S EXCEPT !.priv[S.proc[q].priv].sig_pending = {},
                   !.pm = IF q = PM /\ "SIGKSIG" \in PrivOf(S, q).sig_pending THEN ANY ELSE @]

\* Mutant: a receiver that waits already is not woken.
MiniNotifyAside(S, from, id, q) == [S EXCEPT !.proc[q].notify = @ \cup {id}]

\* mini_notify(): delivered at once, or remembered as one bit.
mini_notify(S, from, id, q) ==
    IF Awaits(S, q, from) THEN Unset(TakeSigs(S, q, id), q, {"RECEIVING"})
    ELSE [S EXCEPT !.proc[q].notify = @ \cup {id}]

\* send_sig(): tell a system process of a signal.  Its callers here panic when
\* the process is gone.
send_sig(S, q, sig) ==
    IF ~S.proc[q].used THEN [S EXCEPT !.panic = TRUE]
    ELSE mini_notify([S EXCEPT !.priv[S.proc[q].priv].sig_pending = @ \cup {sig}],
                     SYSTEM, SYSTEM, q)

\* Mutant: the flags are set only by the first of several signals, also when the
\* manager has already fetched that one.
CauseManagedOnce(S, p, sig) ==
    IF sig \in S.proc[p].pending THEN S
    ELSE LET S1 == [S EXCEPT !.proc[p].pending = @ \cup {sig}]
         IN  IF "SIG_PENDING" \in S1.proc[p].rts THEN S1
             ELSE send_sig(Set(S1, p, {"SIGNALED", "SIG_PENDING"}), PM, "SIGKSIG")

\* cause_sig() for a process with a manager of its own: block it, and tell the
\* manager unless it has been told of other signals that it has not fetched.
CauseManaged(S, p, sig) ==
    IF sig \in S.proc[p].pending THEN S
    ELSE LET S1 == [S EXCEPT !.proc[p].pending = @ \cup {sig}]
         IN  IF "SIGNALED" \in S1.proc[p].rts THEN S1
             ELSE send_sig(Set(S1, p, {"SIGNALED", "SIG_PENDING"}), PM, "SIGKSIG")

\* A lethal signal for a process that is its own manager: its backup manager
\* takes over, and without one the kernel panics.
CauseLethal(S, p, sig) ==
    IF PrivOf(S, p).bak_sig_mgr = NONE THEN [S EXCEPT !.panic = TRUE]
    ELSE CauseManaged(Unset([S EXCEPT !.priv[S.proc[p].priv].sig_mgr = PM,
                                      !.priv[S.proc[p].priv].bak_sig_mgr = NONE],
                            PM, {"NO_PRIV"}),
                      p, sig)

cause_sig(S, p, sig) ==
    IF PrivOf(S, p).sig_mgr # SELF THEN CauseManaged(S, p, sig)
    ELSE IF sig \in Lethal THEN CauseLethal(S, p, sig)
    ELSE send_sig([S EXCEPT !.priv[S.proc[p].priv].sig_pending = @ \cup {sig}], p, "SIGKSIGSM")

\* sig_delay_done(): a process that PM wanted to stop has finished sending.
sig_delay_done(S, p) == cause_sig([S EXCEPT !.proc[p].delay = FALSE], p, SIGSNDELAY)

-----------------------------------------------------------------------------
(* Clearing a process *)

\* The entries of a queue at the positions K, in order.
Entries(queue, K) ==
    [j \in 1 .. Cardinality(K) |-> queue[CHOOSE i \in K : Cardinality({k \in K : k <= i}) = j]]

\* The processes of X leave a queue: the search for one of them ends at its first
\* entry, as it "can only be queued once".
Dequeue(queue, X) ==
    Entries(queue, {k \in DOMAIN queue : \/ queue[k] \notin X
                                        \/ \E l \in DOMAIN queue : l < k /\ queue[l] = queue[k]})

\* clear_ipc(): leave the queue of the destination, and wait for nobody.
clear_ipc(S, p) ==
    LET S1 == IF "SENDING" \in S.proc[p].rts
              THEN [S EXCEPT !.proc[S.proc[p].sendto].caller_q = Dequeue(@, {p})]
              ELSE S
    IN  Unset(S1, p, {"SENDING", "RECEIVING"})

\* P_BLOCKEDON: whom p waits for.
BlockedOn(S, p) ==
    CASE "SENDING" \in S.proc[p].rts -> S.proc[p].sendto
      [] "RECEIVING" \in S.proc[p].rts -> S.proc[p].getfrom
      [] OTHER -> NONE

\* Mutant: only senders are released, not those that wait for a message of p.
ClearRefsSenders(S, p) ==
    LET waiting == {q \in Procs : S.proc[q].used /\ "SENDING" \in S.proc[q].rts
                                  /\ S.proc[q].sendto = p}
    IN  [S EXCEPT !.proc = [q \in Procs |->
           [S.proc[q] EXCEPT
              !.rts = IF q \in waiting THEN @ \ {"SENDING", "RECEIVING"} ELSE @,
              !.sendto = IF q \in waiting THEN NONE ELSE @,
              !.getfrom = IF q \in waiting THEN NONE ELSE @,
              !.caller_q = IF q = p THEN Dequeue(@, waiting) ELSE @,
              !.notify = @ \ {S.proc[p].priv},
              !.asyn = IF q = p THEN {} ELSE @ \ {p}]]]

\* clear_ipc_refs(): nobody waits for p any more, and nothing of p is pending.
\* (Free slots have nothing to clear.)
clear_ipc_refs(S, p) ==
    LET waiting == {q \in Procs : S.proc[q].used /\ BlockedOn(S, q) = p}
    IN  [S EXCEPT !.proc = [q \in Procs |->
           [S.proc[q] EXCEPT
              !.rts = IF q \in waiting THEN @ \ {"SENDING", "RECEIVING"} ELSE @,
              !.sendto = IF q \in waiting THEN NONE ELSE @,
              !.getfrom = IF q \in waiting THEN NONE ELSE @,
              !.caller_q = IF q = p THEN Dequeue(@, waiting) ELSE @,
              !.notify = @ \ {S.proc[p].priv},
              !.asyn = IF q = p THEN {} ELSE @ \ {p}]]]

clear_endpoint(S, p) ==
    IF ~S.proc[p].used THEN [S EXCEPT !.panic = TRUE]
    ELSE clear_ipc_refs(clear_ipc(S, p), p)

-----------------------------------------------------------------------------
(* Privileges *)

\* get_priv(): the structure that p gets, NONE if there is none: any free dynamic
\* one (the first), or the static one that was asked for.
get_priv(S, want) ==
    LET free == {i \in ServiceIds : S.priv[i].proc_nr = NONE}
    IN  IF want # NONE THEN IF want \in StaticIds \cap free THEN want ELSE NONE
        ELSE IF DynIds \cap free # {} THEN CHOOSE i \in DynIds \cap free : TRUE ELSE NONE

\* Mutant: the bit of the other direction is left as it is.
FillOneWay(S, own, map) ==
    [S EXCEPT !.priv[own].ipc_to = {i \in map \ {own} : S.priv[i].proc_nr # NONE}]

\* fill_sendto_mask(), with set_sendto_bit() and unset_sendto_bit() for each id: a
\* bit that is set lets the other one reply, unless it can only receive; a bit
\* that is unset is so in both directions.  Nobody sends to itself or to a
\* structure without a process.
fill_sendto_mask(S, own, map) ==
    LET set == {i \in map \ {own} : S.priv[i].proc_nr # NONE}
        back(i) == IF i \in set /\ ~S.priv[i].receiveOnly THEN {own} ELSE {}
        unset(i) == IF i \in map THEN {} ELSE {own}
    IN  [S EXCEPT !.priv = [i \in Ids |->
           IF i = own THEN [S.priv[i] EXCEPT !.ipc_to = set]
           ELSE [S.priv[i] EXCEPT !.ipc_to = (@ \ unset(i)) \cup back(i)]]]

\* SYS_PRIVCTL: a service gets a structure of its own and may run.
PrivCtl(p, want, map, receiveOnly) ==
    LET id == get_priv(State, want)
        fresh == [FreePriv EXCEPT !.proc_nr = p, !.receiveOnly = receiveOnly]
        S == [State EXCEPT !.proc[p].priv = id, !.priv[id] = fresh]
    IN  /\ ~panic /\ "NO_PRIV" \in proc[p].rts /\ id # NONE
        /\ "masks" \in workload \/ (map = Ids /\ ~receiveOnly)
        /\ "static" \in workload \/ want = NONE
        /\ Becomes(Unset(fill_sendto_mask(S, id, map), p, {"NO_PRIV"}))

-----------------------------------------------------------------------------
(* Message passing *)

Runnable(p) == ~panic /\ proc[p].used /\ proc[p].rts = {} /\ ~proc[p].resume

MaySend(p, q) == p # q /\ proc[q].used /\ proc[q].priv \in priv[proc[p].priv].ipc_to

\* The owner of a pending notification can be told from those of the others.
From(S, id, from) == from = ANY \/ (from \in Procs /\ id = S.proc[from].priv /\ id # USER_PRIV)

\* mini_receive(): a notification, an asynchronous message, the first process in
\* the queue that fits, or wait.
Receive(S, p, from) ==
    LET me == S.proc[p]
        notes == {id \in me.notify : From(S, id, from)}
        note == IF SYSTEM \in notes THEN SYSTEM ELSE CHOOSE id \in notes : TRUE
        asyns == {q \in me.asyn : from \in {ANY, q}}
        fit == {k \in DOMAIN me.caller_q : from \in {ANY, me.caller_q[k]}}
        first == me.caller_q[CHOOSE k \in fit : \A l \in fit : k <= l]
        taken == Unset([S EXCEPT !.proc[p].caller_q = Dequeue(@, {first})], first, {"SENDING"})
    IN  IF notes # {} THEN TakeSigs([S EXCEPT !.proc[p].notify = @ \ {note}], p, note)
        ELSE IF asyns # {} THEN [S EXCEPT !.proc[p].asyn = @ \ {CHOOSE q \in asyns : TRUE}]
        ELSE IF fit # {} THEN IF S.proc[first].delay THEN sig_delay_done(taken, first) ELSE taken
        ELSE [Set(S, p, {"RECEIVING"}) EXCEPT !.proc[p].getfrom = from]

\* SEND and SENDREC: deliver, or wait in the queue of q; then wait for the answer.
Send(p, q, rec) ==
    LET queued == [Set(State, p, {"SENDING"} \cup IF rec THEN {"RECEIVING"} ELSE {}) EXCEPT
                     !.proc[p].sendto = q, !.proc[q].caller_q = Append(@, p),
                     !.proc[p].getfrom = IF rec THEN q ELSE @]
        delivered == Unset(State, q, {"RECEIVING"})
    IN  /\ Runnable(p) /\ MaySend(p, q) /\ ~priv[proc[p].priv].receiveOnly
        /\ Becomes(IF ~Awaits(State, q, p) THEN queued
                   ELSE IF rec THEN Receive(delivered, p, q) ELSE delivered)

RECEIVE(p, from) ==
    /\ Runnable(p) /\ from \in {ANY} \cup {q \in Procs \ {p} : proc[q].used}
    /\ Becomes(Receive(State, p, from))

\* NOTIFY and asynchronous messages: services only; the sender never waits.
IsService(p) == proc[p].priv \in ServiceIds

Notify(p, q) ==
    /\ "notify" \in workload /\ Runnable(p) /\ IsService(p) /\ MaySend(p, q)
    /\ Becomes(mini_notify(State, p, proc[p].priv, q))

Asend(p, q) ==
    /\ "async" \in workload /\ Runnable(p) /\ IsService(p) /\ MaySend(p, q)
    /\ Becomes(IF Awaits(State, q, p) THEN Unset(State, q, {"RECEIVING"})
               ELSE [State EXCEPT !.proc[q].asyn = @ \cup {p}])

-----------------------------------------------------------------------------
(* Kernel calls *)

\* kernel_call() with a message buffer that cannot be read or written, or a CPU
\* exception of a process.
KernelCallFaults(p, sig) ==
    /\ p # PM /\ Runnable(p)
    /\ Becomes(cause_sig(State, p, sig))

\* Mutant: the request message is removed whatever the result of the call is.
SuspendedForgets(S, p) ==
    [Set(S, p, {"VMREQUEST"}) EXCEPT !.proc[p].resume = TRUE, !.proc[p].reqsrc = NONE]

\* kernel_call_dispatch() that returns VMSUSPEND: kernel_call_finish() keeps the
\* request until VM has answered.
Suspended(S, p) == [Set(S, p, {"VMREQUEST"}) EXCEPT !.proc[p].resume = TRUE, !.proc[p].reqsrc = p]

KernelCallSuspends(p) == "vm" \in workload /\ Runnable(p) /\ Becomes(Suspended(State, p))

VmReply(p) ==
    /\ ~panic /\ proc[p].used /\ "VMREQUEST" \in proc[p].rts
    /\ Becomes(Unset(State, p, {"VMREQUEST"}))

\* kernel_call_finish() for a call that is over.
Finished(S, p) == [S EXCEPT !.proc[p].resume = FALSE, !.proc[p].reqsrc = NONE]

\* kernel_call_resume(), when the process is scheduled again: the call ends, ends
\* with a bad message buffer, or needs VM once more.
KernelCallResume(p) ==
    /\ ~panic /\ proc[p].used /\ proc[p].rts = {} /\ proc[p].resume
    /\ IF proc[p].reqsrc # p THEN Becomes([State EXCEPT !.panic = TRUE])
       ELSE \/ Becomes(Finished(State, p))
            \/ \E sig \in Lethal : Becomes(cause_sig(Finished(State, p), p, sig))
            \/ Becomes(Suspended(State, p))

\* SYS_KILL by a service.
SysKill(p, q, sig) ==
    /\ Runnable(p) /\ IsService(p) /\ q \notin {p, PM} /\ proc[q].used
    /\ "NO_PRIV" \notin proc[q].rts
    /\ Becomes(cause_sig(State, q, sig))

\* send_diag_sig(): every service asked to be told of new diagnostics.  The loop is
\* over the privilege structures; each one belongs to a process of its own.
send_diag_sig ==
    LET asked == {i \in ServiceIds : priv[i].proc_nr # NONE}
        told == {priv[i].proc_nr : i \in asked}
        after(q) == send_sig(State, q, SIGKMESS)
    IN  /\ "diag" \in workload /\ ~panic /\ asked # {}
        /\ proc' = [q \in Procs |-> IF q \in told THEN after(q).proc[q] ELSE proc[q]]
        /\ priv' = [i \in Ids |-> IF i \in asked THEN after(priv[i].proc_nr).priv[i] ELSE priv[i]]
        /\ UNCHANGED <<panic, pm, workload>>

-----------------------------------------------------------------------------
(* PM *)

PmIdle == Runnable(PM) /\ pm = NONE

\* SYS_FORK; a service cannot run before it has its privileges.
SysFork(p, service) ==
    /\ PmIdle /\ ~proc[p].used
    /\ Becomes([State EXCEPT !.proc[p] = [FreeSlot EXCEPT !.used = TRUE,
                                            !.rts = IF service THEN {"NO_PRIV"} ELSE {}]])

\* SYS_CLEAR releases the slot after clear_endpoint(), and a service's structure.
Cleared(S, p) ==
    LET S1 == clear_endpoint(S, p)
        id == S.proc[p].priv
        S2 == IF id \in ServiceIds THEN [S1 EXCEPT !.priv[id] = FreePriv] ELSE S1
    IN  [S2 EXCEPT !.proc[p] = [FreeSlot EXCEPT !.caller_q = S2.proc[p].caller_q]]

SysClear(p) == PmIdle /\ proc[p].used /\ Becomes(Cleared(State, p))

\* PM answers a process that waits for it.
Reply(p) == PmIdle /\ Awaits(State, p, PM) /\ Becomes(Unset(State, p, {"RECEIVING"}))

\* SYS_RUNCTL with a delay: a process that is sending is reported when it is done.
StopDelayed(p) ==
    /\ "delay" \in workload /\ PmIdle /\ proc[p].used /\ "SENDING" \in proc[p].rts /\ ~proc[p].delay
    /\ Becomes([State EXCEPT !.proc[p].delay = TRUE])

PmReceives == PmIdle /\ Becomes(Receive(State, PM, ANY))

\* SYS_GETKSIG fetches the signals of one process, until there is none left.
GetKsig ==
    /\ Runnable(PM) /\ pm = ANY
    /\ LET signaled == {p \in Others : proc[p].used /\ "SIGNALED" \in proc[p].rts}
       IN  \/ /\ signaled = {}
              /\ pm' = NONE /\ UNCHANGED <<proc, priv, panic, workload>>
           \/ \E p \in signaled :
                Becomes([Unset(State, p, {"SIGNALED"}) EXCEPT !.proc[p].pending = {}, !.pm = p])

\* SYS_ENDKSIG lets the process go on, unless a new signal has arrived; or the
\* signal has killed it.
EndKsig(p) ==
    /\ Runnable(PM) /\ pm = p
    /\ LET S == [State EXCEPT !.pm = ANY]
       IN  \/ Becomes(IF "SIGNALED" \in proc[p].rts THEN S ELSE Unset(S, p, {"SIG_PENDING"}))
           \/ Becomes(Cleared(S, p))

Next ==
    \/ PmReceives \/ GetKsig \/ send_diag_sig
    \/ \E p \in Others :
         \/ \E service \in BOOLEAN : SysFork(p, service)
         \/ \E want \in StaticIds \cup {NONE}, map \in Maps \cup {Ids}, ro \in BOOLEAN : PrivCtl(p, want, map, ro)
         \/ SysClear(p) \/ Reply(p) \/ StopDelayed(p) \/ EndKsig(p)
         \/ \E sig \in Lethal : KernelCallFaults(p, sig)
         \/ KernelCallSuspends(p) \/ VmReply(p) \/ KernelCallResume(p)
         \/ \E q \in Procs, rec \in BOOLEAN : Send(p, q, rec)
         \/ \E q \in Procs : Notify(p, q) \/ Asend(p, q)
         \/ \E q \in Procs \cup {ANY} : RECEIVE(p, q)
         \/ \E q \in Others, sig \in Sigs \ {SIGSNDELAY, SIGKMESS} : SysKill(p, q, sig)

Spec == Init /\ [][Next]_vars

\* PM goes on: it receives, and handles the signals it is told of.
FairSpec == Spec /\ WF_vars(PmReceives) /\ WF_vars(GetKsig \/ \E p \in Others : EndKsig(p))

-----------------------------------------------------------------------------
(* Properties *)

Used == {p \in Procs : proc[p].used}

\* clear_ipc and clear_ipc_refs: a process is in the queue of the one it sends
\* to, once, and in no other; nobody waits for a process that is gone, and
\* nothing that a dead process sent is still to be delivered.
NobodyWaitsForTheDead ==
    /\ \A p, q \in Procs :
         LET at == {k \in DOMAIN proc[q].caller_q : proc[q].caller_q[k] = p}
         IN  IF proc[p].used /\ "SENDING" \in proc[p].rts /\ proc[p].sendto = q
             THEN \E k \in at : at = {k} ELSE at = {}
    /\ \A p \in Used : BlockedOn(State, p) \in Used \cup {ANY, NONE}
    /\ \A p \in Used :
         /\ proc[p].asyn \subseteq Used
         /\ \A id \in proc[p].notify \ {SYSTEM} : priv[id].proc_nr # NONE

\* cause_sig: "The process being signaled is blocked while the signal manager has
\* not finished all signals for it", and the manager has been told: it is in its
\* loop, or its notification is on the way.  A service that has signals of its
\* own to take has a notification to receive.
SignalsTracked ==
    \A p \in Others : proc[p].used =>
      /\ (proc[p].pending # {}) <=> ("SIGNALED" \in proc[p].rts)
      /\ "SIGNALED" \in proc[p].rts =>
           /\ "SIG_PENDING" \in proc[p].rts
           /\ \/ pm # NONE
              \/ SYSTEM \in proc[PM].notify /\ "SIGKSIG" \in priv[PM_PRIV].sig_pending
      /\ "SIG_PENDING" \in proc[p].rts => "SIGNALED" \in proc[p].rts \/ pm = p
      /\ IsService(p) /\ priv[proc[p].priv].sig_pending # {} => SYSTEM \in proc[p].notify

\* set_sendto_bit: "The process that this process can now send to, must be able
\* to reply", and unset_sendto_bit retains "the send mask symmetry": for
\* structures in use, also when they have been released and given out again.
\* Every service has a structure of its own.
MasksAgree ==
    LET inUse == {i \in Ids : priv[i].proc_nr # NONE}
    IN  /\ \A i, j \in inUse : j \in priv[i].ipc_to /\ ~priv[j].receiveOnly => i \in priv[j].ipc_to
        /\ \A i \in inUse : i \notin priv[i].ipc_to
        /\ \A i \in ServiceIds \cap inUse :
             \A p \in Used : proc[p].priv = i <=> priv[i].proc_nr = p

\* The kernel's own panics and assertions never fire: clear_proc of an empty slot,
\* a signal manager that is gone, a resumed call whose saved request is not the
\* caller's.
NoPanic == ~panic

\* cause_sig "makes sure the signal manager gets them": while signals are pending
\* PM comes to fetch those of some process, or they are gone.  (Not of every one: a process that
\* never stops faulting can keep PM busy.)
SignalsFetched ==
    LET signaled == \E p \in Others : "SIGNALED" \in proc[p].rts
    IN  signaled ~> (pm \in Others \/ ~signaled)
===============================================================================
