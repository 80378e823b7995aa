--------------------------- MODULE ForkExit_proofs ---------------------------
(***************************************************************************)
(* Proofs about the process life cycle for every size of the process table *)
(* and every choice of the other constants, in three parts:                *)
(*                                                                         *)
(*   - the table: type correctness, and that procs_in_use counts exactly   *)
(*     the slots in use;                                                   *)
(*   - the families of processes that fork, exit, wait and ptrace build:   *)
(*     PM does not panic and answers nobody who does not wait for it,      *)
(*     nobody has a dead parent or tracer, and a slot that was collected   *)
(*     is released;                                                        *)
(*   - the waits: between messages nobody waits in waitpid while a child   *)
(*     or a traced process that qualifies is dead and uncollected, and     *)
(*     nobody waits for nothing.                                           *)
(*                                                                         *)
(* Every handler is a composition of functions of the triple State, so the *)
(* argument of each part is one lemma per function: from a triple that     *)
(* satisfies the inductive invariant it makes one that satisfies it again. *)
(***************************************************************************)
EXTENDS ForkExit, FiniteSetTheorems, WellFoundedInduction, TLAPS

-----------------------------------------------------------------------------
(* The table: types and the count.  Only cleanup changes which slots are   *)
(* in use.                                                                 *)

StateT == [mproc : [Slots -> Proc], used : Int, fault : Faults]

Used(S) == {s \in Slots : "IN_USE" \in S.mproc[s].flags}

\* The inductive invariant, of a triple.  VFS works only for slots in use, so
\* the slot exit_restart may release is one that was counted.
Ok(S) == /\ S \in StateT
         /\ S.used = Cardinality(Used(S))
         /\ \A s \in Slots : S.mproc[s].vfs # "none" => s \in Used(S)

Keeps(S, T) == Ok(T) /\ Used(T) = Used(S)

\* Overwriting one slot without changing whether it is in use.
Upd(S, s, r) == [S EXCEPT !.mproc[s] = r]

\* Rewriting a slot that stays in use, or stays free, keeps table and count.
LEMMA UpdKeeps ==
    ASSUME NEW S, Ok(S), NEW s \in Slots, NEW r \in Proc,
           "IN_USE" \in r.flags <=> s \in Used(S),
           r.vfs # "none" => s \in Used(S)
    PROVE  Keeps(S, Upd(S, s, r))
<1> DEFINE T == Upd(S, s, r)
<1>1. T \in StateT /\ T.used = S.used /\ T.mproc = [S.mproc EXCEPT ![s] = r]
  BY DEF Ok, StateT, Upd
<1>2. Used(T) = Used(S)
  BY <1>1 DEF Ok, StateT, Used
<1>3. \A t \in Slots : T.mproc[t].vfs # "none" => t \in Used(S)
  BY <1>1 DEF Ok, StateT
<1>4. T.used = Cardinality(Used(T))
  BY <1>1, <1>2 DEF Ok
<1>5. \A t \in Slots : T.mproc[t].vfs # "none" => t \in Used(T)
  BY <1>2, <1>3
<1> QED
  BY <1>1, <1>2, <1>4, <1>5 DEF Keeps, Ok

\* Recording a panic changes neither table nor count.
LEMMA FailKeeps ==
    ASSUME NEW S, Ok(S), NEW what \in Faults
    PROVE  Keeps(S, Fail(S, what))
<1>1. Fail(S, what) \in StateT /\ Fail(S, what).mproc = S.mproc
      /\ Fail(S, what).used = S.used
  BY DEF Ok, StateT, Fail
<1> QED
  BY <1>1 DEF Keeps, Ok, Used

\* Setting flags other than IN_USE of a slot keeps table and count.
LEMMA SetKeeps ==
    ASSUME NEW S, Ok(S), NEW s \in Slots, NEW fs \in SUBSET Flags,
           "IN_USE" \notin fs
    PROVE  Keeps(S, Set(S, s, fs))
<1> DEFINE r == [S.mproc[s] EXCEPT !.flags = @ \cup fs]
<1>1. S.mproc[s] \in Proc
  BY DEF Ok, StateT
<1>2. r \in Proc /\ r.vfs = S.mproc[s].vfs /\ r.flags = S.mproc[s].flags \cup fs
  BY <1>1 DEF Proc
<1>3. Set(S, s, fs) = Upd(S, s, r)
  BY DEF Set, Upd
<1> HIDE DEF r
<1> QED
  BY <1>2, <1>3, UpdKeeps DEF Ok, Used

\* Clearing flags other than IN_USE of a slot keeps table and count.
LEMMA ClearKeeps ==
    ASSUME NEW S, Ok(S), NEW s \in Slots, NEW fs, "IN_USE" \notin fs
    PROVE  Keeps(S, Clear(S, s, fs))
<1> DEFINE r == [S.mproc[s] EXCEPT !.flags = @ \ fs]
<1>1. S.mproc[s] \in Proc
  BY DEF Ok, StateT
<1>2. r \in Proc /\ r.vfs = S.mproc[s].vfs /\ r.flags = S.mproc[s].flags \ fs
  BY <1>1 DEF Proc
<1>3. Clear(S, s, fs) = Upd(S, s, r)
  BY DEF Clear, Upd
<1> HIDE DEF r
<1> QED
  BY <1>2, <1>3, UpdKeeps DEF Ok, Used

\* Updates that touch neither the flags nor the VFS request of a slot.
LEMMA FieldKeeps ==
    ASSUME NEW S, Ok(S), NEW s \in Slots, NEW r \in Proc,
           r.flags = S.mproc[s].flags, r.vfs = S.mproc[s].vfs
    PROVE  Keeps(S, Upd(S, s, r))
  BY UpdKeeps DEF Ok, Used

\* reply() changes only what the caller's process is doing.
LEMMA ReplyKeeps ==
    ASSUME NEW S, Ok(S), NEW s \in Slots, NEW call
    PROVE  Keeps(S, Reply(S, s, call))
<1> DEFINE r == [S.mproc[s] EXCEPT !.user = "run"]
<1>1. S.mproc[s] \in Proc
  BY DEF Ok, StateT
<1>2. r \in Proc /\ r.vfs = S.mproc[s].vfs /\ r.flags = S.mproc[s].flags
  BY <1>1 DEF Proc, UserStates
<1>3. Keeps(S, Upd(S, s, r))
  BY <1>2, FieldKeeps
<1>4. Keeps(S, Fail(S, "stray reply"))
  BY FailKeeps DEF Faults
<1> QED
  BY <1>3, <1>4 DEF Reply, Upd

\* A reply to a slot number that is not one changes no slot.
LEMMA ReplyAnyKeeps ==
    ASSUME NEW S, Ok(S), NEW t, NEW call
    PROVE  Keeps(S, Reply(S, t, call))
<1>1. CASE t \in Slots
  BY <1>1, ReplyKeeps
<1>2. CASE t \notin Slots
  <2> DEFINE T == [S EXCEPT !.mproc[t].user = "run"]
  <2>1. T = S
    BY <1>2 DEF Ok, StateT
  <2>2. Keeps(S, T)
    BY <2>1 DEF Keeps
  <2>3. Keeps(S, Fail(S, "stray reply"))
    BY FailKeeps DEF Faults
  <2> QED
    BY <2>2, <2>3 DEF Reply
<1> QED
  BY <1>1, <1>2

\* Storing the argument of waitpid keeps table and count.
LEMMA WpidKeeps ==
    ASSUME NEW S, Ok(S), NEW s \in Slots, NEW arg \in WaitArgs
    PROVE  Keeps(S, [S EXCEPT !.mproc[s].wpid = arg])
<1> DEFINE r == [S.mproc[s] EXCEPT !.wpid = arg]
<1>1. S.mproc[s] \in Proc
  BY DEF Ok, StateT
<1>2. r \in Proc /\ r.vfs = S.mproc[s].vfs /\ r.flags = S.mproc[s].flags
  BY <1>1 DEF Proc
<1>3. Keeps(S, Upd(S, s, r))
  BY <1>2, FieldKeeps
<1> QED
  BY <1>3 DEF Upd

\* Parts of a handler that keep table and count do so one after the other.
LEMMA KeepsTrans ==
    ASSUME NEW S, NEW T, NEW U, Keeps(S, T), Keeps(T, U)
    PROVE  Keeps(S, U)
  BY DEF Keeps

\* What Keeps means for the state it leads to.
LEMMA KeepsOk ==
    ASSUME NEW S, NEW T, Keeps(S, T)
    PROVE  Ok(T) /\ Used(T) = Used(S)
  BY DEF Keeps

\* "Any child" is an argument of waitpid.
LEMMA AnyChildType == AnyChild \in WaitArgs
  BY DEF AnyChild, WaitArgs

\* Waking a waiting parent keeps table and count.
LEMMA WakeKeeps ==
    ASSUME NEW S, Ok(S), NEW p \in Slots
    PROVE  Keeps(S, Wake(S, p))
<1> DEFINE S1 == Reply(S, p, "wait")
           S2 == Clear(S1, p, {"WAITING"})
           S3 == [S2 EXCEPT !.mproc[p].wpid = AnyChild]
<1>1. Keeps(S, S1)
  BY ReplyKeeps
<1>2. Keeps(S1, S2)
  BY <1>1, ClearKeeps, KeepsOk
<1>3. Keeps(S2, S3)
  BY <1>2, WpidKeeps, AnyChildType, KeepsOk
<1>4. Wake(S, p) = S3
  BY DEF Wake
<1> HIDE DEF S1, S2, S3
<1> QED
  BY <1>1, <1>2, <1>3, <1>4, KeepsTrans

\* A request to VFS keeps table and count.
LEMMA TellVfsKeeps ==
    ASSUME NEW S, Ok(S), NEW s \in Used(S), NEW call \in VfsCalls
    PROVE  Keeps(S, tell_vfs(S, s, call))
<1> DEFINE r == [S.mproc[s] EXCEPT !.vfs = call]
<1>1. s \in Slots /\ S.mproc[s] \in Proc
  BY DEF Ok, StateT, Used
<1>2. r \in Proc /\ r.flags = S.mproc[s].flags
  BY <1>1 DEF Proc
<1>3. Keeps(S, Upd(S, s, r))
  BY <1>1, <1>2, UpdKeeps DEF Used
<1>4. Keeps(S, Fail(S, "panic"))
  BY FailKeeps DEF Faults
<1> QED
  BY <1>3, <1>4 DEF tell_vfs, Upd

\* tell_parent releases no slot: its caller cleans up.
LEMMA TellParentKeeps ==
    ASSUME NEW S, Ok(S), NEW c \in Slots
    PROVE  Keeps(S, tell_parent(S, c))
<1> DEFINE p == S.mproc[c].parent
           S1 == Wake(S, p)
           S2 == Clear(S1, c, {"ZOMBIE"})
           S3 == Set(S2, c, {"TOLD_PARENT"})
<1>1. p \in Slots
  BY DEF Ok, StateT, Proc
<1>2. Keeps(S, S1)
  BY <1>1, WakeKeeps
<1>3. Keeps(S1, S2)
  BY <1>2, ClearKeeps, KeepsOk
<1>4. Keeps(S2, S3)
  BY <1>3, SetKeeps, KeepsOk DEF Flags
<1>5. Keeps(S, S3)
  BY <1>2, <1>3, <1>4, KeepsTrans
<1>6. Keeps(S, Fail(S, "panic"))
  BY FailKeeps DEF Faults
<1> QED
  BY <1>5, <1>6 DEF tell_parent

\* tell_tracer releases no slot.
LEMMA TellTracerKeeps ==
    ASSUME NEW S, Ok(S), NEW c \in Slots
    PROVE  Keeps(S, tell_tracer(S, c))
<1> DEFINE t == S.mproc[c].tracer
           S1 == Wake(S, t)
           S2 == Clear(S1, c, {"TRACE_ZOMBIE"})
           S3 == Set(S2, c, {"ZOMBIE"})
<1>1. t \in Slots \/ t <= 0
  BY DEF Ok, StateT, Proc, NO_SLOT
<1>2. ASSUME t \in Slots PROVE Keeps(S, S3)
  <2>1. Keeps(S, S1)
    BY <1>2, WakeKeeps
  <2>2. Keeps(S1, S2)
    BY <2>1, ClearKeeps, KeepsOk
  <2>3. Keeps(S2, S3)
    BY <2>2, SetKeeps, KeepsOk DEF Flags
  <2> QED
    BY <2>1, <2>2, <2>3, KeepsTrans
<1>3. Keeps(S, Fail(S, "panic"))
  BY FailKeeps DEF Faults
<1> QED
  BY <1>1, <1>2, <1>3 DEF tell_tracer

\* The process table is finite.
LEMMA SlotsFinite == IsFiniteSet(Slots)
  BY FS_Interval, NrProcsAssumption DEF Slots

\* Finitely many slots are in use, so that they can be counted.
LEMMA UsedFinite == ASSUME NEW S PROVE IsFiniteSet(Used(S))
  BY FS_Subset, SlotsFinite DEF Used

\* Releasing a slot that is in use takes exactly that slot out of the count.
LEMMA CleanupOk ==
    ASSUME NEW S, Ok(S), NEW c \in Used(S)
    PROVE  Ok(cleanup(S, c)) /\ Used(cleanup(S, c)) = Used(S) \ {c}
<1> DEFINE T == cleanup(S, c)
<1>1. FreeSlot \in Proc /\ FreeSlot.flags = {} /\ FreeSlot.vfs = "none"
  BY AnyChildType, UidsAssumption, NrProcsAssumption
     DEF FreeSlot, Proc, PM_PROC_NR, Slots, VfsCalls, UserStates
<1>2. T \in StateT /\ T.used = S.used - 1
      /\ T.mproc = [S.mproc EXCEPT ![c] = FreeSlot]
  <2> DEFINE S1 == Upd(S, c, FreeSlot)
  <2>1. c \in Slots
    BY DEF Used
  <2>2. S1 \in StateT /\ S1.used = S.used
        /\ S1.mproc = [S.mproc EXCEPT ![c] = FreeSlot]
    BY <1>1, <2>1 DEF Ok, StateT, Upd
  <2>3. T = [S1 EXCEPT !.used = @ - 1]
    BY DEF cleanup, Upd
  <2> HIDE DEF S1
  <2>4. T \in StateT /\ T.used = S1.used - 1 /\ T.mproc = S1.mproc
    BY <2>2, <2>3 DEF StateT
  <2> QED
    BY <2>2, <2>4
<1>3. Used(T) = Used(S) \ {c}
  BY <1>1, <1>2 DEF Ok, StateT, Used
<1>4. T.used = Cardinality(Used(T))
  BY <1>2, <1>3, UsedFinite, FS_RemoveElement DEF Ok
<1>5. \A t \in Slots : T.mproc[t].vfs # "none" => t \in Used(T)
  BY <1>1, <1>2, <1>3 DEF Ok, StateT, Used
<1> QED
  BY <1>2, <1>3, <1>4, <1>5 DEF Ok

\* Signals noted for a tracer keep table and count.
LEMMA SigtraceKeeps ==
    ASSUME NEW S, Ok(S), NEW s \in Slots, NEW sigs \in SUBSET Signals
    PROVE  Keeps(S, [S EXCEPT !.mproc[s].sigtrace = sigs])
<1> DEFINE r == [S.mproc[s] EXCEPT !.sigtrace = sigs]
<1>1. S.mproc[s] \in Proc
  BY DEF Ok, StateT
<1>2. r \in Proc /\ r.vfs = S.mproc[s].vfs /\ r.flags = S.mproc[s].flags
  BY <1>1 DEF Proc
<1>3. Keeps(S, Upd(S, s, r))
  BY <1>2, FieldKeeps
<1> QED
  BY <1>3 DEF Upd

\* Pending signals keep table and count.
LEMMA SigsKeeps ==
    ASSUME NEW S, Ok(S), NEW s \in Slots, NEW sigs \in SUBSET Signals
    PROVE  Keeps(S, [S EXCEPT !.mproc[s].sigs = sigs])
<1> DEFINE r == [S.mproc[s] EXCEPT !.sigs = sigs]
<1>1. S.mproc[s] \in Proc
  BY DEF Ok, StateT
<1>2. r \in Proc /\ r.vfs = S.mproc[s].vfs /\ r.flags = S.mproc[s].flags
  BY <1>1 DEF Proc
<1>3. Keeps(S, Upd(S, s, r))
  BY <1>2, FieldKeeps
<1> QED
  BY <1>3 DEF Upd

\* Blocking a process in a call keeps table and count.
LEMMA UserKeeps ==
    ASSUME NEW S, Ok(S), NEW s \in Slots, NEW u \in UserStates
    PROVE  Keeps(S, [S EXCEPT !.mproc[s].user = u])
<1> DEFINE r == [S.mproc[s] EXCEPT !.user = u]
<1>1. S.mproc[s] \in Proc
  BY DEF Ok, StateT
<1>2. r \in Proc /\ r.vfs = S.mproc[s].vfs /\ r.flags = S.mproc[s].flags
  BY <1>1 DEF Proc
<1>3. Keeps(S, Upd(S, s, r))
  BY <1>2, FieldKeeps
<1> QED
  BY <1>3 DEF Upd

\* Stopping a traced process keeps table and count.
LEMMA TraceStopKeeps ==
    ASSUME NEW S, Ok(S), NEW s \in Slots, NEW sig \in Signals,
           S.mproc[s].tracer # NO_SLOT
    PROVE  Keeps(S, TraceStop(S, s, sig))
<1> DEFINE t == S.mproc[s].tracer
           sigs == S.mproc[s].sigtrace \cup {sig}
           S1 == [S EXCEPT !.mproc[s].sigtrace = sigs]
<1>1. t \in Slots /\ sigs \in SUBSET Signals
  BY DEF Ok, StateT, Proc
<1>2. Keeps(S, S1)
  BY <1>1, SigtraceKeeps
<1>3. Keeps(S, Set(S1, s, {"TRACE_STOPPED"}))
  BY <1>2, SetKeeps, KeepsOk, KeepsTrans DEF Flags
<1>4. Keeps(S, Set(Wake(S, t), s, {"TRACE_STOPPED"}))
  BY <1>1, WakeKeeps, SetKeeps, KeepsOk, KeepsTrans DEF Flags
<1> QED
  BY <1>2, <1>3, <1>4 DEF TraceStop

\* Doing nothing keeps table and count.
LEMMA SelfKeeps == ASSUME NEW S, Ok(S) PROVE Keeps(S, S)
  BY DEF Keeps

\* sig_proc keeps table and count; the exit it may cause comes later.
LEMMA SigProcKeeps ==
    ASSUME NEW S, Ok(S), NEW s \in Slots, NEW sig \in Signals
    PROVE  Keeps(S, sig_proc(S, s, sig))
<1> DEFINE sigs == S.mproc[s].sigs \cup {sig}
<1>1. sigs \in SUBSET Signals
  BY DEF Ok, StateT, Proc
<1>2. Keeps(S, [S EXCEPT !.mproc[s].sigs = sigs])
  BY <1>1, SigsKeeps
<1>3. Keeps(S, Fail(S, "signal to dead process"))
  BY FailKeeps DEF Faults
<1>4. ToTracer(S, s, sig) => Keeps(S, TraceStop(S, s, sig))
  BY TraceStopKeeps DEF ToTracer
<1> QED
  BY <1>2, <1>3, <1>4, SelfKeeps DEF sig_proc

\* check_parent releases at most the slot it is called for, and only on
\* request.
LEMMA CheckParentOk ==
    ASSUME NEW S, Ok(S), NEW c \in Used(S), NEW try_cleanup \in BOOLEAN
    PROVE  /\ Ok(check_parent(S, c, try_cleanup))
           /\ try_cleanup = FALSE => Keeps(S, check_parent(S, c, try_cleanup))
<1> DEFINE p == S.mproc[c].parent
           told == tell_parent(S, c)
<1>1. c \in Slots /\ p \in Slots
  BY DEF Ok, StateT, Proc, Used
<1>2. Keeps(S, told)
  BY <1>1, TellParentKeeps
<1>3. Ok(cleanup(told, c))
  BY <1>2, CleanupOk DEF Keeps
<1>4. Keeps(S, sig_proc(S, p, SIGCHLD))
  BY <1>1, SigProcKeeps DEF Signals
<1>5. Ok(told) /\ Ok(sig_proc(S, p, SIGCHLD))
  BY <1>2, <1>4 DEF Keeps
<1> QED
  BY <1>2, <1>3, <1>4, <1>5, SelfKeeps DEF check_parent

\* zombify reports a death and releases no slot.
LEMMA ZombifyKeeps ==
    ASSUME NEW S, Ok(S), NEW c \in Used(S)
    PROVE  Keeps(S, zombify(S, c))
<1> DEFINE S1 == Set(S, c, {"TRACE_ZOMBIE"})
           S2 == tell_tracer(S1, c)
           S3 == Set(S, c, {"ZOMBIE"})
<1>1. c \in Slots
  BY DEF Used
<1>2. Keeps(S, S1) /\ Keeps(S, S3)
  BY <1>1, SetKeeps DEF Flags
<1>3. Keeps(S, S2)
  BY <1>1, <1>2, TellTracerKeeps, KeepsOk, KeepsTrans
<1>4. Keeps(S2, check_parent(S2, c, FALSE))
  BY <1>3, CheckParentOk, KeepsOk
<1>5. Keeps(S3, check_parent(S3, c, FALSE))
  BY <1>2, CheckParentOk, KeepsOk
<1>6. Keeps(S, check_parent(S2, c, FALSE)) /\ Keeps(S, check_parent(S3, c, FALSE))
  BY <1>2, <1>3, <1>4, <1>5, KeepsTrans
<1>7. Keeps(S, Fail(S, "panic"))
  BY FailKeeps DEF Faults
<1> QED
  BY <1>2, <1>6, <1>7 DEF zombify

\* exit_proc up to its loop releases no slot.
LEMMA ExitProcKeeps ==
    ASSUME NEW S, Ok(S), NEW c \in Used(S), NEW dump_core \in BOOLEAN
    PROVE  Keeps(S, exit_proc(S, c, dump_core))
<1> DEFINE core == dump_core /\ ~Has(S, c, "PRIV_PROC")
           S0 == Set(S, c, {"PROC_STOPPED"})
           S1 == [S0 EXCEPT !.mproc[c].user = "dead"]
           S2 == tell_vfs(S1, c, IF core THEN "core" ELSE "exit")
           S3 == [S2 EXCEPT !.mproc[c].flags = (@ \cap ExitKeeps) \cup {"EXITING"},
                            !.mproc[c].wpid = AnyChild, !.mproc[c].sigs = {},
                            !.mproc[c].sigtrace = {}]
           r  == [S2.mproc[c] EXCEPT !.flags = (@ \cap ExitKeeps) \cup {"EXITING"}]
           T1 == Upd(S2, c, r)
           T2 == [T1 EXCEPT !.mproc[c].wpid = AnyChild]
           T3 == [T2 EXCEPT !.mproc[c].sigs = {}]
           T4 == [T3 EXCEPT !.mproc[c].sigtrace = {}]
<1>1. c \in Slots
  BY DEF Used
<1>2. Keeps(S, S0)
  BY <1>1, SetKeeps DEF Flags
<1>3. Keeps(S0, S1)
  BY <1>1, <1>2, UserKeeps, KeepsOk DEF UserStates
<1>4. Keeps(S, S1)
  BY <1>2, <1>3, KeepsTrans
<1>5. Keeps(S1, S2)
  BY <1>4, TellVfsKeeps, KeepsOk DEF VfsCalls
<1>6. Keeps(S, S2)
  BY <1>4, <1>5, KeepsTrans
<1>7. S3 = T4
  BY DEF Upd
<1> HIDE DEF S0, S1, S2
<1>8. Ok(S2) /\ c \in Used(S2) /\ S2.mproc[c] \in Proc
  BY <1>1, <1>6, KeepsOk DEF Ok, StateT
<1>9. r \in Proc /\ r.vfs = S2.mproc[c].vfs
      /\ r.flags = (S2.mproc[c].flags \cap ExitKeeps) \cup {"EXITING"}
  BY <1>8, AnyChildType DEF Proc, Flags
<1>10. "IN_USE" \in r.flags
  BY <1>8, <1>9 DEF Used, ExitKeeps
<1> HIDE DEF r
<1>11. Keeps(S, T1)
  BY <1>1, <1>6, <1>8, <1>9, <1>10, UpdKeeps, KeepsTrans
<1> HIDE DEF T1
<1>12. Keeps(S, S3)
  <2>1. Keeps(S, T2)
    BY <1>1, <1>11, WpidKeeps, AnyChildType, KeepsOk, KeepsTrans
  <2> HIDE DEF T2
  <2>2. Keeps(S, T3)
    BY <1>1, <2>1, SigsKeeps, KeepsOk, KeepsTrans
  <2> HIDE DEF T3
  <2>3. Keeps(S, T4)
    BY <1>1, <2>2, SigtraceKeeps, KeepsOk, KeepsTrans
  <2> QED
    BY <1>7, <2>3
<1> HIDE DEF S3
<1>13. Keeps(S, zombify(S3, c))
  BY <1>12, ZombifyKeeps, KeepsOk, KeepsTrans
<1> QED
  BY <1>4, <1>12, <1>13 DEF exit_proc, S0, S1, S2, S3

\* exit_restart leaves table and count right, whether or not it releases the slot.
LEMMA ExitRestartOk ==
    ASSUME NEW S, Ok(S), NEW c \in Used(S), NEW dump_core \in BOOLEAN
    PROVE  Ok(exit_restart(S, c, dump_core))
<1> DEFINE S1 == [S EXCEPT !.mproc[c].sched = FALSE]
           S2 == IF dump_core THEN zombify(S1, c) ELSE S1
           t  == S2.mproc[c].tracer
           S3 == IF Has(S2, c, "TRACE_EXIT") THEN Reply(S2, t, "ptrace") ELSE S2
           r  == [S.mproc[c] EXCEPT !.sched = FALSE]
<1>1. c \in Slots /\ S.mproc[c] \in Proc
  BY DEF Used, Ok, StateT
<1>2. r \in Proc /\ r.vfs = S.mproc[c].vfs /\ r.flags = S.mproc[c].flags
  BY <1>1 DEF Proc
<1>3. Keeps(S, Upd(S, c, r))
  BY <1>1, <1>2, FieldKeeps
<1>4. Keeps(S, S1)
  BY <1>3 DEF Upd
<1> HIDE DEF S1
<1>5. Keeps(S, S2)
  BY <1>4, ZombifyKeeps, KeepsOk, KeepsTrans
<1> HIDE DEF S2
<1>6. Keeps(S, S3)
  BY <1>5, ReplyAnyKeeps, KeepsOk, KeepsTrans
<1> HIDE DEF S3
<1>7. Ok(S3) /\ Ok(cleanup(S3, c))
  BY <1>6, CleanupOk, KeepsOk
<1> QED
  BY <1>7 DEF exit_restart, S3, S2, S1

\* tracer_died leaves table and count right, whether or not it releases the
\* tracee's slot.
LEMMA TracerDiedOk ==
    ASSUME NEW S, Ok(S), NEW c \in Used(S)
    PROVE  Ok(tracer_died(S, c))
<1> DEFINE S0 == Clear(S, c, {"TRACE_EXIT"})
           S1 == [S0 EXCEPT !.mproc[c].tracer = NO_SLOT]
           S2 == Clear(S1, c, {"TRACE_ZOMBIE"})
           S3 == Set(S2, c, {"ZOMBIE"})
           r  == [S0.mproc[c] EXCEPT !.tracer = NO_SLOT]
<1>1. c \in Slots
  BY DEF Used
<1>2. Keeps(S, S0)
  BY <1>1, ClearKeeps
<1> HIDE DEF S0
<1>3. S0.mproc[c] \in Proc
  BY <1>1, <1>2, KeepsOk DEF Ok, StateT
<1>4. r \in Proc /\ r.vfs = S0.mproc[c].vfs /\ r.flags = S0.mproc[c].flags
  BY <1>3 DEF Proc
<1>5. Keeps(S0, Upd(S0, c, r))
  BY <1>1, <1>2, <1>4, FieldKeeps, KeepsOk
<1>6. Keeps(S, S1)
  BY <1>2, <1>5, KeepsTrans DEF Upd
<1> HIDE DEF S1
<1>7. Keeps(S, S2)
  BY <1>1, <1>6, ClearKeeps, KeepsOk, KeepsTrans
<1> HIDE DEF S2
<1>8. Keeps(S, S3)
  BY <1>1, <1>7, SetKeeps, KeepsOk, KeepsTrans DEF Flags
<1> HIDE DEF S3
<1>9. Ok(S1) /\ Ok(check_parent(S3, c, TRUE))
  BY <1>6, <1>8, CheckParentOk, KeepsOk
<1> QED
  BY <1>9 DEF tracer_died, S0, S1, S2, S3

\* Handing a child to INIT leaves table and count right, whether or not INIT
\* collects it at once.
LEMMA DisinheritOk ==
    ASSUME NEW S, Ok(S), NEW k \in Used(S)
    PROVE  Ok(disinherit(S, k))
<1> DEFINE S1 == [S EXCEPT !.mproc[k].parent = INIT_PROC_NR]
           S2 == IF VfsBusy(S1, k) THEN Set(S1, k, {"NEW_PARENT"}) ELSE S1
           r  == [S.mproc[k] EXCEPT !.parent = INIT_PROC_NR]
<1>1. k \in Slots /\ S.mproc[k] \in Proc
  BY DEF Used, Ok, StateT
<1>2. r \in Proc /\ r.vfs = S.mproc[k].vfs /\ r.flags = S.mproc[k].flags
  BY <1>1, NrProcsAssumption DEF Proc, Slots, INIT_PROC_NR
<1>3. Keeps(S, Upd(S, k, r))
  BY <1>1, <1>2, FieldKeeps
<1>4. Keeps(S, S1)
  BY <1>3 DEF Upd
<1> HIDE DEF S1
<1>5. Keeps(S, S2)
  BY <1>1, <1>4, SetKeeps, KeepsOk, KeepsTrans DEF Flags
<1> HIDE DEF S2
<1>6. Ok(S2) /\ Ok(check_parent(S2, k, TRUE))
  BY <1>5, CheckParentOk, KeepsOk
<1> QED
  BY <1>6 DEF disinherit, S1, S2

-----------------------------------------------------------------------------
(* Fork: there always is a free pid, and the new slot is well formed.        *)

\* The least element of a set of naturals exists.
LEMMA LeastOfNats ==
    ASSUME NEW K \in SUBSET Nat, K # {}
    PROVE  Least(K) \in K /\ \A j \in K : Least(K) <= j
<1> DEFINE R == OpToRel(<, Nat)
<1>1. \A x, y \in Nat : <<y, x>> \in R <=> y < x
  BY DEF OpToRel
<1>2. \E x \in K : \A y \in K : ~(<<y, x>> \in R)
  BY WFMin, NatLessThanWellFounded
<1> HIDE DEF R
<1>3. PICK x \in K : \A y \in K : ~(<<y, x>> \in R)
  BY <1>2
<1>4. \A y \in K : ~(y < x)
  BY <1>1, <1>3
<1>5. \A y \in K : x <= y
  BY <1>4
<1> QED
  BY <1>5 DEF Least

\* n slots name at most 2n pids and groups, so more than 2n pids leave one.
LEMMA FreePidExists ==
    ASSUME NEW n \in Nat, NEW m \in Nat, m > 2 * n, NEW f, NEW g
    PROVE  \E i \in 1 .. m : \A s \in 0 .. n - 1 : f[s] # i /\ g[s] # i
<1> DEFINE D == 0 .. n - 1
           ff == [s \in D |-> f[s]]
           gg == [s \in D |-> g[s]]
           A == {ff[s] : s \in D}
           B == {gg[s] : s \in D}
<1>1. IsFiniteSet(D) /\ Cardinality(D) = n
  BY FS_Interval
<1>2. ff \in Surjection(D, A) /\ gg \in Surjection(D, B)
  BY DEF Surjection
<1>3. IsFiniteSet(A) /\ Cardinality(A) <= n /\ Cardinality(A) \in Nat
  BY <1>1, <1>2, FS_Surjection, FS_CardinalityType
<1>4. IsFiniteSet(B) /\ Cardinality(B) <= n /\ Cardinality(B) \in Nat
  BY <1>1, <1>2, FS_Surjection, FS_CardinalityType
<1>5. IsFiniteSet(A \cup B) /\ Cardinality(A \cup B) <= 2 * n
  <2>1. IsFiniteSet(A \cap B) /\ Cardinality(A \cap B) \in Nat
    BY <1>3, FS_Subset, FS_CardinalityType
  <2> QED
    BY <1>3, <1>4, <2>1, FS_Union
<1>6. IsFiniteSet(1 .. m) /\ Cardinality(1 .. m) = m
  BY FS_Interval
<1>7. ~(1 .. m \subseteq A \cup B)
  <2> SUFFICES ASSUME 1 .. m \subseteq A \cup B PROVE FALSE
    OBVIOUS
  <2>1. m <= Cardinality(A \cup B)
    BY <1>5, <1>6, FS_Subset
  <2>2. Cardinality(A \cup B) \in Nat
    BY <1>5, FS_CardinalityType
  <2> HIDE DEF A, B
  <2> QED
    BY <1>5, <2>1, <2>2
<1>8. PICK i \in 1 .. m : i \notin A /\ i \notin B
  BY <1>7
<1>9. \A s \in D : f[s] # i /\ g[s] # i
  BY <1>8
<1> QED
  BY <1>8, <1>9

PidOrNone == Pids \cup {NoPid}

\* get_free_pid finds a pid.
LEMMA FreePidType == Ok(State) => get_free_pid \in Pids
<1> SUFFICES ASSUME Ok(State) PROVE get_free_pid \in Pids
  OBVIOUS
<1> DEFINE f == [s \in Slots |-> mproc[s].pid]
           g == [s \in Slots |-> mproc[s].grp]
           K == {i \in Pids : \A s \in Slots : mproc[s].pid # i /\ mproc[s].grp # i}
<1>1. \E i \in 1 .. MaxPid : \A s \in 0 .. NR_PROCS - 1 : f[s] # i /\ g[s] # i
  <2> HIDE DEF f, g
  <2> QED
    BY FreePidExists, MaxPidAssumption, NrProcsAssumption
<1>2. K # {}
  BY <1>1 DEF Slots, Pids
<1>3. K \in SUBSET Nat
  BY DEF Pids
<1>4. Least(K) \in K
  <2> HIDE DEF K
  <2> QED
    BY <1>2, <1>3, LeastOfNats
<1> QED
  BY <1>4 DEF get_free_pid

\* The child's slot in do_fork and do_srv_fork is well formed.
LEMMA ForkedSlotType ==
    ASSUME Ok(State), NEW p \in Used(State), NEW keeps \in SUBSET Flags,
           "IN_USE" \in keeps
    PROVE  /\ ForkedSlot(p, keeps) \in Proc
           /\ "IN_USE" \in ForkedSlot(p, keeps).flags
           /\ ForkedSlot(p, keeps).vfs = "none"
<1> DEFINE m == mproc[p]
           b == m.sched \/ ("PRIV_PROC" \in m.flags /\ "PRIV_PROC" \notin keeps)
<1>1. p \in Slots /\ m \in Proc /\ "IN_USE" \in m.flags
  BY DEF Ok, StateT, State, Used
<1>2. get_free_pid \in Pids
  BY FreePidType
<1>3. b \in BOOLEAN
  OBVIOUS
<1>4. m.tracefork \in BOOLEAN
  BY <1>1 DEF Proc
<1>5. "born" \in UserStates /\ "none" \in VfsCalls /\ NO_SLOT \in Slots \cup {NO_SLOT}
  BY DEF UserStates, VfsCalls
<1>6. DEFINE u == [m EXCEPT !.parent = p,
                            !.tracer = IF m.tracefork THEN @ ELSE NO_SLOT,
                            !.tracefork = m.tracefork,
                            !.sigtrace = IF m.tracefork THEN @ ELSE {},
                            !.sched = b,
                            !.flags = @ \cap keeps,
                            !.pid = get_free_pid,
                            !.vfs = "none",
                            !.user = "born"]
<1>7. ForkedSlot(p, keeps) = u
  BY DEF ForkedSlot
<1> HIDE DEF b
<1>8. u \in Proc /\ u.flags = m.flags \cap keeps /\ u.vfs = "none"
  <2> HIDE DEF m
  <2> QED
    BY <1>1, <1>2, <1>3, <1>4, <1>5 DEF Proc
<1> HIDE DEF u
<1> QED
  BY <1>1, <1>7, <1>8

\* Filling a free slot: one more slot in use, and one more counted.
LEMMA ForkedOk ==
    ASSUME Ok(State), NEW p \in Used(State), NEW c \in Slots, c \notin Used(State),
           NEW slot \in Proc, "IN_USE" \in slot.flags, slot.vfs = "none",
           NEW call \in VfsCalls, NEW u \in UserStates
    PROVE  Ok(Forked(p, c, slot, call, u))
<1> DEFINE T0 == Upd(State, c, slot)
           T1 == [T0 EXCEPT !.mproc[p].user = u]
           S1 == [T1 EXCEPT !.used = @ + 1]
           S2 == tell_vfs(S1, c, call)
<1>1. State \in StateT /\ p \in Slots /\ p # c
  BY DEF Ok, Used
<1>2. T0 \in StateT /\ T0.used = State.used /\ T0.mproc = [State.mproc EXCEPT ![c] = slot]
  BY <1>1 DEF Upd, StateT
<1>3. State.mproc[p] \in Proc
  BY <1>1 DEF StateT
<1> DEFINE r == [State.mproc[p] EXCEPT !.user = u]
<1>4. r \in Proc /\ r.flags = State.mproc[p].flags /\ r.vfs = State.mproc[p].vfs
  BY <1>3 DEF Proc
<1>5. T1 = Upd(T0, p, r)
  BY <1>1, <1>2 DEF Upd, StateT
<1> HIDE DEF T0, r
<1>6. T1 \in StateT /\ T1.used = State.used
      /\ T1.mproc = [State.mproc EXCEPT ![c] = slot, ![p] = r]
  BY <1>1, <1>2, <1>4, <1>5 DEF StateT, Upd
<1> HIDE DEF T1
<1>7. S1 \in StateT /\ S1.used = State.used + 1 /\ S1.mproc = T1.mproc
  BY <1>6 DEF StateT
<1> HIDE DEF S1
<1>8. Used(S1) = Used(State) \cup {c}
  BY <1>1, <1>4, <1>6, <1>7 DEF Used, StateT
<1>9. S1.used = Cardinality(Used(S1))
  <2>1. IsFiniteSet(Used(State))
    BY UsedFinite
  <2>2. Cardinality(Used(State) \cup {c}) = Cardinality(Used(State)) + 1
    BY <2>1, FS_AddElement
  <2>3. State.used = Cardinality(Used(State))
    BY DEF Ok
  <2> QED
    BY <1>7, <1>8, <2>2, <2>3
<1>10. \A s \in Slots : S1.mproc[s].vfs # "none" => s \in Used(S1)
  BY <1>1, <1>4, <1>6, <1>7, <1>8 DEF Ok, StateT
<1>11. Ok(S1)
  BY <1>7, <1>9, <1>10 DEF Ok
<1>12. Keeps(S1, S2)
  BY <1>8, <1>11, TellVfsKeeps
<1>13. Ok(S2) /\ Ok(sig_proc(S2, c, SIGSTOP))
  <2>1. Ok(S2)
    BY <1>12, KeepsOk
  <2> HIDE DEF S2
  <2> QED
    BY <2>1, SigProcKeeps, KeepsOk DEF Signals
<1>14. S1 = [State EXCEPT !.mproc[c] = slot, !.mproc[p].user = u, !.used = @ + 1]
  BY DEF S1, T1, T0, Upd
<1> QED
  BY <1>13, <1>14 DEF Forked

-----------------------------------------------------------------------------
(* The invariant, and that every action preserves it.                        *)

\* The inductive invariant: the process table is well typed and counted, VFS
\* works only for slots in use, and the frames of exit_proc are well typed.
IInv == Ok(State) /\ stack \in Seq(Frame)

\* A handler whose result is a good table leads to a good state.
LEMMA BecomesOk ==
    ASSUME NEW T, Ok(T), Becomes(T)
    PROVE  Ok(State)'
<1>1. State'.mproc = T.mproc /\ State'.used = T.used /\ State'.fault = T.fault
  BY DEF Becomes, State
<1>2. State' = [mproc |-> State'.mproc, used |-> State'.used, fault |-> State'.fault]
  BY DEF State
<1>3. T \in StateT
  BY DEF Ok
<1>4. State' \in StateT
  BY <1>1, <1>2, <1>3 DEF StateT
<1>5. Used(State') = Used(T)
  BY <1>1 DEF Used
<1> QED
  BY <1>1, <1>4, <1>5 DEF Ok

\* The frame of a new exit_proc is well typed.
LEMMA PushExitType ==
    ASSUME Ok(State), NEW S, Ok(S), NEW stk \in Seq(Frame), NEW c \in Slots,
           NEW cg \in PidOrNone
    PROVE  PushExit(S, stk, c, cg) \in Seq(Frame)
<1>1. ExitFrame(S, c, cg) \in Frame
  BY NrProcsAssumption DEF ExitFrame, Frame, PidOrNone
<1> QED
  BY <1>1 DEF PushExit

\* Sending a signal, and starting the exit it causes, preserves IInv.
LEMMA SignalOk ==
    ASSUME NEW S, Ok(S), NEW stk \in Seq(Frame), NEW s \in Slots,
           NEW sig \in Signals, NEW cg \in PidOrNone, Ok(State),
           Signal(S, stk, s, sig, cg)
    PROVE  IInv'
<1>1. CASE Kills(S, s, sig)
  <2>1. s \in Used(S)
    BY <1>1 DEF Kills, Live, Has, Used
  <2>2. Ok(exit_proc(S, s, sig = SIGSEGV))
    BY <2>1, ExitProcKeeps, KeepsOk
  <2>3. Becomes(exit_proc(S, s, sig = SIGSEGV)) /\ stack' = PushExit(S, stk, s, cg)
    BY <1>1 DEF Signal
  <2> QED
    BY <2>2, <2>3, BecomesOk, PushExitType DEF IInv
<1>2. CASE ~Kills(S, s, sig)
  <2>1. Ok(sig_proc(S, s, sig))
    BY SigProcKeeps, KeepsOk
  <2>2. Becomes(sig_proc(S, s, sig)) /\ stack' = stk
    BY <1>2 DEF Signal
  <2> QED
    BY <2>1, <2>2, BecomesOk DEF IInv
<1> QED
  BY <1>1, <1>2

\* What the steps below use of IInv.
LEMMA IInvFacts ==
    ASSUME IInv
    PROVE  /\ Ok(State) /\ stack \in Seq(Frame)
           /\ \A s \in Slots : mproc[s] \in Proc /\ mproc[s].grp \in PidOrNone
           /\ \A s \in Slots : Live(State, s) => s \in Used(State)
           /\ \A s \in Slots : "IN_USE" \in mproc[s].flags <=> s \in Used(State)
<1>1. Ok(State) /\ stack \in Seq(Frame)
  BY DEF IInv
<1>2. \A s \in Slots : mproc[s] \in Proc
  BY <1>1 DEF Ok, State, StateT
<1> QED
  BY <1>1, <1>2 DEF Proc, PidOrNone, Used, Live, Has, State

\* A step that leaves table, count and fault alone keeps the table good.
LEMMA UnchangedOk ==
    ASSUME IInv, UNCHANGED <<mproc, procs_in_use, fault>>, stack' \in Seq(Frame)
    PROVE  IInv'
<1>1. State' = State
  BY DEF State
<1> QED
  BY <1>1 DEF IInv, Ok, Used

\* A panic preserves the table.
LEMMA FailOk == ASSUME IInv PROVE Ok(Fail(State, "panic"))
  BY FailKeeps, KeepsOk DEF IInv, Faults

\* A slot do_fork picks is not in use.
LEMMA FreeSlotsFact ==
    ASSUME NEW c \in FreeSlots
    PROVE  c \in Slots /\ c \notin Used(State)
  BY DEF FreeSlots, Used, State

\* do_fork preserves IInv.
LEMMA ForkStep ==
    ASSUME IInv, NEW p \in Slots, do_fork(p)
    PROVE  IInv'
<1> DEFINE slot == ForkedSlot(p, {"IN_USE"})
<1>1. p \in Used(State) /\ stack' = stack
  BY IInvFacts DEF do_fork, Running
<1>2. slot \in Proc /\ "IN_USE" \in slot.flags /\ slot.vfs = "none"
  BY <1>1, IInvFacts, ForkedSlotType DEF Flags
<1> HIDE DEF slot
<1>3. ASSUME NEW c \in FreeSlots
      PROVE  Ok(Forked(p, c, slot, "fork", "fork"))
  BY <1>1, <1>2, FreeSlotsFact, ForkedOk DEF IInv, VfsCalls, UserStates
<1>4. CASE FreeSlots = {} \/ ~ForkAssert(p)
  BY <1>1, <1>4, FailOk, BecomesOk DEF do_fork, IInv
<1>5. CASE ~(FreeSlots = {} \/ ~ForkAssert(p))
  <2>1. PICK c \in FreeSlots : Becomes(Forked(p, c, slot, "fork", "fork"))
    BY <1>5 DEF do_fork, slot
  <2> QED
    BY <1>1, <1>3, <2>1, BecomesOk DEF IInv
<1> QED
  BY <1>4, <1>5

\* do_srv_fork preserves IInv.
LEMMA SrvForkStep ==
    ASSUME IInv, NEW uid \in Uids, do_srv_fork(uid)
    PROVE  IInv'
<1> DEFINE p == RS_PROC_NR
           slot0 == ForkedSlot(p, {"IN_USE", "PRIV_PROC"})
           slot == [slot0 EXCEPT !.uid = uid]
<1>1. p \in Slots
  BY NrProcsAssumption DEF RS_PROC_NR, Slots
<1>2. p \in Used(State) /\ stack' = stack
  BY <1>1, IInvFacts DEF do_srv_fork, Running
<1>3. slot0 \in Proc /\ "IN_USE" \in slot0.flags /\ slot0.vfs = "none"
  BY <1>2, IInvFacts, ForkedSlotType DEF Flags
<1>4. /\ FreeSlots = {} => Becomes(Fail(State, "panic"))
      /\ FreeSlots # {} => \E c \in FreeSlots :
                               Becomes(Reply(Forked(p, c, slot, "srv_fork", "run"),
                                             c, "born"))
  BY DEF do_srv_fork
<1> HIDE DEF slot0
<1>5. slot \in Proc /\ "IN_USE" \in slot.flags /\ slot.vfs = "none"
  BY <1>3 DEF Proc
<1> HIDE DEF slot
<1>6. ASSUME NEW c \in FreeSlots
      PROVE  Ok(Reply(Forked(p, c, slot, "srv_fork", "run"), c, "born"))
  <2>1. Ok(Forked(p, c, slot, "srv_fork", "run"))
    BY <1>2, <1>5, FreeSlotsFact, ForkedOk DEF IInv, VfsCalls, UserStates
  <2> QED
    BY <2>1, ReplyAnyKeeps, KeepsOk
<1>7. CASE FreeSlots = {}
  BY <1>2, <1>4, <1>7, FailOk, BecomesOk DEF IInv
<1>8. CASE FreeSlots # {}
  <2>1. PICK c \in FreeSlots :
               Becomes(Reply(Forked(p, c, slot, "srv_fork", "run"), c, "born"))
    BY <1>4, <1>8
  <2> QED
    BY <1>2, <1>6, <2>1, BecomesOk DEF IInv
<1> QED
  BY <1>7, <1>8

\* do_exit preserves IInv.
LEMMA ExitStep ==
    ASSUME IInv, NEW p \in Slots, do_exit(p)
    PROVE  IInv'
<1>1. p \in Used(State)
  BY IInvFacts DEF do_exit, Running
<1>2. CASE "PRIV_PROC" \in mproc[p].flags
  <2>1. Ok([State EXCEPT !.mproc[p].user = "exit"])
    BY UserKeeps, KeepsOk DEF IInv, UserStates
  <2> QED
    BY <1>2, <2>1, BecomesOk DEF do_exit, IInv
<1>3. CASE "PRIV_PROC" \notin mproc[p].flags
  <2>1. Ok(exit_proc(State, p, FALSE))
    BY <1>1, ExitProcKeeps, KeepsOk DEF IInv
  <2>2. PushExit(State, stack, p, mproc[p].grp) \in Seq(Frame)
    BY IInvFacts, PushExitType
  <2> QED
    BY <1>3, <2>1, <2>2, BecomesOk DEF do_exit, IInv
<1> QED
  BY <1>2, <1>3

\* A signal from the kernel preserves IInv.
LEMMA KernelKillStep ==
    ASSUME IInv, NEW s \in Slots, KernelKill(s)
    PROVE  IInv'
  BY IInvFacts, SignalOk DEF KernelKill, Signals, PidOrNone

\* kill preserves IInv.
LEMMA KillStep ==
    ASSUME IInv, NEW by \in Slots, NEW s \in Slots, NEW sig \in KillSignals,
           Kill(by, s, sig)
    PROVE  IInv'
<1>1. sig \in Signals
  BY KillSignalsAssumption DEF Signals
<1> QED
  BY <1>1, IInvFacts, SignalOk DEF Kill

\* The innermost frame and the ones below it are well typed.
LEMMA TopFacts ==
    ASSUME IInv, stack # <<>>
    PROVE  Top \in Frame /\ Below \in Seq(Frame)
<1>1. stack \in Seq(Frame) /\ Len(stack) \in Nat /\ Len(stack) > 0
  BY DEF IInv
<1> QED
  BY <1>1 DEF Top, Below

\* The slot the loop of exit_proc looks at is in use.
LEMMA BereavedFacts ==
    ASSUME IInv, NEW f \in Frame, Bereaved(f) # {}
    PROVE  LET k == Least(Bereaved(f)) IN k \in Slots /\ k \in Used(State)
<1>1. f.k \in Nat
  BY DEF Frame
<1>2. Bereaved(f) \in SUBSET Slots /\ Bereaved(f) \in SUBSET Nat
  BY <1>1, NrProcsAssumption DEF Bereaved, Slots
<1>3. Least(Bereaved(f)) \in Bereaved(f)
  BY <1>2, LeastOfNats
<1> QED
  BY <1>2, <1>3, IInvFacts DEF Bereaved

\* A frame stays well typed when its loop index moves on.
LEMMA FrameAt ==
    ASSUME NEW f \in Frame, NEW k \in Slots
    PROVE  /\ [f EXCEPT !.k = k] \in Frame
           /\ [f EXCEPT !.k = k + 1] \in Frame
           /\ [f EXCEPT !.k = 0, !.hup = TRUE] \in Frame
<1>1. k \in 0 .. NR_PROCS /\ k + 1 \in 0 .. NR_PROCS /\ 0 \in 0 .. NR_PROCS
  BY NrProcsAssumption DEF Slots
<1> QED
  BY <1>1 DEF Frame

\* An iteration that finds a tracee preserves IInv.
LEMMA LoopTracerDiedStep ==
    ASSUME IInv, LoopTracerDied
    PROVE  IInv'
<1> DEFINE f == Top
           k == Least(Bereaved(f))
           S == tracer_died(State, k)
           stk == Append(Below, [f EXCEPT !.k = k])
<1>1. f \in Frame /\ Below \in Seq(Frame)
  BY TopFacts DEF LoopTracerDied
<1>2. k \in Slots /\ k \in Used(State)
  BY <1>1, BereavedFacts DEF LoopTracerDied
<1>3. Ok(S)
  BY <1>2, TracerDiedOk DEF IInv
<1>4. stk \in Seq(Frame)
  <2>1. [f EXCEPT !.k = k] \in Frame
    BY <1>1, <1>2, FrameAt
  <2> QED
    BY <1>1, <2>1
<1>5. f.cg \in PidOrNone /\ SIGKILL \in Signals
  BY <1>1 DEF Frame, PidOrNone, Signals
<1>6. \/ Becomes(S) /\ stack' = stk
      \/ Signal(S, stk, k, SIGKILL, f.cg)
  BY DEF LoopTracerDied
<1> HIDE DEF f, k, S, stk
<1>7. CASE Becomes(S) /\ stack' = stk
  BY <1>3, <1>4, <1>7, BecomesOk DEF IInv
<1>8. CASE Signal(S, stk, k, SIGKILL, f.cg)
  BY <1>2, <1>3, <1>4, <1>5, <1>8, SignalOk DEF IInv
<1> QED
  BY <1>6, <1>7, <1>8

\* An iteration that finds a child preserves IInv.
LEMMA LoopDisinheritStep ==
    ASSUME IInv, LoopDisinherit
    PROVE  IInv'
<1> DEFINE f == Top
           k == Least(Bereaved(f))
<1>1. f \in Frame /\ Below \in Seq(Frame)
  BY TopFacts DEF LoopDisinherit
<1>2. k \in Slots /\ k \in Used(State)
  BY <1>1, BereavedFacts DEF LoopDisinherit
<1>3. Ok(disinherit(State, k))
  BY <1>2, DisinheritOk DEF IInv
<1>4. [f EXCEPT !.k = k + 1] \in Frame
  BY <1>1, <1>2, FrameAt
<1>5. Becomes(disinherit(State, k)) /\ stack' = Append(Below, [f EXCEPT !.k = k + 1])
  BY DEF LoopDisinherit
<1> HIDE DEF f, k
<1> QED
  BY <1>1, <1>3, <1>4, <1>5, BecomesOk DEF IInv

\* The end of the loop of exit_proc preserves IInv.
LEMMA LoopEndStep ==
    ASSUME IInv, LoopEnd
    PROVE  IInv'
<1>1. Top \in Frame /\ Below \in Seq(Frame)
  BY TopFacts DEF LoopEnd
<1>2. 0 \in Slots
  BY NrProcsAssumption DEF Slots
<1>3. [Top EXCEPT !.k = 0, !.hup = TRUE] \in Frame
  BY <1>1, <1>2, FrameAt
<1>4. stack' \in Seq(Frame)
  BY <1>1, <1>3 DEF LoopEnd
<1> QED
  BY <1>4, UnchangedOk DEF LoopEnd

\* Hanging up a member of the group preserves IInv.
LEMMA LoopHangupStep ==
    ASSUME IInv, LoopHangup
    PROVE  IInv'
<1> DEFINE f == Top
           k == Least(Members(f))
           stk == Append(Below, [f EXCEPT !.k = k + 1])
<1>1. f \in Frame /\ Below \in Seq(Frame)
  BY TopFacts DEF LoopHangup
<1>2. CASE Members(f) = {}
  BY <1>1, <1>2, UnchangedOk DEF LoopHangup
<1>3. CASE Members(f) # {}
  <2>1. f.k \in Nat
    BY <1>1 DEF Frame
  <2>2. Members(f) \in SUBSET Nat /\ Members(f) \in SUBSET Slots
    BY <2>1, NrProcsAssumption DEF Members, Slots
  <2>3. k \in Slots
    BY <1>3, <2>2, LeastOfNats
  <2>4. [f EXCEPT !.k = k + 1] \in Frame
    BY <1>1, <2>3, FrameAt
  <2>5. f.cg \in PidOrNone /\ SIGHUP \in Signals
    BY <1>1 DEF Frame, PidOrNone, Signals
  <2>6. Signal(State, stk, k, SIGHUP, f.cg)
    BY <1>3 DEF LoopHangup
  <2> HIDE DEF f, k
  <2>7. stk \in Seq(Frame)
    BY <1>1, <2>4
  <2> HIDE DEF stk
  <2> QED
    BY <2>3, <2>5, <2>6, <2>7, SignalOk DEF IInv
<1> QED
  BY <1>2, <1>3

\* An answer of VFS clears the request and nothing else.
LEMMA VfsDoneKeeps ==
    ASSUME NEW S, Ok(S), NEW s \in Slots
    PROVE  Keeps(S, [S EXCEPT !.mproc[s].vfs = "none"])
<1> DEFINE r == [S.mproc[s] EXCEPT !.vfs = "none"]
<1>1. S.mproc[s] \in Proc
  BY DEF Ok, StateT
<1>2. r \in Proc /\ r.vfs = "none" /\ r.flags = S.mproc[s].flags
  BY <1>1 DEF Proc, VfsCalls
<1> HIDE DEF r
<1>3. Keeps(S, Upd(S, s, r))
  BY <1>2, UpdKeeps DEF Used
<1> QED
  BY <1>3 DEF Upd, r

\* Each kind of answer of VFS preserves IInv.
LEMMA VfsReplyStep ==
    ASSUME IInv, NEW s \in Slots, VfsReply(s)
    PROVE  IInv'
<1> DEFINE call == mproc[s].vfs
           newParent == "NEW_PARENT" \in mproc[s].flags
           S0 == Clear(State, s, {"NEW_PARENT"})
           S1 == [S0 EXCEPT !.mproc[s].vfs = "none"]
           S2 == IF call = "fork" THEN Reply(S1, s, "born") ELSE S1
           S3 == IF call = "fork" /\ ~newParent
                 THEN Reply(S2, S2.mproc[s].parent, "fork") ELSE S2
           S4 == [S3 EXCEPT !.mproc[s].sigs = {}]
           doomed == PendingKill(S3, s)
           core == call = "core"
           segv == doomed = {SIGSEGV}
<1>1. Ok(State) /\ s \in Used(State)
  BY DEF VfsReply, IInv, Ok, State
<1>2. Keeps(State, S0)
  BY <1>1, ClearKeeps
<1>3. Keeps(State, S1)
  BY <1>2, VfsDoneKeeps, KeepsOk, KeepsTrans
<1> HIDE DEF S1
<1>4. Keeps(State, S2)
  BY <1>3, ReplyKeeps, KeepsOk, KeepsTrans
<1> HIDE DEF S2
<1>5. Keeps(State, S3)
  BY <1>4, ReplyAnyKeeps, KeepsOk, KeepsTrans
<1> HIDE DEF S3
<1>6. Keeps(State, S4)
  BY <1>5, SigsKeeps, KeepsOk, KeepsTrans
<1> HIDE DEF S4, doomed
<1>7. Ok(exit_restart(S1, s, core))
  BY <1>1, <1>3, ExitRestartOk, KeepsOk
<1>8. Ok(exit_proc(S4, s, segv))
  BY <1>1, <1>6, ExitProcKeeps, KeepsOk
<1>9. Ok(S4)
  BY <1>6, KeepsOk
<1>10. PushExit(S4, stack, s, NoPid) \in Seq(Frame)
  BY <1>1, <1>9, PushExitType DEF IInv, PidOrNone
<1>11. \/ Becomes(exit_restart(S1, s, core)) /\ stack' = stack
       \/ /\ Becomes(exit_proc(S4, s, segv))
          /\ stack' = PushExit(S4, stack, s, NoPid)
       \/ Becomes(S4) /\ stack' = stack
  BY DEF VfsReply, S1, S2, S3, S4, doomed
<1> HIDE DEF core, segv
<1>12. CASE Becomes(exit_restart(S1, s, core)) /\ stack' = stack
  BY <1>7, <1>12, BecomesOk DEF IInv
<1>13. CASE /\ Becomes(exit_proc(S4, s, segv))
            /\ stack' = PushExit(S4, stack, s, NoPid)
  BY <1>8, <1>10, <1>13, BecomesOk DEF IInv
<1>14. CASE Becomes(S4) /\ stack' = stack
  BY <1>9, <1>14, BecomesOk DEF IInv
<1> QED
  BY <1>11, <1>12, <1>13, <1>14

\* do_waitpid preserves IInv: what it collects it releases once.
LEMMA WaitpidStep ==
    ASSUME IInv, NEW p \in Slots, NEW arg \in WaitArgs, do_waitpid(p, arg)
    PROVE  IInv'
<1> DEFINE S == [State EXCEPT !.mproc[p].user = "wait"]
           c == Least(Collectable(p, arg))
           sigs == mproc[c].sigtrace \ {Least(mproc[c].sigtrace)}
           Ta == check_parent(tell_tracer(S, c), c, TRUE)
           Tb == [State EXCEPT !.mproc[c].sigtrace = sigs]
           Tc == IF VfsBusy(S, c) THEN tell_parent(S, c)
                 ELSE cleanup(tell_parent(S, c), c)
           Td == [Set(S, p, {"WAITING"}) EXCEPT !.mproc[p].wpid = arg]
<1>1. Keeps(State, S)
  BY UserKeeps DEF IInv, UserStates
<1>2. stack' = stack /\ stack \in Seq(Frame)
  BY DEF do_waitpid, IInv
<1>3. Ok(State)
  BY DEF IInv
<1>4. CASE Collectable(p, arg) # {}
  <2>1. Collectable(p, arg) \in SUBSET Nat
    BY NrProcsAssumption DEF Collectable, Acceptable, Slots
  <2>2. c \in Collectable(p, arg)
    BY <1>4, <2>1, LeastOfNats
  <2>3. c \in Slots /\ c \in Used(State)
    BY <2>2, IInvFacts DEF Collectable, Acceptable
  <2>4. Becomes(Ta) \/ Becomes(Tb) \/ Becomes(Tc)
    BY <1>4 DEF do_waitpid, State
  <2>5. sigs \in SUBSET Signals
    BY <2>3, IInvFacts DEF Proc
  <2> HIDE DEF S, c, sigs
  <2>6. Ok(Ta)
    BY <1>1, <2>3, TellTracerKeeps, CheckParentOk, KeepsOk
  <2>7. Ok(Tb)
    BY <1>3, <2>3, <2>5, SigtraceKeeps, KeepsOk
  <2>8. Ok(Tc)
    BY <1>1, <2>3, TellParentKeeps, CleanupOk, KeepsOk
  <2> HIDE DEF Ta, Tb, Tc
  <2> QED
    BY <1>2, <2>4, <2>6, <2>7, <2>8, BecomesOk DEF IInv
<1>5. CASE Collectable(p, arg) = {}
  <2>1. Becomes(Td)
    BY <1>5 DEF do_waitpid
  <2> HIDE DEF S
  <2>2. Ok(Td)
    BY <1>1, SetKeeps, WpidKeeps, KeepsOk DEF Flags
  <2> HIDE DEF Td
  <2> QED
    BY <1>2, <2>1, <2>2, BecomesOk DEF IInv
<1> QED
  BY <1>4, <1>5

\* The arguments a process gives to waitpid are well typed.
LEMMA WaitArgsType ==
    ASSUME IInv, NEW p \in Slots, NEW arg \in WaitArgsOf(p)
    PROVE  arg \in WaitArgs
<1>1. \A c \in Acceptable(p, AnyChild) :
         mproc[c].pid \in Pids \cup {NoPid} /\ mproc[c].grp \in Pids \cup {NoPid}
  BY IInvFacts DEF Acceptable, Proc
<1> QED
  BY <1>1, AnyChildType DEF WaitArgsOf, WaitArgs

\* A handler that rewrites one slot's other fields and nothing else.
LEMMA FieldStep ==
    ASSUME IInv, NEW p \in Slots, NEW r \in Proc,
           r.flags = mproc[p].flags, r.vfs = mproc[p].vfs,
           mproc' = [mproc EXCEPT ![p] = r],
           UNCHANGED <<procs_in_use, stack, fault>>
    PROVE  IInv'
<1>1. Ok(Upd(State, p, r))
  BY FieldKeeps, KeepsOk DEF IInv, State
<1>2. Becomes(Upd(State, p, r))
  BY DEF Becomes, Upd, State
<1> QED
  BY <1>1, <1>2, BecomesOk DEF IInv

\* setuid preserves IInv.
LEMMA SetUidStep ==
    ASSUME IInv, NEW p \in Slots, NEW uid \in Uids, SetUid(p, uid)
    PROVE  IInv'
<1> DEFINE r == [mproc[p] EXCEPT !.uid = uid]
<1>1. r \in Proc /\ r.flags = mproc[p].flags /\ r.vfs = mproc[p].vfs
  BY IInvFacts DEF Proc
<1>2. mproc' = [mproc EXCEPT ![p] = r] /\ UNCHANGED <<procs_in_use, stack, fault>>
  BY DEF SetUid
<1> HIDE DEF r
<1> QED
  BY <1>1, <1>2, FieldStep

\* setsid preserves IInv.
LEMMA SetsidStep ==
    ASSUME IInv, NEW p \in Slots, Setsid(p)
    PROVE  IInv'
<1> DEFINE r == [mproc[p] EXCEPT !.grp = mproc[p].pid]
<1>1. r \in Proc /\ r.flags = mproc[p].flags /\ r.vfs = mproc[p].vfs
  BY IInvFacts DEF Proc
<1>2. mproc' = [mproc EXCEPT ![p] = r] /\ UNCHANGED <<procs_in_use, stack, fault>>
  BY DEF Setsid
<1> HIDE DEF r
<1> QED
  BY <1>1, <1>2, FieldStep

\* ptrace(T_ATTACH) preserves IInv.
LEMMA AttachStep ==
    ASSUME IInv, NEW t \in Slots, NEW c \in Slots, NEW tracefork \in TraceForks,
           Attach(t, c, tracefork)
    PROVE  IInv'
<1> DEFINE r1 == [State.mproc[c] EXCEPT !.tracer = t]
           T1 == Upd(State, c, r1)
           r2 == [T1.mproc[c] EXCEPT !.tracefork = tracefork]
           T2 == Upd(T1, c, r2)
<1>1. Ok(State) /\ State.mproc[c] \in Proc
  BY DEF IInv, Ok, StateT
<1>2. tracefork \in BOOLEAN
  BY SwitchAssumption
<1>3. r1 \in Proc /\ r1.flags = State.mproc[c].flags /\ r1.vfs = State.mproc[c].vfs
  BY <1>1 DEF Proc
<1>4. Becomes(sig_proc(T2, c, SIGSTOP)) /\ stack' = stack
  BY DEF Attach, Upd
<1> HIDE DEF r1
<1>5. Ok(T1)
  BY <1>1, <1>3, FieldKeeps, KeepsOk
<1> HIDE DEF T1
<1>6. r2 \in Proc /\ r2.flags = T1.mproc[c].flags /\ r2.vfs = T1.mproc[c].vfs
  <2>1. T1.mproc[c] \in Proc
    BY <1>5 DEF Ok, StateT
  <2> QED
    BY <1>2, <2>1 DEF Proc
<1> HIDE DEF r2
<1>7. Ok(T2)
  BY <1>5, <1>6, FieldKeeps, KeepsOk
<1> HIDE DEF T2
<1> QED
  BY <1>4, <1>7, SigProcKeeps, KeepsOk, BecomesOk DEF IInv, Signals

\* ptrace(T_RESUME) preserves IInv.
LEMMA ResumeStep ==
    ASSUME IInv, NEW t \in Slots, NEW c \in Slots, Resume(t, c)
    PROVE  IInv'
<1>1. Ok(Clear(State, c, {"TRACE_STOPPED"}))
  BY ClearKeeps, KeepsOk DEF IInv
<1> QED
  BY <1>1, BecomesOk DEF Resume, IInv

\* ptrace(T_EXIT) preserves IInv.
LEMMA TraceExitStep ==
    ASSUME IInv, NEW t \in Slots, NEW c \in Slots, TraceExit(t, c)
    PROVE  IInv'
<1> DEFINE S == [Set(State, c, {"TRACE_EXIT"}) EXCEPT !.mproc[t].user = "ptrace"]
<1>1. Keeps(State, S)
  BY SetKeeps, UserKeeps, KeepsOk, KeepsTrans DEF IInv, Flags, UserStates
<1>2. c \in Used(State)
  BY IInvFacts DEF TraceExit
<1>3. \/ Becomes(S) /\ stack' = stack
      \/ /\ Becomes(exit_proc(S, c, FALSE))
         /\ stack' = PushExit(S, stack, c, mproc[t].grp)
  BY DEF TraceExit
<1> HIDE DEF S
<1>4. Ok(S) /\ Ok(exit_proc(S, c, FALSE))
  BY <1>1, <1>2, ExitProcKeeps, KeepsOk
<1>5. PushExit(S, stack, c, mproc[t].grp) \in Seq(Frame)
  BY <1>4, IInvFacts, PushExitType
<1> QED
  BY <1>3, <1>4, <1>5, BecomesOk DEF IInv

\* The slots PM fills at boot are well formed.
LEMMA BootType ==
    ASSUME NEW s \in SystemSlots
    PROVE  Boot(s) \in Proc /\ "IN_USE" \in Boot(s).flags /\ Boot(s).vfs = "none"
<1>1. s \in Slots /\ s + 1 \in Pids
  BY NrProcsAssumption, MaxPidAssumption
     DEF SystemSlots, PM_PROC_NR, INIT_PROC_NR, RS_PROC_NR, Slots, Pids
<1>2. PM_PROC_NR \in Slots /\ INIT_PROC_NR \in Slots /\ RS_PROC_NR \in Slots
  BY NrProcsAssumption DEF PM_PROC_NR, INIT_PROC_NR, RS_PROC_NR, Slots
<1> QED
  BY <1>1, <1>2, AnyChildType, UidsAssumption
     DEF Boot, FreeSlot, Proc, Flags, VfsCalls, UserStates

\* IInv holds at boot.
LEMMA InitOk == Init => IInv
<1> SUFFICES ASSUME Init PROVE IInv
  OBVIOUS
<1>1. FreeSlot \in Proc /\ FreeSlot.flags = {} /\ FreeSlot.vfs = "none"
  BY AnyChildType, UidsAssumption, NrProcsAssumption
     DEF FreeSlot, Proc, PM_PROC_NR, Slots, VfsCalls, UserStates
<1>2. mproc \in [Slots -> Proc]
  BY <1>1, BootType DEF Init
<1>3. SystemSlots \in SUBSET Slots
  BY NrProcsAssumption DEF SystemSlots, PM_PROC_NR, INIT_PROC_NR, RS_PROC_NR, Slots
<1>4. Used(State) = SystemSlots
  BY <1>1, <1>3, BootType DEF Used, State, Init
<1>5. SystemSlots = ({0} \cup {1}) \cup {2}
  BY DEF SystemSlots, PM_PROC_NR, INIT_PROC_NR, RS_PROC_NR
<1>6. Cardinality(SystemSlots) = 3
  <2> DEFINE A == {0}
             B == A \cup {1}
  <2>1. IsFiniteSet(A) /\ Cardinality(A) = 1
    BY FS_Singleton
  <2>2. 1 \notin A /\ 2 \notin B
    OBVIOUS
  <2> HIDE DEF A
  <2>3. IsFiniteSet(B) /\ Cardinality(B) = 2
    BY <2>1, <2>2, FS_AddElement
  <2> HIDE DEF B
  <2>4. Cardinality(B \cup {2}) = 3
    BY <2>2, <2>3, FS_AddElement
  <2> QED
    BY <1>5, <2>4 DEF A, B
<1>7. \A s \in Slots : mproc[s].vfs = "none"
  BY <1>1, BootType DEF Init
<1>8. State \in StateT
  BY <1>2 DEF State, StateT, Init, Faults
<1>9. State.used = 3 /\ State.mproc = mproc
  BY DEF State, Init
<1>10. stack \in Seq(Frame)
  BY DEF Init
<1> QED
  BY <1>4, <1>6, <1>7, <1>8, <1>9, <1>10 DEF IInv, Ok

\* Every step of PM preserves IInv.
LEMMA NextOk ==
    ASSUME IInv, [Next]_vars
    PROVE  IInv'
<1>1. CASE Loop
  BY <1>1, LoopTracerDiedStep, LoopDisinheritStep, LoopEndStep, LoopHangupStep DEF Loop
<1>2. ASSUME NEW p \in Slots,
             \/ do_fork(p) \/ do_exit(p) \/ KernelKill(p) \/ VfsReply(p)
             \/ \E arg \in WaitArgsOf(p) : do_waitpid(p, arg)
             \/ \E uid \in Uids : SetUid(p, uid)
             \/ Setsid(p)
      PROVE  IInv'
  BY <1>2, ForkStep, ExitStep, KernelKillStep, VfsReplyStep, WaitArgsType,
     WaitpidStep, SetUidStep, SetsidStep
<1>3. ASSUME NEW uid \in Uids, do_srv_fork(uid) PROVE IInv'
  BY <1>3, SrvForkStep
<1>4. ASSUME NEW p \in Slots, NEW c \in Slots,
             \/ \E sig \in KillSignals : Kill(p, c, sig)
             \/ \E tracefork \in TraceForks : Attach(p, c, tracefork)
             \/ Resume(p, c)
             \/ TraceExit(p, c)
      PROVE  IInv'
  BY <1>4, KillStep, AttachStep, ResumeStep, TraceExitStep
<1>5. CASE UNCHANGED vars
  BY <1>5, UnchangedOk DEF vars, IInv
<1> QED
  BY <1>1, <1>2, <1>3, <1>4, <1>5 DEF Next

\* IInv is an invariant of the process manager.
THEOREM Invariance == Spec => []IInv
<1>1. Init => IInv
  BY InitOk
<1>2. IInv /\ [Next]_vars => IInv'
  BY NextOk
<1> QED
  BY <1>1, <1>2, PTL DEF Spec

\* Type correctness: whatever the size of the table and whatever calls the
\* processes make, every field of the process table, and every frame of
\* exit_proc, keeps its type.
THEOREM TypeCorrect == Spec => []TypeOK
<1>1. IInv => TypeOK
  BY DEF IInv, Ok, StateT, State, TypeOK
<1> QED
  BY <1>1, Invariance, PTL

\* procs_in_use is exact in every reachable state: do_fork's test of it before
\* the slot search is as good as counting the slots, for every table size and
\* every interleaving of exits, kills, waits, tracer deaths and VFS answers.
THEOREM CountCorrect == Spec => []CountIsExact
<1>1. IInv => CountIsExact
  BY DEF IInv, Ok, State, CountIsExact, Used, InUse
<1> QED
  BY <1>1, Invariance, PTL

-----------------------------------------------------------------------------
(* The families.  One invariant gives the three properties.  exit_proc     *)
(* makes it false for its children and tracees and repairs it one slot per *)
(* iteration: until then the frame of the loop excuses them.               *)

\* A frame of exit_proc for p has yet to come to slot s.
Excused(stk, p, s) ==
    \E i \in DOMAIN stk : stk[i].p = p /\ ~stk[i].hup /\ stk[i].k <= s

\* The slots of PM, INIT and RS: they never exit, are never traced and in no group.
SystemOk(s, r) ==
    /\ "IN_USE" \in r.flags /\ "EXITING" \notin r.flags
    /\ r.vfs = "none" /\ r.tracer = NO_SLOT /\ r.grp = NoPid /\ r.user # "exit"
    /\ s = PM_PROC_NR => r.user = "none"
    /\ (s = INIT_PROC_NR) <=> ("PRIV_PROC" \notin r.flags)

\* What a slot looks like by itself: the flags agree with what the process is
\* blocked in and with the request VFS has, and death has its stages in order.
SlotOk(s, r) ==
    /\ "IN_USE" \in r.flags \/ r = FreeSlot
    /\ "WAITING" \in r.flags <=> r.user = "wait"
    /\ "EXITING" \in r.flags => r.user = "dead" /\ r.vfs \in {"none", "exit", "core"}
    /\ r.user = "dead" => "EXITING" \in r.flags \/ s = INIT_PROC_NR
    /\ r.vfs \in {"exit", "core"} => "EXITING" \in r.flags
    /\ r.vfs = "fork" <=> r.user = "born"
    /\ r.vfs = "srv_fork" => "PRIV_PROC" \in r.flags
    /\ "ZOMBIE" \in r.flags \/ "TRACE_ZOMBIE" \in r.flags \/ "TOLD_PARENT" \in r.flags
         => "EXITING" \in r.flags /\ r.vfs # "core"
    /\ "ZOMBIE" \in r.flags => "TRACE_ZOMBIE" \notin r.flags /\ "TOLD_PARENT" \notin r.flags
    /\ "TRACE_ZOMBIE" \in r.flags => "TOLD_PARENT" \notin r.flags
    /\ "PRIV_PROC" \in r.flags => ~r.sched
    /\ "TRACE_EXIT" \in r.flags => r.tracer # NO_SLOT
    /\ s \in SystemSlots => SystemOk(s, r)

\* Process p, the parent or tracer of s, lives, or its exit will come to s.
There(m, stk, p, s) ==
    "IN_USE" \in m[p].flags /\ ("EXITING" \in m[p].flags => Excused(stk, p, s))

\* Everybody has a parent, and a tracer if one is named.
FamilyOk(m, stk) ==
    \A s \in Slots : "IN_USE" \in m[s].flags =>
      /\ There(m, stk, m[s].parent, s)
      /\ m[s].tracer # NO_SLOT => There(m, stk, m[s].tracer, s)

\* A child whose parent waits in fork for VFS to answer.
Forking(r) == r.vfs = "fork" /\ "NEW_PARENT" \notin r.flags

\* The parent does wait, for this child alone.
ForksOk(m, stk) ==
    \A s \in Slots : Forking(m[s]) =>
      /\ m[m[s].parent].user = "fork" \/ Excused(stk, m[s].parent, s)
      /\ \A t \in Slots : Forking(m[t]) /\ m[t].parent = m[s].parent => t = s

\* A tracee whose exit its tracer waits for in ptrace(T_EXIT).
Leaving(r) == "TRACE_EXIT" \in r.flags /\ (r.vfs # "none" \/ "EXITING" \notin r.flags)

\* The tracer does wait, for this tracee alone.
TracesOk(m, stk) ==
    \A s \in Slots : Leaving(m[s]) =>
      /\ m[m[s].tracer].user = "ptrace" \/ Excused(stk, m[s].tracer, s)
      /\ \A t \in Slots : Leaving(m[t]) /\ m[t].tracer = m[s].tracer => t = s

\* A process whose exit_proc has not returned keeps its slot, as VFS has not
\* answered; only session leaders of a group hang up.
FramesOk(m, stk) ==
    \A i \in DOMAIN stk :
      /\ "EXITING" \in m[stk[i].p].flags /\ m[stk[i].p].vfs # "none"
      /\ stk[i].hup => stk[i].pg # NoPid

\* The invariant.  Slot x, if any, is the one that the handler in progress is about
\* to release although its parent was told.
Fine(S, stk, x) ==
    /\ S \in StateT /\ S.fault = "none" /\ stk \in Seq(Frame)
    /\ \A s \in Slots : SlotOk(s, S.mproc[s])
    /\ \A s \in Slots : s # x /\ "TOLD_PARENT" \in S.mproc[s].flags => S.mproc[s].vfs # "none"
    /\ FamilyOk(S.mproc, stk) /\ ForksOk(S.mproc, stk)
    /\ TracesOk(S.mproc, stk) /\ FramesOk(S.mproc, stk)

-----------------------------------------------------------------------------
(* Steps that change nothing between two processes.                          *)

\* A slot changes in nothing that other slots rely on.
Quiet(r, q) ==
    /\ q.parent = r.parent /\ q.tracer = r.tracer /\ q.vfs = r.vfs
    /\ "IN_USE" \in q.flags <=> "IN_USE" \in r.flags
    /\ "EXITING" \in q.flags <=> "EXITING" \in r.flags
    /\ "NEW_PARENT" \in q.flags <=> "NEW_PARENT" \in r.flags
    /\ "TRACE_EXIT" \in q.flags <=> "TRACE_EXIT" \in r.flags
    /\ q.user = r.user \/ r.user \notin {"fork", "ptrace"}

Calm(S, T) == \A s \in Slots : Quiet(S.mproc[s], T.mproc[s])

\* Overwriting one slot.
LEMMA UpdFacts ==
    ASSUME NEW S \in StateT, NEW s \in Slots, NEW r \in Proc
    PROVE  /\ Upd(S, s, r) \in StateT
           /\ Upd(S, s, r).fault = S.fault
           /\ Upd(S, s, r).mproc[s] = r
           /\ \A t \in Slots : t # s => Upd(S, s, r).mproc[t] = S.mproc[t]
  BY DEF Upd, StateT

\* What is in a slot.
LEMMA SlotFacts ==
    ASSUME NEW S \in StateT, NEW s \in Slots
    PROVE  /\ S.mproc[s] \in Proc
           /\ S.mproc[s].parent \in Slots
           /\ S.mproc[s].tracer # NO_SLOT => S.mproc[s].tracer \in Slots
           /\ S.mproc[s].flags \in SUBSET Flags
<1>1. S.mproc[s] \in Proc
  BY DEF StateT
<1> QED
  BY <1>1 DEF Proc

\* What is in a stack of frames.
LEMMA FrameType ==
    ASSUME NEW stk \in Seq(Frame), NEW i \in DOMAIN stk
    PROVE  stk[i] \in Frame /\ stk[i].p \in Slots /\ stk[i].k \in Nat
<1>1. stk[i] \in Frame
  OBVIOUS
<1> QED
  BY <1>1 DEF Frame

\* A calm step leaves the families as they are.
LEMMA CalmFine ==
    ASSUME NEW S, NEW T, NEW stk, NEW x, Fine(S, stk, x), Calm(S, T), T \in StateT,
           T.fault = "none",
           \A s \in Slots : SlotOk(s, T.mproc[s]),
           \A s \in Slots : s # x /\ "TOLD_PARENT" \in T.mproc[s].flags => T.mproc[s].vfs # "none"
    PROVE  Fine(T, stk, x)
<1> DEFINE m == S.mproc
           n == T.mproc
<1>1. \A s \in Slots : /\ m[s].parent \in Slots
                       /\ m[s].tracer # NO_SLOT => m[s].tracer \in Slots
  BY SlotFacts DEF Fine
<1>2. \A s \in Slots : Quiet(m[s], n[s])
  BY DEF Calm
<1>3. \A p, s \in Slots : There(m, stk, p, s) => There(n, stk, p, s)
  BY <1>2 DEF There, Quiet
<1>4. FamilyOk(m, stk) /\ ForksOk(m, stk) /\ TracesOk(m, stk) /\ FramesOk(m, stk)
      /\ stk \in Seq(Frame) /\ (\A s \in Slots : SlotOk(s, m[s]))
  BY DEF Fine
<1> HIDE DEF m, n
<1>5. FamilyOk(n, stk)
  BY <1>1, <1>2, <1>3, <1>4 DEF FamilyOk, Quiet
<1>6. ForksOk(n, stk)
  <2>1. \A s \in Slots : Forking(n[s]) => Forking(m[s]) /\ n[s].parent = m[s].parent
    BY <1>2 DEF Forking, Quiet
  <2>2. \A s \in Slots : m[s].user = "fork" => n[s].user = "fork"
    BY <1>2 DEF Quiet
  <2> QED
    BY <1>1, <1>4, <2>1, <2>2 DEF ForksOk
<1>7. TracesOk(n, stk)
  <2>1. \A s \in Slots : Leaving(n[s]) => /\ Leaving(m[s]) /\ n[s].tracer = m[s].tracer
                                          /\ m[s].tracer # NO_SLOT
    BY <1>2, <1>4 DEF Leaving, Quiet, SlotOk
  <2>2. \A s \in Slots : m[s].user = "ptrace" => n[s].user = "ptrace"
    BY <1>2 DEF Quiet
  <2> QED
    BY <1>1, <1>4, <2>1, <2>2 DEF TracesOk
<1>8. FramesOk(n, stk)
  <2>1. \A i \in DOMAIN stk : stk[i].p \in Slots
    BY <1>4, FrameType
  <2> QED
    BY <1>2, <1>4, <2>1 DEF FramesOk, Quiet
<1> QED
  BY <1>4, <1>5, <1>6, <1>7, <1>8 DEF Fine, n

\* One slot changes quietly.
LEMMA QuietUpd ==
    ASSUME NEW S, NEW stk, NEW x, Fine(S, stk, x), NEW s \in Slots, NEW r \in Proc,
           Quiet(S.mproc[s], r), SlotOk(s, r),
           s # x /\ "TOLD_PARENT" \in r.flags => r.vfs # "none"
    PROVE  Fine(Upd(S, s, r), stk, x) /\ Calm(S, Upd(S, s, r))
<1> DEFINE T == Upd(S, s, r)
<1>1. /\ S \in StateT /\ S.fault = "none"
      /\ \A t \in Slots : SlotOk(t, S.mproc[t])
      /\ \A t \in Slots : t # x /\ "TOLD_PARENT" \in S.mproc[t].flags => S.mproc[t].vfs # "none"
  BY DEF Fine
<1>2. /\ T \in StateT /\ T.fault = "none" /\ T.mproc[s] = r
      /\ \A t \in Slots : t # s => T.mproc[t] = S.mproc[t]
  <2>1. S \in StateT /\ S.fault = "none"
    BY <1>1
  <2> QED
    BY <2>1, UpdFacts
<1> HIDE DEF T
<1>3. Calm(S, T)
  BY <1>2 DEF Calm, Quiet
<1>4. \A t \in Slots : SlotOk(t, T.mproc[t])
  BY <1>1, <1>2
<1>5. \A t \in Slots : t # x /\ "TOLD_PARENT" \in T.mproc[t].flags => T.mproc[t].vfs # "none"
  BY <1>1, <1>2
<1> QED
  BY <1>2, <1>3, <1>4, <1>5, CalmFine DEF T

\* Calm steps one after the other.
LEMMA CalmTrans ==
    ASSUME NEW S, NEW T, NEW U, Calm(S, T), Calm(T, U)
    PROVE  Calm(S, U)
  BY DEF Calm, Quiet

-----------------------------------------------------------------------------
(* Waking, signalling and reporting a death.                                 *)

\* A slot after its waitpid was answered; after its death was told to the
\* parent, or to the tracer.
Woken(r) == [r EXCEPT !.user = "run", !.flags = @ \ {"WAITING"}, !.wpid = AnyChild]
Collected(r) == [r EXCEPT !.flags = (@ \ {"ZOMBIE"}) \cup {"TOLD_PARENT"}]
Surrendered(r) == [r EXCEPT !.flags = (@ \ {"TRACE_ZOMBIE"}) \cup {"ZOMBIE"}]

\* The fields of such slots.
LEMMA WokenFacts ==
    ASSUME NEW r \in Proc
    PROVE  /\ Woken(r) \in Proc
           /\ Woken(r).user = "run" /\ Woken(r).flags = r.flags \ {"WAITING"}
           /\ Woken(r).parent = r.parent /\ Woken(r).tracer = r.tracer /\ Woken(r).vfs = r.vfs
           /\ Woken(r).sched = r.sched /\ Woken(r).grp = r.grp
  BY AnyChildType DEF Woken, Proc, UserStates

\* The same for flags that are changed.
LEMMA FlagFacts ==
    ASSUME NEW r \in Proc, NEW fs \in SUBSET Flags
    PROVE  LET q == [r EXCEPT !.flags = fs]
           IN  /\ q \in Proc /\ q.flags = fs
               /\ q.parent = r.parent /\ q.tracer = r.tracer /\ q.vfs = r.vfs /\ q.user = r.user
               /\ q.sched = r.sched /\ q.grp = r.grp
  BY DEF Proc

\* A process that waits, or that asks and is answered at once, is awake.
LEMMA WokenFine ==
    ASSUME NEW S, NEW stk, NEW x, Fine(S, stk, x), NEW p \in Slots,
           S.mproc[p].user \in {"run", "wait"}
    PROVE  LET T == Upd(S, p, Woken(S.mproc[p]))
           IN  Fine(T, stk, x) /\ Calm(S, T)
<1> DEFINE r == S.mproc[p]
           q == Woken(r)
<1>1. S \in StateT /\ SlotOk(p, r) /\ (p # x /\ "TOLD_PARENT" \in r.flags => r.vfs # "none")
  BY DEF Fine
<1>2. r \in Proc
  BY <1>1, SlotFacts
<1>3. /\ q \in Proc /\ q.user = "run" /\ q.flags = r.flags \ {"WAITING"}
      /\ q.parent = r.parent /\ q.tracer = r.tracer /\ q.vfs = r.vfs
      /\ q.sched = r.sched /\ q.grp = r.grp
  BY <1>2, WokenFacts
<1>4. "IN_USE" \in r.flags /\ p # PM_PROC_NR
  BY <1>1 DEF SlotOk, SystemOk, FreeSlot, SystemSlots
<1> HIDE DEF q
<1>5. Quiet(r, q)
  BY <1>3 DEF Quiet
<1>6. SlotOk(p, q)
  BY <1>1, <1>3, <1>4 DEF SlotOk, SystemOk
<1> QED
  BY <1>1, <1>3, <1>5, <1>6, QuietUpd DEF q

\* Overwriting a slot twice.
LEMMA UpdTwice ==
    ASSUME NEW S \in StateT, NEW s \in Slots, NEW r \in Proc, NEW q \in Proc
    PROVE  Upd(Upd(S, s, r), s, q) = Upd(S, s, q)
  BY DEF Upd, StateT

\* What a reply to waitpid does, if somebody waits.
LEMMA WakeIs ==
    ASSUME NEW S \in StateT, NEW p \in Slots, S.mproc[p].user = "wait"
    PROVE  Wake(S, p) = Upd(S, p, Woken(S.mproc[p]))
<1> DEFINE r == S.mproc[p]
           r1 == [r EXCEPT !.user = "run"]
           r2 == [r1 EXCEPT !.flags = @ \ {"WAITING"}]
           r3 == [r2 EXCEPT !.wpid = AnyChild]
<1>1. r \in Proc
  BY SlotFacts
<1>2. r1 \in Proc /\ r2 \in Proc /\ r3 \in Proc
  BY <1>1, AnyChildType DEF Proc, UserStates
<1>3. Wake(S, p) = Upd(Upd(Upd(S, p, r1), p, r2), p, r3)
  <2>1. Reply(S, p, "wait") = Upd(S, p, r1)
    BY DEF Reply, Upd
  <2>2. Clear(Upd(S, p, r1), p, {"WAITING"}) = Upd(Upd(S, p, r1), p, r2)
    <3>1. Upd(S, p, r1).mproc[p] = r1
      BY <1>2, UpdFacts
    <3> QED
      BY <3>1 DEF Clear, Upd
  <2>3. Upd(Upd(S, p, r1), p, r2).mproc[p] = r2
    BY <1>2, UpdFacts
  <2> QED
    BY <2>1, <2>2, <2>3 DEF Wake, Upd
<1>4. r3 = Woken(r)
  BY <1>1 DEF Woken, Proc
<1> HIDE DEF r, r1, r2, r3
<1> QED
  BY <1>2, <1>3, <1>4, UpdTwice, UpdFacts DEF r

\* Clearing a flag and setting another one.
LEMMA Flagged ==
    ASSUME NEW S \in StateT, NEW s \in Slots, NEW off, NEW on \in SUBSET Flags
    PROVE  Set(Clear(S, s, off), s, on) = Upd(S, s, [S.mproc[s] EXCEPT !.flags = (@ \ off) \cup on])
<1> DEFINE r == S.mproc[s]
           r1 == [r EXCEPT !.flags = @ \ off]
           r2 == [r1 EXCEPT !.flags = @ \cup on]
<1>1. r \in Proc
  BY SlotFacts
<1>2. r1 \in Proc /\ r2 \in Proc
  BY <1>1 DEF Proc
<1>3. Clear(S, s, off) = Upd(S, s, r1)
  BY DEF Clear, Upd
<1>4. Upd(S, s, r1).mproc[s] = r1
  BY <1>2, UpdFacts
<1>5. Set(Upd(S, s, r1), s, on) = Upd(Upd(S, s, r1), s, r2)
  BY <1>4 DEF Set, Upd
<1>6. r2 = [r EXCEPT !.flags = (@ \ off) \cup on]
  BY <1>1 DEF Proc
<1> HIDE DEF r, r1, r2
<1> QED
  BY <1>2, <1>3, <1>5, <1>6, UpdTwice DEF r

\* tell_parent, if the parent waits or asks.
LEMMA TellParentIs ==
    ASSUME NEW S \in StateT, NEW c \in Slots, "ZOMBIE" \in S.mproc[c].flags,
           "TOLD_PARENT" \notin S.mproc[c].flags,
           S.mproc[S.mproc[c].parent].user = "wait", S.mproc[c].parent # PM_PROC_NR,
           S.mproc[c].parent # c
    PROVE  LET p == S.mproc[c].parent
           IN  tell_parent(S, c) = Upd(Upd(S, p, Woken(S.mproc[p])), c, Collected(S.mproc[c]))
<1> DEFINE p == S.mproc[c].parent
           S1 == Upd(S, p, Woken(S.mproc[p]))
<1>1. p \in Slots /\ ~(p <= 0) /\ S.mproc[p] \in Proc
  BY SlotFacts, NrProcsAssumption DEF Slots, PM_PROC_NR
<1>2. tell_parent(S, c) = Set(Clear(S1, c, {"ZOMBIE"}), c, {"TOLD_PARENT"})
  <2>1. Wake(S, p) = S1
    BY <1>1, WakeIs
  <2> HIDE DEF S1
  <2> QED
    BY <1>1, <2>1 DEF tell_parent, Has
<1>3. S1 \in StateT /\ S1.mproc[c] = S.mproc[c]
  BY <1>1, WokenFacts, UpdFacts
<1> HIDE DEF p, S1
<1>4. Set(Clear(S1, c, {"ZOMBIE"}), c, {"TOLD_PARENT"}) = Upd(S1, c, Collected(S.mproc[c]))
  BY <1>3, Flagged DEF Collected, Flags
<1> QED
  BY <1>2, <1>4 DEF p, S1

\* tell_tracer, if the tracer waits or asks.
LEMMA TellTracerIs ==
    ASSUME NEW S \in StateT, NEW c \in Slots, "TRACE_ZOMBIE" \in S.mproc[c].flags,
           S.mproc[c].tracer \in Slots \ {PM_PROC_NR, c},
           S.mproc[S.mproc[c].tracer].user = "wait"
    PROVE  LET p == S.mproc[c].tracer
           IN  tell_tracer(S, c) = Upd(Upd(S, p, Woken(S.mproc[p])), c, Surrendered(S.mproc[c]))
<1> DEFINE p == S.mproc[c].tracer
           S1 == Upd(S, p, Woken(S.mproc[p]))
<1>1. p \in Slots /\ ~(p <= 0) /\ S.mproc[p] \in Proc
  BY SlotFacts, NrProcsAssumption DEF Slots, PM_PROC_NR
<1>2. tell_tracer(S, c) = Set(Clear(S1, c, {"TRACE_ZOMBIE"}), c, {"ZOMBIE"})
  <2>1. Wake(S, p) = S1
    BY <1>1, WakeIs
  <2> HIDE DEF S1
  <2> QED
    BY <1>1, <2>1 DEF tell_tracer, Has
<1>3. S1 \in StateT /\ S1.mproc[c] = S.mproc[c]
  BY <1>1, WokenFacts, UpdFacts
<1> HIDE DEF p, S1
<1>4. Set(Clear(S1, c, {"TRACE_ZOMBIE"}), c, {"ZOMBIE"}) = Upd(S1, c, Surrendered(S.mproc[c]))
  BY <1>3, Flagged DEF Surrendered, Flags
<1> QED
  BY <1>2, <1>4 DEF p, S1

\* A field that the invariant does not mention changes.
LEMMA FieldFine ==
    ASSUME NEW S, NEW stk, NEW x, Fine(S, stk, x), NEW s \in Slots, NEW r \in Proc,
           "IN_USE" \in S.mproc[s].flags,
           r.flags = S.mproc[s].flags, r.user = S.mproc[s].user, r.vfs = S.mproc[s].vfs,
           r.parent = S.mproc[s].parent, r.tracer = S.mproc[s].tracer,
           r.sched = S.mproc[s].sched, r.grp = S.mproc[s].grp
    PROVE  Fine(Upd(S, s, r), stk, x) /\ Calm(S, Upd(S, s, r))
<1>1. SlotOk(s, S.mproc[s])
      /\ (s # x /\ "TOLD_PARENT" \in S.mproc[s].flags => S.mproc[s].vfs # "none")
  BY DEF Fine
<1>2. Quiet(S.mproc[s], r)
  BY DEF Quiet
<1>3. SlotOk(s, r)
  BY <1>1 DEF SlotOk, SystemOk
<1> QED
  BY <1>1, <1>2, <1>3, QuietUpd

\* A process is stopped.
LEMMA StopFine ==
    ASSUME NEW S, NEW stk, NEW x, Fine(S, stk, x), NEW s \in Slots,
           "IN_USE" \in S.mproc[s].flags
    PROVE  LET T == Set(S, s, {"TRACE_STOPPED"})
           IN  Fine(T, stk, x) /\ Calm(S, T)
<1> DEFINE r == S.mproc[s]
           q == [r EXCEPT !.flags = r.flags \cup {"TRACE_STOPPED"}]
<1>1. /\ S \in StateT /\ SlotOk(s, r)
      /\ s # x /\ "TOLD_PARENT" \in r.flags => r.vfs # "none"
  BY DEF Fine
<1>2. r \in Proc /\ r.flags \cup {"TRACE_STOPPED"} \in SUBSET Flags
  BY <1>1, SlotFacts DEF Flags
<1>3. /\ q \in Proc /\ q.flags = r.flags \cup {"TRACE_STOPPED"} /\ q.user = r.user
      /\ q.parent = r.parent /\ q.tracer = r.tracer /\ q.vfs = r.vfs
      /\ q.sched = r.sched /\ q.grp = r.grp
  BY <1>2, FlagFacts
<1>4. Set(S, s, {"TRACE_STOPPED"}) = Upd(S, s, q)
  BY DEF Set, Upd
<1> HIDE DEF q
<1>5. Quiet(r, q)
  BY <1>3 DEF Quiet
<1>6. SlotOk(s, q)
  BY <1>1, <1>3 DEF SlotOk, SystemOk
<1> QED
  BY <1>1, <1>3, <1>4, <1>5, <1>6, QuietUpd

\* A waiting process is woken.
LEMMA WakeFine ==
    ASSUME NEW S, NEW stk, NEW x, Fine(S, stk, x), NEW p \in Slots,
           "WAITING" \in S.mproc[p].flags
    PROVE  Fine(Wake(S, p), stk, x) /\ Calm(S, Wake(S, p))
<1>1. S \in StateT /\ S.mproc[p].user = "wait"
  BY DEF Fine, SlotOk
<1>2. Wake(S, p) = Upd(S, p, Woken(S.mproc[p]))
  BY <1>1, WakeIs
<1> QED
  BY <1>1, <1>2, WokenFine

\* A signal for a live process disturbs nobody; if it is traced, it stops.
LEMMA SigProcFine ==
    ASSUME NEW S, NEW stk, NEW x, Fine(S, stk, x), NEW s \in Slots, NEW sig \in Signals,
           Live(S, s)
    PROVE  Fine(sig_proc(S, s, sig), stk, x) /\ Calm(S, sig_proc(S, s, sig))
<1> DEFINE r == S.mproc[s]
           t == r.tracer
           r1 == [r EXCEPT !.sigtrace = r.sigtrace \cup {sig}]
           r2 == [r EXCEPT !.sigs = r.sigs \cup {sig}]
           S1 == Upd(S, s, r1)
           S2 == Upd(S, s, r2)
<1>1. S \in StateT /\ "IN_USE" \in r.flags /\ r \in Proc
  BY SlotFacts DEF Fine, Live, Has
<1>2. /\ r1 \in Proc /\ r1.flags = r.flags /\ r1.user = r.user /\ r1.vfs = r.vfs
      /\ r1.parent = r.parent /\ r1.tracer = r.tracer /\ r1.sched = r.sched /\ r1.grp = r.grp
  BY <1>1 DEF Proc
<1>3. /\ r2 \in Proc /\ r2.flags = r.flags /\ r2.user = r.user /\ r2.vfs = r.vfs
      /\ r2.parent = r.parent /\ r2.tracer = r.tracer /\ r2.sched = r.sched /\ r2.grp = r.grp
  BY <1>1 DEF Proc
<1>4. [S EXCEPT !.mproc[s].sigtrace = @ \cup {sig}] = S1
      /\ [S EXCEPT !.mproc[s].sigs = @ \cup {sig}] = S2
  BY DEF Upd
<1> HIDE DEF r1, r2
<1>5. Fine(S1, stk, x) /\ Calm(S, S1) /\ Fine(S2, stk, x) /\ Calm(S, S2)
  BY <1>1, <1>2, <1>3, FieldFine
<1> HIDE DEF S1, S2
<1>6. Fine(S, stk, x) /\ Calm(S, S)
  BY DEF Calm, Quiet
<1>7. ASSUME ToTracer(S, s, sig)
      PROVE  Fine(TraceStop(S, s, sig), stk, x) /\ Calm(S, TraceStop(S, s, sig))
  <2>1. t \in Slots
    BY <1>1, <1>7, SlotFacts DEF ToTracer
  <2>2. LET T == Set(S1, s, {"TRACE_STOPPED"}) IN Fine(T, stk, x) /\ Calm(S, T)
    <3>1. "IN_USE" \in S1.mproc[s].flags
      BY <1>1, <1>5 DEF Calm, Quiet
    <3> QED
      BY <1>5, <3>1, StopFine, CalmTrans
  <2>3. ASSUME wait_test(S, t, s)
        PROVE  LET T == Set(Wake(S, t), s, {"TRACE_STOPPED"}) IN Fine(T, stk, x) /\ Calm(S, T)
    <3>1. Fine(Wake(S, t), stk, x) /\ Calm(S, Wake(S, t))
      BY <2>1, <2>3, WakeFine DEF wait_test, Has
    <3>2. "IN_USE" \in Wake(S, t).mproc[s].flags
      BY <1>1, <3>1 DEF Calm, Quiet
    <3> QED
      BY <3>1, <3>2, StopFine, CalmTrans
  <2> QED
    BY <1>4, <1>5, <2>2, <2>3 DEF TraceStop
<1> QED
  BY <1>4, <1>5, <1>6, <1>7 DEF sig_proc

\* A dead process is told to the parent that waits or asks for it: it stays until
\* VFS has answered, or until the handler releases it.
LEMMA CollectedFine ==
    ASSUME NEW S, NEW stk, NEW x, Fine(S, stk, x), NEW c \in Slots,
           "ZOMBIE" \in S.mproc[c].flags, S.mproc[c].vfs # "none" \/ c = x,
           NEW p \in Slots, S.mproc[p].user \in {"run", "wait"}
    PROVE  LET T == Upd(Upd(S, p, Woken(S.mproc[p])), c, Collected(S.mproc[c]))
           IN  p # c /\ Fine(T, stk, x) /\ Calm(S, T)
<1> DEFINE S1 == Upd(S, p, Woken(S.mproc[p]))
           r == S.mproc[c]
           q == Collected(r)
           fs == (r.flags \ {"ZOMBIE"}) \cup {"TOLD_PARENT"}
<1>1. S \in StateT /\ SlotOk(c, r) /\ S.mproc[p] \in Proc
  BY SlotFacts DEF Fine
<1>2. p # c /\ "IN_USE" \in r.flags /\ "EXITING" \in r.flags
  BY <1>1 DEF SlotOk, FreeSlot
<1>3. Fine(S1, stk, x) /\ Calm(S, S1)
  BY WokenFine
<1>4. S1.mproc[c] = r
  BY <1>1, <1>2, UpdFacts, WokenFacts
<1> HIDE DEF S1
<1>5. r \in Proc /\ fs \in SUBSET Flags
  BY <1>1, SlotFacts DEF Flags
<1>6. /\ q \in Proc /\ q.flags = fs /\ q.user = r.user
      /\ q.parent = r.parent /\ q.tracer = r.tracer /\ q.vfs = r.vfs
      /\ q.sched = r.sched /\ q.grp = r.grp
  BY <1>5, FlagFacts DEF Collected
<1> HIDE DEF q
<1>7. Quiet(r, q)
  BY <1>6 DEF Quiet
<1>8. SlotOk(c, q)
  BY <1>1, <1>2, <1>6 DEF SlotOk, SystemOk
<1>9. Fine(Upd(S1, c, q), stk, x) /\ Calm(S1, Upd(S1, c, q))
  BY <1>3, <1>4, <1>6, <1>7, <1>8, QuietUpd
<1> QED
  BY <1>2, <1>3, <1>9, CalmTrans DEF S1, q

\* A dead tracee is told to the tracer that waits or asks for it.
LEMMA SurrenderedFine ==
    ASSUME NEW S, NEW stk, NEW x, Fine(S, stk, x), NEW c \in Slots,
           "TRACE_ZOMBIE" \in S.mproc[c].flags,
           NEW p \in Slots, S.mproc[p].user \in {"run", "wait"}
    PROVE  LET T == Upd(Upd(S, p, Woken(S.mproc[p])), c, Surrendered(S.mproc[c]))
           IN  p # c /\ Fine(T, stk, x) /\ Calm(S, T) /\ "ZOMBIE" \in T.mproc[c].flags
<1> DEFINE S1 == Upd(S, p, Woken(S.mproc[p]))
           r == S.mproc[c]
           q == Surrendered(r)
           fs == (r.flags \ {"TRACE_ZOMBIE"}) \cup {"ZOMBIE"}
<1>1. S \in StateT /\ SlotOk(c, r) /\ S.mproc[p] \in Proc
  BY SlotFacts DEF Fine
<1>2. p # c /\ "IN_USE" \in r.flags /\ "EXITING" \in r.flags
  BY <1>1 DEF SlotOk, FreeSlot
<1>3. Fine(S1, stk, x) /\ Calm(S, S1)
  BY WokenFine
<1>4. S1.mproc[c] = r
  BY <1>1, <1>2, UpdFacts, WokenFacts
<1> HIDE DEF S1
<1>5. r \in Proc /\ fs \in SUBSET Flags
  BY <1>1, SlotFacts DEF Flags
<1>6. /\ q \in Proc /\ q.flags = fs /\ q.user = r.user
      /\ q.parent = r.parent /\ q.tracer = r.tracer /\ q.vfs = r.vfs
      /\ q.sched = r.sched /\ q.grp = r.grp
  BY <1>5, FlagFacts DEF Surrendered
<1> HIDE DEF q
<1>7. Quiet(r, q)
  BY <1>6 DEF Quiet
<1>8. SlotOk(c, q) /\ "TOLD_PARENT" \notin q.flags
  BY <1>1, <1>2, <1>6 DEF SlotOk, SystemOk
<1>9. Fine(Upd(S1, c, q), stk, x) /\ Calm(S1, Upd(S1, c, q))
  BY <1>3, <1>4, <1>6, <1>7, <1>8, QuietUpd
<1>10. Upd(S1, c, q).mproc[c] = q
  BY <1>3, <1>6, UpdFacts DEF Fine
<1> QED
  BY <1>2, <1>3, <1>6, <1>9, <1>10, CalmTrans DEF S1, q

\* Nobody but a frame knows a process that has exited, so its slot can go.
LEMMA CleanupFine ==
    ASSUME NEW S, NEW stk, NEW x, Fine(S, stk, x), NEW c \in Slots, x \in {c, NO_SLOT},
           "EXITING" \in S.mproc[c].flags, S.mproc[c].vfs = "none"
    PROVE  Fine(cleanup(S, c), stk, NO_SLOT)
<1> DEFINE T == cleanup(S, c)
           m == S.mproc
           n == T.mproc
<1>1. /\ S \in StateT /\ S.fault = "none" /\ stk \in Seq(Frame)
      /\ \A s \in Slots : SlotOk(s, m[s])
      /\ \A s \in Slots : s # x /\ "TOLD_PARENT" \in m[s].flags => m[s].vfs # "none"
      /\ FamilyOk(m, stk) /\ ForksOk(m, stk) /\ TracesOk(m, stk) /\ FramesOk(m, stk)
  BY DEF Fine
<1>2. FreeSlot \in Proc /\ FreeSlot.flags = {} /\ FreeSlot.vfs = "none"
  BY AnyChildType, UidsAssumption, NrProcsAssumption
     DEF FreeSlot, Proc, PM_PROC_NR, Slots, VfsCalls, UserStates
<1>3. /\ T \in StateT /\ T.fault = "none" /\ n[c] = FreeSlot
      /\ \A s \in Slots : s # c => n[s] = m[s]
  <2> DEFINE S1 == Upd(S, c, FreeSlot)
  <2>1. S \in StateT /\ S.fault = "none"
    BY <1>1
  <2>2. /\ S1 \in StateT /\ S1.fault = "none" /\ S1.mproc[c] = FreeSlot
        /\ \A s \in Slots : s # c => S1.mproc[s] = m[s]
    BY <1>2, <2>1, UpdFacts
  <2>3. T = [S1 EXCEPT !.used = @ - 1]
    BY DEF cleanup, Upd
  <2> HIDE DEF S1
  <2>4. T \in StateT /\ T.fault = S1.fault /\ T.mproc = S1.mproc
    BY <2>2, <2>3 DEF StateT
  <2> QED
    BY <2>2, <2>4
<1>4. ~\E i \in DOMAIN stk : stk[i].p = c
  BY <1>1 DEF FramesOk
<1>5. \A s \in Slots : "IN_USE" \in m[s].flags => m[s].parent # c /\ m[s].tracer # c
  BY <1>1, <1>4 DEF FamilyOk, There, Excused, NO_SLOT, Slots
<1>6. \A s \in Slots : /\ m[s].parent \in Slots
                       /\ m[s].tracer # NO_SLOT => m[s].tracer \in Slots
  BY <1>1, SlotFacts
<1>7. c \notin SystemSlots
  BY <1>1 DEF SlotOk, SystemOk
<1> HIDE DEF T, m, n
<1>8. \A s \in Slots : SlotOk(s, n[s])
  <2>1. SlotOk(c, FreeSlot)
    BY <1>2, <1>7 DEF SlotOk, FreeSlot
  <2> QED
    BY <1>1, <1>3, <2>1
<1>9. \A s \in Slots : "TOLD_PARENT" \in n[s].flags => n[s].vfs # "none"
  BY <1>1, <1>2, <1>3 DEF NO_SLOT, Slots
<1>10. FamilyOk(n, stk)
  BY <1>1, <1>2, <1>3, <1>5, <1>6 DEF FamilyOk, There
<1>11. ForksOk(n, stk)
  <2>1. \A s \in Slots : Forking(n[s]) => /\ s # c /\ Forking(m[s]) /\ n[s] = m[s]
                                          /\ "IN_USE" \in m[s].flags
    BY <1>1, <1>2, <1>3 DEF Forking, SlotOk
  <2> QED
    BY <1>1, <1>3, <1>5, <1>6, <2>1 DEF ForksOk
<1>12. TracesOk(n, stk)
  <2>1. \A s \in Slots : Leaving(n[s]) => /\ s # c /\ Leaving(m[s]) /\ n[s] = m[s]
                                          /\ "IN_USE" \in m[s].flags /\ m[s].tracer # NO_SLOT
    BY <1>1, <1>2, <1>3 DEF Leaving, SlotOk
  <2> QED
    BY <1>1, <1>3, <1>5, <1>6, <2>1 DEF TracesOk
<1>13. FramesOk(n, stk)
  BY <1>1, <1>3, <1>4, FrameType DEF FramesOk
<1> QED
  BY <1>1, <1>3, <1>8, <1>9, <1>10, <1>11, <1>12, <1>13 DEF Fine, T, n

\* No slot is exempt where all are as they should be.
LEMMA FineExempt ==
    ASSUME NEW S, NEW stk, Fine(S, stk, NO_SLOT), NEW c \in Slots
    PROVE  Fine(S, stk, c)
  BY DEF Fine, NO_SLOT, Slots

\* What check_parent's branches need to know of the parent.
LEMMA ParentFacts ==
    ASSUME NEW S, NEW stk, NEW x, Fine(S, stk, x), NEW c \in Slots,
           "ZOMBIE" \in S.mproc[c].flags
    PROVE  LET p == S.mproc[c].parent
           IN  /\ p \in Slots
               /\ ~Has(S, p, "EXITING") => Live(S, p)
               /\ wait_test(S, p, c) => /\ S.mproc[p].user = "wait" /\ p # c
                                        /\ tell_parent(S, c) =
                                             Upd(Upd(S, p, Woken(S.mproc[p])), c, Collected(S.mproc[c]))
<1> DEFINE p == S.mproc[c].parent
<1>1. S \in StateT /\ SlotOk(c, S.mproc[c]) /\ FamilyOk(S.mproc, stk)
  BY DEF Fine
<1>2. p \in Slots
  BY <1>1, SlotFacts
<1>3. SlotOk(p, S.mproc[p])
  BY <1>2 DEF Fine
<1>4. /\ "IN_USE" \in S.mproc[c].flags /\ "TOLD_PARENT" \notin S.mproc[c].flags
      /\ S.mproc[c].user = "dead"
  BY <1>1 DEF SlotOk, FreeSlot
<1>5. "IN_USE" \in S.mproc[p].flags
  BY <1>1, <1>4 DEF FamilyOk, There
<1>6. ASSUME wait_test(S, p, c)
      PROVE  /\ S.mproc[p].user = "wait" /\ p # c
             /\ tell_parent(S, c) = Upd(Upd(S, p, Woken(S.mproc[p])), c, Collected(S.mproc[c]))
  <2>1. S.mproc[p].user = "wait" /\ p # PM_PROC_NR
    BY <1>3, <1>6 DEF wait_test, Has, SlotOk, SystemOk, SystemSlots
  <2>2. p # c
    BY <1>4, <2>1
  <2> QED
    BY <1>1, <1>4, <2>1, <2>2, TellParentIs
<1> QED
  BY <1>2, <1>5, <1>6 DEF Live, Has

\* check_parent without cleanup: the parent is woken or signalled.
LEMMA CheckParentCalm ==
    ASSUME NEW S, NEW stk, NEW x, Fine(S, stk, x), NEW c \in Slots,
           "ZOMBIE" \in S.mproc[c].flags, S.mproc[c].vfs # "none" \/ c = x
    PROVE  LET T == check_parent(S, c, FALSE) IN Fine(T, stk, x) /\ Calm(S, T)
<1> DEFINE p == S.mproc[c].parent
<1>1. p \in Slots /\ (~Has(S, p, "EXITING") => Live(S, p))
  BY ParentFacts
<1>2. Calm(S, S)
  BY DEF Calm, Quiet
<1>3. ~Has(S, p, "EXITING") =>
        Fine(sig_proc(S, p, SIGCHLD), stk, x) /\ Calm(S, sig_proc(S, p, SIGCHLD))
  BY <1>1, SigProcFine DEF Signals
<1>4. wait_test(S, p, c) => Fine(tell_parent(S, c), stk, x) /\ Calm(S, tell_parent(S, c))
  BY <1>1, ParentFacts, CollectedFine
<1> QED
  BY <1>2, <1>3, <1>4 DEF check_parent

\* check_parent with cleanup: a child that VFS is done with is released when its
\* parent has been told.
LEMMA CheckParentFine ==
    ASSUME NEW S, NEW stk, Fine(S, stk, NO_SLOT), NEW c \in Slots,
           "ZOMBIE" \in S.mproc[c].flags
    PROVE  Fine(check_parent(S, c, TRUE), stk, NO_SLOT)
<1> DEFINE p == S.mproc[c].parent
           told == tell_parent(S, c)
<1>1. p \in Slots /\ (~Has(S, p, "EXITING") => Live(S, p))
  BY ParentFacts
<1>2. ~Has(S, p, "EXITING") => Fine(sig_proc(S, p, SIGCHLD), stk, NO_SLOT)
  BY <1>1, SigProcFine DEF Signals
<1>3. ASSUME wait_test(S, p, c), S.mproc[c].vfs # "none"
      PROVE  Fine(told, stk, NO_SLOT)
  BY <1>1, <1>3, ParentFacts, CollectedFine
<1>4. ASSUME wait_test(S, p, c), S.mproc[c].vfs = "none"
      PROVE  Fine(cleanup(told, c), stk, NO_SLOT)
  <2>1. Fine(S, stk, c)
    BY FineExempt
  <2>2. Fine(told, stk, c) /\ Calm(S, told)
    BY <1>1, <1>4, <2>1, ParentFacts, CollectedFine
  <2>3. "EXITING" \in S.mproc[c].flags
    BY DEF Fine, SlotOk
  <2>4. "EXITING" \in told.mproc[c].flags /\ told.mproc[c].vfs = "none"
    BY <1>4, <2>2, <2>3 DEF Calm, Quiet
  <2> HIDE DEF told
  <2> QED
    BY <2>2, <2>4, CleanupFine
<1> QED
  BY <1>2, <1>3, <1>4 DEF check_parent, VfsBusy

\* zombify tells the tracer, or else the parent.
LEMMA ZombifyFine ==
    ASSUME NEW S, NEW stk, NEW x, Fine(S, stk, x), NEW c \in Slots,
           "EXITING" \in S.mproc[c].flags, S.mproc[c].vfs # "core",
           S.mproc[c].vfs # "none" \/ c = x,
           "ZOMBIE" \notin S.mproc[c].flags, "TRACE_ZOMBIE" \notin S.mproc[c].flags,
           "TOLD_PARENT" \notin S.mproc[c].flags
    PROVE  Fine(zombify(S, c), stk, x) /\ Calm(S, zombify(S, c))
<1> DEFINE r == S.mproc[c]
           t == r.tracer
<1>1. S \in StateT /\ SlotOk(c, r) /\ r \in Proc /\ r.flags \in SUBSET Flags
      /\ (t # NO_SLOT => t \in Slots)
  BY SlotFacts DEF Fine
<1>2. "IN_USE" \in r.flags
  BY <1>1 DEF SlotOk, FreeSlot
<1>3. ASSUME NEW f \in {"ZOMBIE", "TRACE_ZOMBIE"}
      PROVE  LET T == Set(S, c, {f})
             IN  /\ Fine(T, stk, x) /\ Calm(S, T) /\ f \in T.mproc[c].flags
  <2> DEFINE q == [r EXCEPT !.flags = r.flags \cup {f}]
  <2>1. r.flags \cup {f} \in SUBSET Flags
    BY <1>1 DEF Flags
  <2>2. /\ q \in Proc /\ q.flags = r.flags \cup {f} /\ q.user = r.user
        /\ q.parent = r.parent /\ q.tracer = r.tracer /\ q.vfs = r.vfs
        /\ q.sched = r.sched /\ q.grp = r.grp
    BY <1>1, <2>1, FlagFacts
  <2>3. Set(S, c, {f}) = Upd(S, c, q)
    BY DEF Set, Upd
  <2> HIDE DEF q
  <2>4. Quiet(r, q)
    BY <2>2 DEF Quiet
  <2>5. SlotOk(c, q) /\ "TOLD_PARENT" \notin q.flags
    BY <1>1, <1>2, <2>2 DEF SlotOk, SystemOk
  <2>6. Upd(S, c, q).mproc[c] = q
    BY <1>1, <2>2, UpdFacts
  <2> QED
    BY <2>2, <2>3, <2>4, <2>5, <2>6, QuietUpd
<1> DEFINE S1 == Set(S, c, {"TRACE_ZOMBIE"})
           S2 == Set(S, c, {"ZOMBIE"})
<1>4. /\ Fine(S1, stk, x) /\ Calm(S, S1) /\ "TRACE_ZOMBIE" \in S1.mproc[c].flags
      /\ Fine(S2, stk, x) /\ Calm(S, S2) /\ "ZOMBIE" \in S2.mproc[c].flags
  BY <1>3
<1>5. S1.mproc[c].tracer = t /\ S1.mproc[c].vfs = r.vfs /\ S2.mproc[c].vfs = r.vfs
  BY <1>4 DEF Calm, Quiet
<1>6. LET T == check_parent(S2, c, FALSE) IN Fine(T, stk, x) /\ Calm(S, T)
  <2> HIDE DEF S2
  <2> QED
    BY <1>4, <1>5, CheckParentCalm, CalmTrans
<1>7. ASSUME t # NO_SLOT, wait_test(S1, t, c)
      PROVE  LET T == check_parent(tell_tracer(S1, c), c, FALSE) IN Fine(T, stk, x) /\ Calm(S, T)
  <2> DEFINE S3 == tell_tracer(S1, c)
  <2> HIDE DEF S1
  <2>1. t \in Slots
    BY <1>1, <1>7
  <2>2. SlotOk(t, S1.mproc[t]) /\ S1 \in StateT /\ SlotOk(c, S1.mproc[c])
    BY <1>4, <2>1 DEF Fine
  <2>3. S1.mproc[t].user = "wait" /\ t # PM_PROC_NR /\ S1.mproc[c].user = "dead"
    BY <1>4, <1>7, <2>2 DEF wait_test, Has, SlotOk, SystemOk, SystemSlots
  <2>4. t # c
    BY <2>3
  <2>5. S3 = Upd(Upd(S1, t, Woken(S1.mproc[t])), c, Surrendered(S1.mproc[c]))
    BY <1>4, <1>5, <2>1, <2>2, <2>3, <2>4, TellTracerIs
  <2>6. Fine(S3, stk, x) /\ Calm(S1, S3) /\ "ZOMBIE" \in S3.mproc[c].flags
    BY <1>4, <2>1, <2>3, <2>5, SurrenderedFine
  <2>7. S3.mproc[c].vfs = r.vfs
    BY <1>5, <2>6 DEF Calm, Quiet
  <2> HIDE DEF S3
  <2>8. LET T == check_parent(S3, c, FALSE) IN Fine(T, stk, x) /\ Calm(S3, T)
    BY <2>6, <2>7, CheckParentCalm
  <2> QED
    BY <1>4, <2>6, <2>8, CalmTrans DEF S3
<1> QED
  BY <1>4, <1>6, <1>7 DEF zombify, Has

-----------------------------------------------------------------------------
(* exit_proc: the one who exits, and the frame that excuses its family.      *)

\* A frame on top of a stack.
LEMMA AppendFacts ==
    ASSUME NEW stk \in Seq(Frame), NEW f \in Frame
    PROVE  LET top == Append(stk, f)
           IN  /\ top \in Seq(Frame)
               /\ \A i \in DOMAIN stk : i \in DOMAIN top /\ top[i] = stk[i]
               /\ \A i \in DOMAIN top : i \in DOMAIN stk \/ top[i] = f
               /\ \E i \in DOMAIN top : top[i] = f
<1> DEFINE top == Append(stk, f)
<1>1. top \in Seq(Frame) /\ DOMAIN top = 1 .. Len(stk) + 1 /\ DOMAIN stk = 1 .. Len(stk)
      /\ Len(stk) \in Nat
  OBVIOUS
<1>2. top[Len(stk) + 1] = f /\ \A i \in 1 .. Len(stk) : top[i] = stk[i]
  OBVIOUS
<1> HIDE DEF top
<1> QED
  BY <1>1, <1>2 DEF top

\* Whom it excuses.
LEMMA AppendExcuses ==
    ASSUME NEW stk \in Seq(Frame), NEW f \in Frame, NEW p, NEW s
    PROVE  /\ Excused(stk, p, s) => Excused(Append(stk, f), p, s)
           /\ f.p = p /\ ~f.hup /\ f.k <= s => Excused(Append(stk, f), p, s)
  BY AppendFacts DEF Excused

\* A live process that becomes an exiting one.
LEMMA LeavesFine ==
    ASSUME NEW S, NEW stk, Fine(S, stk, NO_SLOT), NEW c \in Slots, NEW q \in Proc,
           NEW f \in Frame, f.p = c, f.k = 0, ~f.hup,
           "IN_USE" \in S.mproc[c].flags, "EXITING" \notin S.mproc[c].flags,
           q.parent = S.mproc[c].parent, q.tracer = S.mproc[c].tracer,
           "IN_USE" \in q.flags, "EXITING" \in q.flags,
           q.vfs \in {"exit", "core"}, SlotOk(c, q), "TOLD_PARENT" \notin q.flags,
           "TRACE_EXIT" \in q.flags => "TRACE_EXIT" \in S.mproc[c].flags
    PROVE  Fine(Upd(S, c, q), Append(stk, f), NO_SLOT)
<1> DEFINE T == Upd(S, c, q)
           m == S.mproc
           n == T.mproc
           top == Append(stk, f)
<1>1. /\ S \in StateT /\ S.fault = "none" /\ stk \in Seq(Frame)
      /\ \A s \in Slots : SlotOk(s, m[s])
      /\ \A s \in Slots : s # NO_SLOT /\ "TOLD_PARENT" \in m[s].flags => m[s].vfs # "none"
      /\ FamilyOk(m, stk) /\ ForksOk(m, stk) /\ TracesOk(m, stk) /\ FramesOk(m, stk)
  BY DEF Fine
<1>2. /\ T \in StateT /\ T.fault = "none" /\ n[c] = q
      /\ \A s \in Slots : s # c => n[s] = m[s]
  <2>1. S \in StateT /\ S.fault = "none"
    BY <1>1
  <2> QED
    BY <2>1, UpdFacts
<1>3. \A s \in Slots : /\ m[s].parent \in Slots
                       /\ m[s].tracer # NO_SLOT => m[s].tracer \in Slots
  BY <1>1, SlotFacts
<1>4. \A p, s \in Slots : Excused(stk, p, s) => Excused(top, p, s)
  BY <1>1, AppendExcuses
<1>5. \A s \in Slots : Excused(top, c, s)
  <2>1. \A s \in Slots : f.k <= s
    BY DEF Slots
  <2> QED
    BY <1>1, <2>1, AppendExcuses
<1>6. /\ top \in Seq(Frame)
      /\ \A i \in DOMAIN top : (i \in DOMAIN stk /\ top[i] = stk[i]) \/ top[i] = f
  BY <1>1, AppendFacts
<1> HIDE DEF T, m, n, top
<1>7. \A s \in Slots : SlotOk(s, n[s])
  BY <1>1, <1>2
<1>8. \A s \in Slots : s # NO_SLOT /\ "TOLD_PARENT" \in n[s].flags => n[s].vfs # "none"
  BY <1>1, <1>2
<1>9. \A s \in Slots : n[s].parent = m[s].parent /\ n[s].tracer = m[s].tracer
                       /\ ("IN_USE" \in n[s].flags <=> "IN_USE" \in m[s].flags)
  BY <1>2 DEF m
<1>10. FamilyOk(n, top)
  <2>1. \A p, s \in Slots : There(m, stk, p, s) => There(n, top, p, s)
    BY <1>2, <1>4, <1>5, <1>9 DEF There
  <2> QED
    BY <1>1, <1>3, <1>9, <2>1 DEF FamilyOk
<1>11. ForksOk(n, top)
  <2>1. \A s \in Slots : Forking(n[s]) => Forking(m[s])
    BY <1>2 DEF Forking
  <2>2. \A p \in Slots : m[p].user = "fork" => n[p].user = "fork" \/ p = c
    BY <1>2
  <2> QED
    BY <1>1, <1>3, <1>4, <1>5, <1>9, <2>1, <2>2 DEF ForksOk
<1>12. TracesOk(n, top)
  <2>1. \A s \in Slots : Leaving(n[s]) => Leaving(m[s]) /\ m[s].tracer # NO_SLOT
    BY <1>1, <1>2 DEF Leaving, SlotOk, m
  <2>2. \A p \in Slots : m[p].user = "ptrace" => n[p].user = "ptrace" \/ p = c
    BY <1>2
  <2> QED
    BY <1>1, <1>3, <1>4, <1>5, <1>9, <2>1, <2>2 DEF TracesOk
<1>13. FramesOk(n, top)
  <2>1. \A i \in DOMAIN stk : stk[i].p \in Slots
    BY <1>1, FrameType
  <2> QED
    BY <1>1, <1>2, <1>6, <2>1 DEF FramesOk
<1> QED
  BY <1>2, <1>6, <1>7, <1>8, <1>10, <1>11, <1>12, <1>13 DEF Fine, T, n, top

\* The slot of a process after the first part of exit_proc.
Departed(r, core) ==
    [r EXCEPT !.user = "dead", !.vfs = IF core THEN "core" ELSE "exit",
              !.flags = ((@ \cup {"PROC_STOPPED"}) \cap ExitKeeps) \cup {"EXITING"},
              !.wpid = AnyChild, !.sigs = {}, !.sigtrace = {}]

\* exit_proc is what it seems.
LEMMA ExitProcIs ==
    ASSUME NEW S \in StateT, NEW c \in Slots, NEW dump_core \in BOOLEAN,
           c # INIT_PROC_NR, S.mproc[c].vfs = "none"
    PROVE  LET core == dump_core /\ ~Has(S, c, "PRIV_PROC")
               T == Upd(S, c, Departed(S.mproc[c], core))
           IN  exit_proc(S, c, dump_core) = IF core THEN T ELSE zombify(T, c)
<1> DEFINE core == dump_core /\ ~Has(S, c, "PRIV_PROC")
           call == IF core THEN "core" ELSE "exit"
           r == S.mproc[c]
           r0 == [r EXCEPT !.flags = @ \cup {"PROC_STOPPED"}]
           r1 == [r0 EXCEPT !.user = "dead"]
           r2 == [r1 EXCEPT !.vfs = call]
           r3 == [r2 EXCEPT !.flags = (@ \cap ExitKeeps) \cup {"EXITING"}]
           r4 == [r3 EXCEPT !.wpid = AnyChild]
           r5 == [r4 EXCEPT !.sigs = {}]
           r6 == [r5 EXCEPT !.sigtrace = {}]
           S1 == [Set(S, c, {"PROC_STOPPED"}) EXCEPT !.mproc[c].user = "dead"]
           S2 == tell_vfs(S1, c, call)
           S3 == [S2 EXCEPT !.mproc[c].flags = (@ \cap ExitKeeps) \cup {"EXITING"},
                            !.mproc[c].wpid = AnyChild, !.mproc[c].sigs = {},
                            !.mproc[c].sigtrace = {}]
<1>0. exit_proc(S, c, dump_core) = IF core THEN S3 ELSE zombify(S3, c)
  BY DEF exit_proc
<1>1. r \in Proc
  BY SlotFacts
<1>2. call \in VfsCalls
  BY DEF VfsCalls
<1> HIDE DEF core, call
<1>3. r0 \in Proc /\ r1 \in Proc /\ r2 \in Proc
  BY <1>1, <1>2 DEF Proc, UserStates, Flags
<1>4. r3 \in Proc /\ r4 \in Proc /\ r5 \in Proc /\ r6 \in Proc
  <2>1. r3 \in Proc
    BY <1>3 DEF Proc, Flags
  <2> HIDE DEF r2, r3
  <2> QED
    BY <2>1, AnyChildType DEF Proc
<1>5. r1.vfs = "none"
  BY <1>1 DEF Proc
<1>6. r6 = Departed(r, core)
  BY <1>1 DEF Departed, Proc, call
<1>7. S1 = Upd(S, c, r1)
  <2>1. Set(S, c, {"PROC_STOPPED"}) = Upd(S, c, r0)
    BY DEF Set, Upd
  <2>2. Upd(S, c, r0).mproc[c] = r0
    BY <1>3, UpdFacts
  <2>3. S1 = Upd(Upd(S, c, r0), c, r1)
    BY <2>1, <2>2 DEF Upd
  <2> HIDE DEF r0, r1, S1
  <2> QED
    BY <1>3, <2>3, UpdTwice
<1>8. S1 \in StateT /\ S1.mproc[c] = r1
  <2> HIDE DEF r1, S1
  <2> QED
    BY <1>3, <1>7, UpdFacts
<1>9. S2 = Upd(S, c, r2)
  <2> HIDE DEF S1, r1
  <2>1. S2 = Upd(S1, c, r2)
    BY <1>5, <1>8 DEF tell_vfs, VfsBusy, Upd
  <2> HIDE DEF S2, r2
  <2> QED
    BY <1>3, <1>7, <2>1, UpdTwice
<1>10. S2 \in StateT /\ S2.mproc[c] = r2
  <2> HIDE DEF r2, S2
  <2> QED
    BY <1>3, <1>9, UpdFacts
<1> HIDE DEF S1, S2, r0, r1, r2
<1>11. S3 = Upd(S, c, r6)
  <2> DEFINE T3 == Upd(S2, c, r3)
             T4 == Upd(T3, c, r4)
             T5 == Upd(T4, c, r5)
             T6 == Upd(T5, c, r6)
  <2>1. S3 = [[[[S2 EXCEPT !.mproc[c].flags = (@ \cap ExitKeeps) \cup {"EXITING"}]
                 EXCEPT !.mproc[c].wpid = AnyChild]
                 EXCEPT !.mproc[c].sigs = {}]
                 EXCEPT !.mproc[c].sigtrace = {}]
    OBVIOUS
  <2>2. [S2 EXCEPT !.mproc[c].flags = (@ \cap ExitKeeps) \cup {"EXITING"}] = T3
    BY <1>10 DEF Upd
  <2> HIDE DEF r3, S3
  <2>3. T3 \in StateT /\ T3.mproc[c] = r3
    BY <1>4, <1>10, UpdFacts
  <2> HIDE DEF T3
  <2>4. [T3 EXCEPT !.mproc[c].wpid = AnyChild] = T4
    BY <2>3 DEF Upd
  <2> HIDE DEF r4
  <2>5. T4 \in StateT /\ T4.mproc[c] = r4
    BY <1>4, <2>3, UpdFacts
  <2> HIDE DEF T4
  <2>6. [T4 EXCEPT !.mproc[c].sigs = {}] = T5
    BY <2>5 DEF Upd
  <2> HIDE DEF r5
  <2>7. T5 \in StateT /\ T5.mproc[c] = r5
    BY <1>4, <2>5, UpdFacts
  <2> HIDE DEF T5
  <2>8. [T5 EXCEPT !.mproc[c].sigtrace = {}] = T6
    BY <2>7 DEF Upd
  <2> HIDE DEF r6
  <2>9. S3 = T6
    BY <2>1, <2>2, <2>4, <2>6, <2>8
  <2> HIDE DEF T6
  <2>10. T4 = Upd(S2, c, r4) /\ T5 = Upd(T3, c, r5)
    BY <1>4, <1>10, <2>3, UpdTwice DEF T3, T4, T5
  <2>11. T6 = Upd(S2, c, r6)
    BY <1>4, <1>10, <2>3, <2>5, UpdTwice DEF T3, T4, T5, T6
  <2> QED
    BY <1>3, <1>4, <1>9, <2>9, <2>11, UpdTwice
<1> HIDE DEF S3, r3, r4, r5, r6
<1> QED
  BY <1>0, <1>6, <1>11 DEF core, r


\* The fields of the slot of a process that has begun to exit.
LEMMA DepartedFacts ==
    ASSUME NEW r \in Proc, NEW core \in BOOLEAN
    PROVE  LET q == Departed(r, core)
           IN  /\ q \in Proc /\ q.user = "dead"
               /\ q.vfs = IF core THEN "core" ELSE "exit"
               /\ q.flags = ((r.flags \cup {"PROC_STOPPED"}) \cap ExitKeeps) \cup {"EXITING"}
               /\ q.parent = r.parent /\ q.tracer = r.tracer /\ q.sched = r.sched
<1> DEFINE fs == ((r.flags \cup {"PROC_STOPPED"}) \cap ExitKeeps) \cup {"EXITING"}
           v == IF core THEN "core" ELSE "exit"
<1>1. fs \in SUBSET Flags
  BY DEF Proc, Flags
<1>2. v \in VfsCalls /\ "dead" \in UserStates
  BY DEF VfsCalls, UserStates
<1>3. Departed(r, core) = [r EXCEPT !.user = "dead", !.vfs = v, !.flags = fs,
                                    !.wpid = AnyChild, !.sigs = {}, !.sigtrace = {}]
  BY DEF Departed
<1> HIDE DEF fs, v
<1> DEFINE r1 == [r EXCEPT !.user = "dead"]
           r2 == [r1 EXCEPT !.vfs = v]
           r3 == [r2 EXCEPT !.flags = fs]
           r4 == [r3 EXCEPT !.wpid = AnyChild]
           r5 == [r4 EXCEPT !.sigs = {}]
           q == [r5 EXCEPT !.sigtrace = {}]
<1>4. Departed(r, core) = q
  BY <1>3
<1>5. /\ r3 \in Proc /\ r3.user = "dead" /\ r3.vfs = v /\ r3.flags = fs
      /\ r3.parent = r.parent /\ r3.tracer = r.tracer /\ r3.sched = r.sched
  BY <1>1, <1>2 DEF Proc
<1> HIDE DEF r3
<1>6. /\ q \in Proc /\ q.user = r3.user /\ q.vfs = r3.vfs /\ q.flags = r3.flags
      /\ q.parent = r3.parent /\ q.tracer = r3.tracer /\ q.sched = r3.sched
  BY <1>5, AnyChildType DEF Proc
<1> HIDE DEF q
<1> QED
  BY <1>4, <1>5, <1>6 DEF fs, v

\* exit_proc for a live process, up to its loop.
LEMMA ExitFine ==
    ASSUME NEW S, NEW stk, Fine(S, stk, NO_SLOT), NEW c \in Slots, c \notin SystemSlots,
           Live(S, c), S.mproc[c].vfs = "none", NEW dump_core \in BOOLEAN, NEW cg \in PidOrNone
    PROVE  Fine(exit_proc(S, c, dump_core), PushExit(S, stk, c, cg), NO_SLOT)
<1> DEFINE r == S.mproc[c]
           core == dump_core /\ ~Has(S, c, "PRIV_PROC")
           q == Departed(r, core)
           T == Upd(S, c, q)
           f == ExitFrame(S, c, cg)
           top == Append(stk, f)
<1>1. S \in StateT /\ SlotOk(c, r)
  BY DEF Fine
<1>2. r \in Proc /\ core \in BOOLEAN
  BY <1>1, SlotFacts
<1>3. c # INIT_PROC_NR
  BY DEF SystemSlots
<1>4. PushExit(S, stk, c, cg) = top
  BY <1>3 DEF PushExit
<1>5. exit_proc(S, c, dump_core) = IF core THEN T ELSE zombify(T, c)
  BY <1>1, <1>3, ExitProcIs
<1>6. f \in Frame /\ f.p = c /\ f.k = 0 /\ ~f.hup
  BY NrProcsAssumption DEF ExitFrame, Frame, PidOrNone
<1>7. "IN_USE" \in r.flags /\ "EXITING" \notin r.flags
  BY DEF Live, Has
<1> HIDE DEF core
<1>8. /\ q \in Proc /\ q.user = "dead" /\ q.vfs = IF core THEN "core" ELSE "exit"
      /\ q.flags = ((r.flags \cup {"PROC_STOPPED"}) \cap ExitKeeps) \cup {"EXITING"}
      /\ q.parent = r.parent /\ q.tracer = r.tracer /\ q.sched = r.sched
  BY <1>2, DepartedFacts
<1> HIDE DEF q, f
<1>9. /\ "IN_USE" \in q.flags /\ "EXITING" \in q.flags /\ q.vfs \in {"exit", "core"}
      /\ "TRACE_EXIT" \in q.flags <=> "TRACE_EXIT" \in r.flags
      /\ "PRIV_PROC" \in q.flags <=> "PRIV_PROC" \in r.flags
      /\ q.flags \cap {"ZOMBIE", "TRACE_ZOMBIE", "TOLD_PARENT", "WAITING"} = {}
  BY <1>7, <1>8 DEF ExitKeeps
<1>10. SlotOk(c, q)
  BY <1>1, <1>8, <1>9 DEF SlotOk
<1>11. Fine(T, top, NO_SLOT)
  BY <1>6, <1>7, <1>8, <1>9, <1>10, LeavesFine
<1>12. T.mproc[c] = q
  BY <1>1, <1>8, UpdFacts
<1> HIDE DEF T, top
<1>13. ~core => Fine(zombify(T, c), top, NO_SLOT)
  BY <1>8, <1>9, <1>11, <1>12, ZombifyFine
<1> QED
  BY <1>4, <1>5, <1>11, <1>13

\* A process that stays where it is in its family, and wants of others at most
\* what it wanted before; nobody counts on a call that it leaves.
LEMMA SettleFine ==
    ASSUME NEW S, NEW stk, NEW x, Fine(S, stk, x), NEW s \in Slots, NEW r \in Proc,
           SlotOk(s, r), s # x /\ "TOLD_PARENT" \in r.flags => r.vfs # "none",
           r.parent = S.mproc[s].parent, r.tracer = S.mproc[s].tracer,
           "IN_USE" \in r.flags <=> "IN_USE" \in S.mproc[s].flags,
           "EXITING" \in r.flags <=> "EXITING" \in S.mproc[s].flags,
           Forking(r) => Forking(S.mproc[s]), Leaving(r) => Leaving(S.mproc[s]),
           r.vfs = S.mproc[s].vfs \/ stk = <<>>,
           S.mproc[s].user = "fork" /\ r.user # "fork" =>
             \A t \in Slots : Forking(S.mproc[t]) => S.mproc[t].parent # s,
           S.mproc[s].user = "ptrace" /\ r.user # "ptrace" =>
             \A t \in Slots : Leaving(S.mproc[t]) => S.mproc[t].tracer # s
    PROVE  Fine(Upd(S, s, r), stk, x)
<1> DEFINE T == Upd(S, s, r)
           m == S.mproc
           n == T.mproc
<1>1. /\ S \in StateT /\ S.fault = "none" /\ stk \in Seq(Frame)
      /\ \A t \in Slots : SlotOk(t, m[t])
      /\ \A t \in Slots : t # x /\ "TOLD_PARENT" \in m[t].flags => m[t].vfs # "none"
      /\ FamilyOk(m, stk) /\ ForksOk(m, stk) /\ TracesOk(m, stk) /\ FramesOk(m, stk)
  BY DEF Fine
<1>2. /\ T \in StateT /\ T.fault = "none" /\ n[s] = r
      /\ \A t \in Slots : t # s => n[t] = m[t]
  <2>1. S \in StateT /\ S.fault = "none"
    BY <1>1
  <2> QED
    BY <2>1, UpdFacts
<1>3. \A t \in Slots : /\ m[t].parent \in Slots
                       /\ m[t].tracer # NO_SLOT => m[t].tracer \in Slots
  BY <1>1, SlotFacts
<1>4. /\ r.parent = m[s].parent /\ r.tracer = m[s].tracer
      /\ "IN_USE" \in r.flags <=> "IN_USE" \in m[s].flags
      /\ "EXITING" \in r.flags <=> "EXITING" \in m[s].flags
      /\ Forking(r) => Forking(m[s])
      /\ Leaving(r) => Leaving(m[s])
      /\ r.vfs = m[s].vfs \/ stk = <<>>
      /\ m[s].user = "fork" /\ r.user # "fork" => \A t \in Slots : Forking(m[t]) => m[t].parent # s
      /\ m[s].user = "ptrace" /\ r.user # "ptrace" => \A t \in Slots : Leaving(m[t]) => m[t].tracer # s
  OBVIOUS
<1> HIDE DEF T, m, n
<1>5. \A t \in Slots : SlotOk(t, n[t])
  BY <1>1, <1>2
<1>6. \A t \in Slots : t # x /\ "TOLD_PARENT" \in n[t].flags => n[t].vfs # "none"
  BY <1>1, <1>2
<1>7. \A t \in Slots : /\ n[t].parent = m[t].parent /\ n[t].tracer = m[t].tracer
                       /\ "IN_USE" \in n[t].flags <=> "IN_USE" \in m[t].flags
                       /\ "EXITING" \in n[t].flags <=> "EXITING" \in m[t].flags
                       /\ Forking(n[t]) => Forking(m[t])
                       /\ Leaving(n[t]) => Leaving(m[t])
  BY <1>2, <1>4
<1>8. FamilyOk(n, stk)
  <2>1. \A p, t \in Slots : There(m, stk, p, t) => There(n, stk, p, t)
    BY <1>7 DEF There
  <2> QED
    BY <1>1, <1>3, <1>7, <2>1 DEF FamilyOk
<1>9. ForksOk(n, stk)
  <2>1. \A t \in Slots : Forking(m[t]) /\ m[m[t].parent].user = "fork" => n[m[t].parent].user = "fork"
    BY <1>2, <1>3, <1>4
  <2> QED
    BY <1>1, <1>7, <2>1 DEF ForksOk
<1>10. TracesOk(n, stk)
  <2>1. \A t \in Slots : Leaving(m[t]) => m[t].tracer \in Slots
    BY <1>1, <1>3 DEF Leaving, SlotOk
  <2>2. \A t \in Slots : Leaving(m[t]) /\ m[m[t].tracer].user = "ptrace" => n[m[t].tracer].user = "ptrace"
    BY <1>2, <1>4, <2>1
  <2> QED
    BY <1>1, <1>7, <2>2 DEF TracesOk
<1>11. FramesOk(n, stk)
  <2>1. \A i \in DOMAIN stk : stk[i].p \in Slots
    BY <1>1, FrameType
  <2>2. stk = <<>> => DOMAIN stk = {}
    OBVIOUS
  <2>3. \A i \in DOMAIN stk : n[stk[i].p].vfs = m[stk[i].p].vfs
    BY <1>2, <1>4, <2>1, <2>2
  <2> QED
    BY <1>1, <1>7, <2>1, <2>3 DEF FramesOk
<1> QED
  BY <1>1, <1>2, <1>5, <1>6, <1>8, <1>9, <1>10, <1>11 DEF Fine, T, n

\* The invariant of the system.
FInv == Fine(State, stack, NO_SLOT)

\* A handler whose result is fine leads to a state that is.
LEMMA BecomesFine ==
    ASSUME NEW T, NEW stk, Fine(T, stk, NO_SLOT), Becomes(T), stack' = stk
    PROVE  FInv'
<1>1. State'.mproc = T.mproc /\ State'.used = T.used /\ State'.fault = T.fault
  BY DEF Becomes, State
<1>2. State' = [mproc |-> State'.mproc, used |-> State'.used, fault |-> State'.fault]
  BY DEF State
<1>3. T \in StateT
  BY DEF Fine
<1>4. State' = T
  BY <1>1, <1>2, <1>3 DEF StateT
<1>5. Fine(State', stack', NO_SLOT)
  BY <1>4
<1> QED
  BY <1>5 DEF FInv, NO_SLOT

\* A signal to a live process, and the exit it causes.
LEMMA SignalFine ==
    ASSUME NEW S, NEW stk, Fine(S, stk, NO_SLOT), NEW s \in Slots, s \notin SystemSlots,
           Live(S, s), NEW sig \in Signals, NEW cg \in PidOrNone, Signal(S, stk, s, sig, cg)
    PROVE  FInv'
<1>1. CASE Kills(S, s, sig)
  <2> DEFINE b == sig = SIGSEGV
  <2>1. S.mproc[s].vfs = "none" /\ b \in BOOLEAN
    BY <1>1 DEF Kills, VfsBusy
  <2>2. Becomes(exit_proc(S, s, b)) /\ stack' = PushExit(S, stk, s, cg)
    BY <1>1 DEF Signal
  <2> HIDE DEF b
  <2>3. Fine(exit_proc(S, s, b), PushExit(S, stk, s, cg), NO_SLOT)
    BY <2>1, ExitFine
  <2> QED
    BY <2>2, <2>3, BecomesFine
<1>2. CASE ~Kills(S, s, sig)
  <2>1. Fine(sig_proc(S, s, sig), stk, NO_SLOT)
    BY SigProcFine
  <2>2. Becomes(sig_proc(S, s, sig)) /\ stack' = stk
    BY <1>2 DEF Signal
  <2> QED
    BY <2>1, <2>2, BecomesFine
<1> QED
  BY <1>1, <1>2

-----------------------------------------------------------------------------
(* The requests of processes.                                                *)

\* What the steps below use of the invariant.
LEMMA FInvFacts ==
    ASSUME FInv
    PROVE  /\ Fine(State, stack, NO_SLOT) /\ State \in StateT /\ State.mproc = mproc
           /\ fault = "none"
           /\ \A s \in Slots : /\ mproc[s] \in Proc /\ mproc[s].grp \in PidOrNone
                               /\ mproc[s].flags \in SUBSET Flags
                               /\ SlotOk(s, mproc[s])
           /\ FamilyOk(mproc, stack) /\ ForksOk(mproc, stack) /\ TracesOk(mproc, stack)
<1>1. /\ Fine(State, stack, NO_SLOT) /\ State \in StateT /\ State.mproc = mproc
      /\ fault = "none"
  BY DEF FInv, Fine, State
<1>2. \A s \in Slots : mproc[s] \in Proc
  BY <1>1, SlotFacts
<1>3. (\A s \in Slots : SlotOk(s, mproc[s]))
      /\ FamilyOk(mproc, stack) /\ ForksOk(mproc, stack) /\ TracesOk(mproc, stack)
  BY <1>1 DEF Fine
<1> QED
  BY <1>1, <1>2, <1>3 DEF Proc, PidOrNone

\* Between messages nobody is excused.
LEMMA NobodyExcused ==
    ASSUME NEW p, NEW s
    PROVE  ~Excused(<<>>, p, s)
  BY DEF Excused

\* A process that runs is one that PM knows and that lives.
LEMMA RunningFacts ==
    ASSUME FInv, NEW p \in Slots, Running(p)
    PROVE  /\ mproc[p].user = "run" /\ "IN_USE" \in mproc[p].flags
           /\ "EXITING" \notin mproc[p].flags /\ "WAITING" \notin mproc[p].flags
           /\ "TRACE_STOPPED" \notin mproc[p].flags /\ p # PM_PROC_NR
           /\ mproc[p].vfs # "fork"
<1>1. mproc[p].user = "run" /\ Live(State, p) /\ State.mproc = mproc /\ SlotOk(p, mproc[p])
      /\ "TRACE_STOPPED" \notin mproc[p].flags
  BY FInvFacts DEF Running
<1> QED
  BY <1>1 DEF Live, Has, SlotOk, SystemOk, SystemSlots

\* exit.
LEMMA ExitFamily ==
    ASSUME FInv, NEW p \in Slots, do_exit(p)
    PROVE  FInv'
<1> DEFINE r == mproc[p]
<1>1. /\ Running(p) /\ p \notin {PM_PROC_NR, RS_PROC_NR}
      /\ \/ /\ "PRIV_PROC" \in r.flags
            /\ Becomes([State EXCEPT !.mproc[p].user = "exit"]) /\ stack' = stack
         \/ /\ "PRIV_PROC" \notin r.flags
            /\ Becomes(exit_proc(State, p, FALSE)) /\ stack' = PushExit(State, stack, p, r.grp)
  BY DEF do_exit
<1>2. /\ r.user = "run" /\ "IN_USE" \in r.flags /\ "EXITING" \notin r.flags
      /\ "WAITING" \notin r.flags /\ r.vfs # "fork"
  BY <1>1, RunningFacts
<1>3. /\ Fine(State, stack, NO_SLOT) /\ State \in StateT /\ State.mproc[p] = r
      /\ r \in Proc /\ r.grp \in PidOrNone /\ SlotOk(p, r)
  BY FInvFacts
<1>4. CASE /\ "PRIV_PROC" \in r.flags
           /\ Becomes([State EXCEPT !.mproc[p].user = "exit"]) /\ stack' = stack
  <2> DEFINE q == [r EXCEPT !.user = "exit"]
  <2>1. /\ q \in Proc /\ q.user = "exit" /\ q.flags = r.flags /\ q.vfs = r.vfs
        /\ q.parent = r.parent /\ q.tracer = r.tracer /\ q.sched = r.sched /\ q.grp = r.grp
    BY <1>3 DEF Proc, UserStates
  <2>2. [State EXCEPT !.mproc[p].user = "exit"] = Upd(State, p, q)
    BY <1>3 DEF Upd
  <2>3. p \notin SystemSlots
    BY <1>1, <1>3, <1>4 DEF SystemSlots, SlotOk, SystemOk
  <2>4. "TOLD_PARENT" \notin r.flags
    BY <1>2, <1>3 DEF SlotOk
  <2> HIDE DEF q
  <2>5. SlotOk(p, q) /\ Quiet(r, q)
    BY <1>2, <1>3, <2>1, <2>3 DEF SlotOk, Quiet, FreeSlot
  <2>6. Fine(Upd(State, p, q), stack, NO_SLOT)
    BY <1>3, <2>1, <2>4, <2>5, QuietUpd
  <2> QED
    BY <1>4, <2>2, <2>6, BecomesFine
<1>5. CASE /\ "PRIV_PROC" \notin r.flags
           /\ Becomes(exit_proc(State, p, FALSE)) /\ stack' = PushExit(State, stack, p, r.grp)
  <2>1. CASE p = INIT_PROC_NR
    <3> DEFINE r1 == [r EXCEPT !.flags = r.flags \cup {"PROC_STOPPED"}]
               q == [r1 EXCEPT !.user = "dead"]
               T == Upd(State, p, r1)
    <3>1. r1 \in Proc
      BY <1>3 DEF Proc, Flags
    <3>2. /\ q \in Proc /\ q.user = "dead" /\ q.flags = r.flags \cup {"PROC_STOPPED"} /\ q.vfs = r.vfs
          /\ q.parent = r.parent /\ q.tracer = r.tracer /\ q.sched = r.sched /\ q.grp = r.grp
      BY <1>3, <3>1 DEF Proc, UserStates
    <3>3. Set(State, p, {"PROC_STOPPED"}) = T
      BY <1>3 DEF Set, Upd
    <3>4. T.mproc[p] = r1
      BY <1>3, <3>1, UpdFacts
    <3>5. [T EXCEPT !.mproc[p].user = "dead"] = Upd(T, p, q)
      <4> HIDE DEF T, r1
      <4> QED
        BY <3>4 DEF Upd
    <3>6. exit_proc(State, p, FALSE) = [T EXCEPT !.mproc[p].user = "dead"]
      <4> HIDE DEF T
      <4> QED
        BY <2>1, <3>3 DEF exit_proc
    <3>7. exit_proc(State, p, FALSE) = Upd(State, p, q)
      <4>1. State \in StateT /\ r1 \in Proc /\ q \in Proc
        BY <1>3, <3>1, <3>2
      <4> HIDE DEF q, r1
      <4>2. Upd(T, p, q) = Upd(State, p, q)
        BY <4>1, UpdTwice
      <4> QED
        BY <3>5, <3>6, <4>2
    <3> HIDE DEF q
    <3>8. "TOLD_PARENT" \notin q.flags
      BY <1>2, <1>3, <3>2 DEF SlotOk
    <3>9. SystemOk(p, r) /\ p \in SystemSlots /\ p # PM_PROC_NR
      BY <1>3, <2>1 DEF SlotOk, SystemSlots, INIT_PROC_NR, PM_PROC_NR
    <3>10. SystemOk(p, q)
      BY <3>2, <3>9 DEF SystemOk
    <3>11. SlotOk(p, q) /\ Quiet(r, q)
      BY <1>2, <1>3, <2>1, <3>2, <3>10 DEF SlotOk, Quiet
    <3>12. Fine(Upd(State, p, q), stack, NO_SLOT)
      BY <1>3, <3>2, <3>8, <3>11, QuietUpd
    <3>13. stack' = stack
      BY <1>5, <2>1 DEF PushExit
    <3> QED
      BY <1>5, <3>7, <3>12, <3>13, BecomesFine
  <2>2. CASE p # INIT_PROC_NR
    <3>1. p \notin SystemSlots /\ Live(State, p)
      BY <1>1, <1>2, <1>3, <2>2 DEF SystemSlots, Live, Has
    <3>2. r.vfs = "none"
      BY <1>2, <1>3, <1>5 DEF SlotOk, Proc, VfsCalls
    <3>3. Fine(exit_proc(State, p, FALSE), PushExit(State, stack, p, r.grp), NO_SLOT)
      BY <1>3, <3>1, <3>2, ExitFine
    <3> QED
      BY <1>5, <3>3, BecomesFine
  <2> QED
    BY <2>1, <2>2
<1> QED
  BY <1>1, <1>4, <1>5

\* The kernel kills a system process that called exit.
LEMMA KernelKillFamily ==
    ASSUME FInv, NEW s \in Slots, KernelKill(s)
    PROVE  FInv'
<1>1. /\ Fine(State, stack, NO_SLOT) /\ State.mproc = mproc /\ SlotOk(s, mproc[s])
  BY FInvFacts
<1>2. mproc[s].user = "exit" /\ Signal(State, stack, s, SIGKILL, NoPid)
  BY DEF KernelKill
<1>3. Live(State, s) /\ s \notin SystemSlots
  BY <1>1, <1>2 DEF SlotOk, SystemOk, FreeSlot, Live, Has
<1> QED
  BY <1>1, <1>2, <1>3, SignalFine DEF Signals, PidOrNone

\* kill.
LEMMA KillFamily ==
    ASSUME FInv, NEW by \in Slots, NEW s \in Slots, NEW sig \in KillSignals, Kill(by, s, sig)
    PROVE  FInv'
<1>1. Fine(State, stack, NO_SLOT) /\ mproc[by].grp \in PidOrNone
  BY FInvFacts
<1>2. Live(State, s) /\ s \notin SystemSlots /\ Signal(State, stack, s, sig, mproc[by].grp)
  BY DEF Kill
<1>3. sig \in Signals
  BY KillSignalsAssumption DEF Signals
<1> QED
  BY <1>1, <1>2, <1>3, SignalFine

\* setuid.
LEMMA SetUidFamily ==
    ASSUME FInv, NEW p \in Slots, NEW uid \in Uids, SetUid(p, uid)
    PROVE  FInv'
<1> DEFINE r == mproc[p]
           q == [r EXCEPT !.uid = uid]
<1>1. /\ Fine(State, stack, NO_SLOT) /\ State.mproc[p] = r /\ r \in Proc
  BY FInvFacts
<1>2. /\ q \in Proc /\ q.user = r.user /\ q.flags = r.flags /\ q.vfs = r.vfs
      /\ q.parent = r.parent /\ q.tracer = r.tracer /\ q.sched = r.sched /\ q.grp = r.grp
  BY <1>1 DEF Proc
<1>3. Running(p) /\ mproc' = [mproc EXCEPT ![p] = q] /\ UNCHANGED <<procs_in_use, stack, fault>>
  BY DEF SetUid
<1>4. "IN_USE" \in r.flags
  BY <1>3, RunningFacts
<1> HIDE DEF q
<1>5. Fine(Upd(State, p, q), stack, NO_SLOT)
  BY <1>1, <1>2, <1>4, FieldFine
<1>6. Becomes(Upd(State, p, q)) /\ stack' = stack
  BY <1>3 DEF Becomes, Upd, State
<1> QED
  BY <1>5, <1>6, BecomesFine

\* setsid.
LEMMA SetsidFamily ==
    ASSUME FInv, NEW p \in Slots, Setsid(p)
    PROVE  FInv'
<1> DEFINE r == mproc[p]
           q == [r EXCEPT !.grp = r.pid]
<1>1. /\ Fine(State, stack, NO_SLOT) /\ State.mproc[p] = r /\ r \in Proc /\ SlotOk(p, r)
      /\ Running(p) /\ p \notin SystemSlots
  BY FInvFacts DEF Setsid
<1>2. /\ q \in Proc /\ q.user = r.user /\ q.flags = r.flags /\ q.vfs = r.vfs
      /\ q.parent = r.parent /\ q.tracer = r.tracer /\ q.sched = r.sched
  BY <1>1 DEF Proc
<1>3. mproc' = [mproc EXCEPT ![p] = q] /\ UNCHANGED <<procs_in_use, stack, fault>>
  BY DEF Setsid
<1>4. "IN_USE" \in r.flags /\ "EXITING" \notin r.flags
  BY <1>1, RunningFacts
<1> HIDE DEF q
<1>5. SlotOk(p, q) /\ Quiet(r, q) /\ "TOLD_PARENT" \notin q.flags
  BY <1>1, <1>2, <1>4 DEF SlotOk, Quiet
<1>6. Fine(Upd(State, p, q), stack, NO_SLOT)
  BY <1>1, <1>2, <1>5, QuietUpd
<1>7. Becomes(Upd(State, p, q)) /\ stack' = stack
  BY <1>3 DEF Becomes, Upd, State
<1> QED
  BY <1>6, <1>7, BecomesFine

\* A process gets a tracer.
LEMMA TracedFine ==
    ASSUME NEW S, NEW stk, NEW x, Fine(S, stk, x), NEW c \in Slots, NEW r \in Proc,
           NEW t \in Slots, Live(S, t), Live(S, c), c \notin SystemSlots,
           S.mproc[c].tracer = NO_SLOT, r.tracer = t,
           r.flags = S.mproc[c].flags, r.user = S.mproc[c].user, r.vfs = S.mproc[c].vfs,
           r.parent = S.mproc[c].parent, r.sched = S.mproc[c].sched
    PROVE  Fine(Upd(S, c, r), stk, x)
<1> DEFINE T == Upd(S, c, r)
           m == S.mproc
           n == T.mproc
<1>1. /\ S \in StateT /\ S.fault = "none" /\ stk \in Seq(Frame)
      /\ \A s \in Slots : SlotOk(s, m[s])
      /\ \A s \in Slots : s # x /\ "TOLD_PARENT" \in m[s].flags => m[s].vfs # "none"
      /\ FamilyOk(m, stk) /\ ForksOk(m, stk) /\ TracesOk(m, stk) /\ FramesOk(m, stk)
  BY DEF Fine
<1>2. /\ T \in StateT /\ T.fault = "none" /\ n[c] = r
      /\ \A s \in Slots : s # c => n[s] = m[s]
  <2>1. S \in StateT /\ S.fault = "none"
    BY <1>1
  <2> QED
    BY <2>1, UpdFacts
<1>3. \A s \in Slots : /\ m[s].parent \in Slots
                       /\ m[s].tracer # NO_SLOT => m[s].tracer \in Slots
  BY <1>1, SlotFacts
<1>4. /\ m[c].tracer = NO_SLOT /\ r.flags = m[c].flags /\ r.user = m[c].user
      /\ r.vfs = m[c].vfs /\ r.parent = m[c].parent /\ r.sched = m[c].sched
      /\ "IN_USE" \in m[t].flags /\ "EXITING" \notin m[t].flags
      /\ "IN_USE" \in m[c].flags
  BY DEF Live, Has
<1> HIDE DEF T, m, n
<1>5. SlotOk(c, r) /\ "TRACE_EXIT" \notin r.flags
  BY <1>1, <1>4 DEF SlotOk
<1>6. \A s \in Slots : SlotOk(s, n[s])
  BY <1>1, <1>2, <1>5
<1>7. \A s \in Slots : s # x /\ "TOLD_PARENT" \in n[s].flags => n[s].vfs # "none"
  BY <1>1, <1>2, <1>4
<1>8. \A s \in Slots : /\ n[s].parent = m[s].parent /\ n[s].flags = m[s].flags
                       /\ n[s].user = m[s].user /\ n[s].vfs = m[s].vfs
                       /\ s # c => n[s].tracer = m[s].tracer
  BY <1>2, <1>4
<1>9. FamilyOk(n, stk)
  <2>1. \A p, s \in Slots : There(m, stk, p, s) => There(n, stk, p, s)
    BY <1>8 DEF There
  <2>2. There(n, stk, t, c)
    BY <1>4, <1>8 DEF There
  <2> QED
    BY <1>1, <1>2, <1>3, <1>8, <2>1, <2>2 DEF FamilyOk
<1>10. ForksOk(n, stk)
  BY <1>1, <1>3, <1>8 DEF ForksOk, Forking
<1>11. TracesOk(n, stk)
  <2>1. \A s \in Slots : Leaving(n[s]) => /\ s # c /\ Leaving(m[s]) /\ m[s].tracer \in Slots
                                          /\ n[s].tracer = m[s].tracer
    BY <1>1, <1>2, <1>3, <1>5, <1>8 DEF Leaving, SlotOk
  <2> QED
    BY <1>1, <1>8, <2>1 DEF TracesOk
<1>12. FramesOk(n, stk)
  <2>1. \A i \in DOMAIN stk : stk[i].p \in Slots
    BY <1>1, FrameType
  <2> QED
    BY <1>1, <1>8, <2>1 DEF FramesOk
<1> QED
  BY <1>1, <1>2, <1>6, <1>7, <1>9, <1>10, <1>11, <1>12 DEF Fine, T, n

\* ptrace(T_ATTACH).
LEMMA AttachFamily ==
    ASSUME FInv, NEW t \in Slots, NEW c \in Slots, NEW tracefork \in TraceForks,
           Attach(t, c, tracefork)
    PROVE  FInv'
<1> DEFINE r == mproc[c]
           r1 == [r EXCEPT !.tracer = t]
           q == [r1 EXCEPT !.tracefork = tracefork]
           T == Upd(State, c, q)
<1>1. /\ Fine(State, stack, NO_SLOT) /\ State \in StateT /\ State.mproc[c] = r /\ r \in Proc
  BY FInvFacts
<1>2. tracefork \in BOOLEAN
  BY SwitchAssumption
<1>3. r1 \in Proc
  BY <1>1 DEF Proc
<1>4. /\ q \in Proc /\ q.user = r.user /\ q.flags = r.flags /\ q.vfs = r.vfs
      /\ q.parent = r.parent /\ q.tracer = t /\ q.sched = r.sched
  BY <1>1, <1>2 DEF Proc
<1>5. /\ Running(t) /\ c \notin SystemSlots /\ Live(State, c) /\ r.tracer = NO_SLOT
      /\ stack' = stack
  BY DEF Attach
<1>6. Becomes(sig_proc(T, c, SIGSTOP))
  <2> DEFINE T1 == Upd(State, c, r1)
  <2>1. T1.mproc[c] = r1
    BY <1>1, <1>3, UpdFacts
  <2>2. [State EXCEPT !.mproc[c].tracer = t, !.mproc[c].tracefork = tracefork]
        = [[State EXCEPT !.mproc[c].tracer = t] EXCEPT !.mproc[c].tracefork = tracefork]
    OBVIOUS
  <2>3. [State EXCEPT !.mproc[c].tracer = t] = T1
    BY <1>1 DEF Upd
  <2>4. [T1 EXCEPT !.mproc[c].tracefork = tracefork] = Upd(T1, c, q)
    <3> HIDE DEF T1, r1
    <3> QED
      BY <2>1 DEF Upd
  <2>5. State \in StateT /\ r1 \in Proc /\ q \in Proc
    BY <1>1, <1>3, <1>4
  <2>6. Upd(T1, c, q) = T
    <3> HIDE DEF r1, q
    <3> QED
      BY <2>5, UpdTwice
  <2> HIDE DEF T, T1
  <2> QED
    BY <2>2, <2>3, <2>4, <2>6 DEF Attach
<1> HIDE DEF q
<1>7. Live(State, t)
  BY <1>5 DEF Running
<1>8. Fine(T, stack, NO_SLOT)
  BY <1>1, <1>4, <1>5, <1>7, TracedFine
<1>9. Live(T, c)
  <2>1. State \in StateT /\ q \in Proc
    BY <1>1, <1>4
  <2>2. T.mproc[c] = q
    BY <2>1, UpdFacts
  <2> QED
    BY <1>1, <1>4, <1>5, <2>2 DEF Live, Has
<1> HIDE DEF T
<1>10. Fine(sig_proc(T, c, SIGSTOP), stack, NO_SLOT)
  BY <1>8, <1>9, SigProcFine DEF Signals
<1> QED
  BY <1>5, <1>6, <1>10, BecomesFine

\* ptrace(T_RESUME).
LEMMA ResumeFamily ==
    ASSUME FInv, NEW t \in Slots, NEW c \in Slots, Resume(t, c)
    PROVE  FInv'
<1> DEFINE r == mproc[c]
           fs == r.flags \ {"TRACE_STOPPED"}
           q == [r EXCEPT !.flags = fs]
<1>1. /\ Fine(State, stack, NO_SLOT) /\ State \in StateT /\ State.mproc[c] = r /\ r \in Proc
      /\ SlotOk(c, r) /\ r.flags \in SUBSET Flags
  BY FInvFacts
<1>2. /\ q \in Proc /\ q.user = r.user /\ q.flags = fs /\ q.vfs = r.vfs
      /\ q.parent = r.parent /\ q.tracer = r.tracer /\ q.sched = r.sched /\ q.grp = r.grp
  BY <1>1, FlagFacts
<1>3. Becomes(Upd(State, c, q)) /\ stack' = stack /\ Live(State, c)
  BY <1>1 DEF Resume, Clear, Upd
<1>4. "IN_USE" \in r.flags /\ "EXITING" \notin r.flags
  BY <1>1, <1>3 DEF Live, Has
<1> HIDE DEF q
<1>5. Quiet(r, q) /\ "TOLD_PARENT" \notin q.flags
  BY <1>1, <1>2, <1>4 DEF SlotOk, Quiet
<1>6. SlotOk(c, q)
  BY <1>1, <1>2, <1>4 DEF SlotOk, SystemOk
<1>7. Fine(Upd(State, c, q), stack, NO_SLOT)
  BY <1>1, <1>2, <1>5, <1>6, QuietUpd
<1> QED
  BY <1>3, <1>7, BecomesFine

\* Overwriting two slots in either order.
LEMMA UpdSwap ==
    ASSUME NEW S \in StateT, NEW s \in Slots, NEW r \in Proc, NEW t \in Slots, NEW q \in Proc, s # t
    PROVE  Upd(Upd(S, s, r), t, q) = Upd(Upd(S, t, q), s, r)
<1> DEFINE m == S.mproc
           m1 == [[m EXCEPT ![s] = r] EXCEPT ![t] = q]
           m2 == [[m EXCEPT ![t] = q] EXCEPT ![s] = r]
<1>1. m \in [Slots -> Proc]
  BY DEF StateT
<1>2. m1 = m2
  <2> HIDE DEF m
  <2>1. \A u \in Slots : m1[u] = m2[u]
    BY <1>1
  <2>2. m1 \in [Slots -> Proc] /\ m2 \in [Slots -> Proc]
    BY <1>1
  <2> HIDE DEF m1, m2
  <2> QED
    BY <2>1, <2>2
<1>3. Upd(Upd(S, s, r), t, q) = [S EXCEPT !.mproc = m1]
  BY DEF Upd, StateT
<1>4. Upd(Upd(S, t, q), s, r) = [S EXCEPT !.mproc = m2]
  BY DEF Upd, StateT
<1> HIDE DEF m1, m2
<1> QED
  BY <1>2, <1>3, <1>4

\* A tracer that waits in ptrace gets a tracee to wait for.
LEMMA AwaitedFine ==
    ASSUME NEW S, NEW stk, NEW x, Fine(S, stk, x), NEW c \in Slots, NEW t \in Slots,
           S.mproc[c].tracer = t, Live(S, c), S.mproc[t].user = "ptrace",
           \A s \in Slots : Leaving(S.mproc[s]) => S.mproc[s].tracer # t,
           NEW r \in Proc, r.flags = S.mproc[c].flags \cup {"TRACE_EXIT"},
           r.user = S.mproc[c].user, r.vfs = S.mproc[c].vfs, r.parent = S.mproc[c].parent,
           r.tracer = t, r.sched = S.mproc[c].sched, r.grp = S.mproc[c].grp
    PROVE  Fine(Upd(S, c, r), stk, x)
<1> DEFINE T == Upd(S, c, r)
           m == S.mproc
           n == T.mproc
<1>1. /\ S \in StateT /\ S.fault = "none" /\ stk \in Seq(Frame)
      /\ \A s \in Slots : SlotOk(s, m[s])
      /\ \A s \in Slots : s # x /\ "TOLD_PARENT" \in m[s].flags => m[s].vfs # "none"
      /\ FamilyOk(m, stk) /\ ForksOk(m, stk) /\ TracesOk(m, stk) /\ FramesOk(m, stk)
  BY DEF Fine
<1>2. /\ T \in StateT /\ T.fault = "none" /\ n[c] = r
      /\ \A s \in Slots : s # c => n[s] = m[s]
  <2>1. S \in StateT /\ S.fault = "none"
    BY <1>1
  <2> QED
    BY <2>1, UpdFacts
<1>3. \A s \in Slots : /\ m[s].parent \in Slots
                       /\ m[s].tracer # NO_SLOT => m[s].tracer \in Slots
  BY <1>1, SlotFacts
<1>4. /\ m[c].tracer = t /\ r.flags = m[c].flags \cup {"TRACE_EXIT"} /\ r.user = m[c].user
      /\ r.vfs = m[c].vfs /\ r.parent = m[c].parent /\ r.sched = m[c].sched /\ r.grp = m[c].grp
      /\ "IN_USE" \in m[c].flags /\ m[t].user = "ptrace"
      /\ \A s \in Slots : Leaving(m[s]) => m[s].tracer # t
  BY DEF Live, Has
<1>5. t # NO_SLOT
  BY DEF NO_SLOT, Slots
<1> HIDE DEF T, m, n
<1>6. SlotOk(c, r)
  BY <1>1, <1>4, <1>5 DEF SlotOk, SystemOk
<1>7. \A s \in Slots : SlotOk(s, n[s])
  BY <1>1, <1>2, <1>6
<1>8. \A s \in Slots : s # x /\ "TOLD_PARENT" \in n[s].flags => n[s].vfs # "none"
  BY <1>1, <1>2, <1>4
<1>9. \A s \in Slots : /\ n[s].parent = m[s].parent /\ n[s].tracer = m[s].tracer
                       /\ n[s].user = m[s].user /\ n[s].vfs = m[s].vfs
                       /\ s # c => n[s] = m[s]
                       /\ "IN_USE" \in n[s].flags <=> "IN_USE" \in m[s].flags
                       /\ "EXITING" \in n[s].flags <=> "EXITING" \in m[s].flags
                       /\ "NEW_PARENT" \in n[s].flags <=> "NEW_PARENT" \in m[s].flags
  BY <1>2, <1>4
<1>10. FamilyOk(n, stk)
  <2>1. \A p, s \in Slots : There(m, stk, p, s) => There(n, stk, p, s)
    BY <1>9 DEF There
  <2> QED
    BY <1>1, <1>3, <1>9, <2>1 DEF FamilyOk
<1>11. ForksOk(n, stk)
  BY <1>1, <1>3, <1>9 DEF ForksOk, Forking
<1>12. TracesOk(n, stk)
  <2>1. \A s \in Slots : Leaving(n[s]) => s = c \/ (Leaving(m[s]) /\ m[s].tracer \in Slots)
    BY <1>1, <1>3, <1>9 DEF Leaving, SlotOk
  <2> QED
    BY <1>1, <1>4, <1>9, <2>1 DEF TracesOk
<1>13. FramesOk(n, stk)
  <2>1. \A i \in DOMAIN stk : stk[i].p \in Slots
    BY <1>1, FrameType
  <2> QED
    BY <1>1, <1>9, <2>1 DEF FramesOk
<1> QED
  BY <1>1, <1>2, <1>7, <1>8, <1>10, <1>11, <1>12, <1>13 DEF Fine, T, n

\* ptrace(T_EXIT).
LEMMA TraceExitFamily ==
    ASSUME FInv, NEW t \in Slots, NEW c \in Slots, TraceExit(t, c)
    PROVE  FInv'
<1> DEFINE r == mproc[c]
           fs == r.flags \cup {"TRACE_EXIT"}
           q == [r EXCEPT !.flags = fs]
           a == mproc[t]
           b == [a EXCEPT !.user = "ptrace"]
           T == Upd(State, t, b)
           S == Upd(T, c, q)
<1>1. /\ Fine(State, stack, NO_SLOT) /\ State \in StateT /\ State.mproc = mproc
      /\ r \in Proc /\ a \in Proc /\ a.grp \in PidOrNone /\ SlotOk(t, a) /\ SlotOk(c, r)
      /\ r.flags \in SUBSET Flags /\ TracesOk(mproc, stack)
  BY FInvFacts
<1>2. /\ stack = <<>> /\ Running(t) /\ r.tracer = t /\ Live(State, c)
      /\ "TRACE_STOPPED" \in r.flags
  BY DEF TraceExit, Ready, Idle
<1>3. /\ a.user = "run" /\ "IN_USE" \in a.flags /\ "EXITING" \notin a.flags
      /\ "WAITING" \notin a.flags /\ "TRACE_STOPPED" \notin a.flags /\ t # PM_PROC_NR
  BY <1>2, RunningFacts
<1>4. c # t /\ t # NO_SLOT
  BY <1>2, <1>3 DEF NO_SLOT, Slots
<1>5. /\ q \in Proc /\ q.user = r.user /\ q.flags = fs /\ q.vfs = r.vfs
      /\ q.parent = r.parent /\ q.tracer = r.tracer /\ q.sched = r.sched /\ q.grp = r.grp
  BY <1>1, FlagFacts DEF Flags
<1>6. /\ b \in Proc /\ b.user = "ptrace" /\ b.flags = a.flags /\ b.vfs = a.vfs
      /\ b.parent = a.parent /\ b.tracer = a.tracer /\ b.sched = a.sched /\ b.grp = a.grp
  BY <1>1 DEF Proc, UserStates
<1>7. [Set(State, c, {"TRACE_EXIT"}) EXCEPT !.mproc[t].user = "ptrace"] = S
  <2> DEFINE T1 == Upd(State, c, q)
  <2>1. State \in StateT /\ b \in Proc /\ q \in Proc
    BY <1>1, <1>5, <1>6
  <2>2. Set(State, c, {"TRACE_EXIT"}) = T1
    BY <1>1 DEF Set, Upd
  <2>3. T1.mproc[t] = a
    <3>1. T1.mproc[t] = State.mproc[t]
      BY <1>4, <2>1, UpdFacts
    <3> QED
      BY <1>1, <3>1
  <2>4. [T1 EXCEPT !.mproc[t].user = "ptrace"] = Upd(T1, t, b)
    <3> HIDE DEF T1, a
    <3> QED
      BY <2>3 DEF Upd
  <2>5. Upd(T1, t, b) = S
    <3> HIDE DEF q, b
    <3> QED
      BY <1>4, <2>1, UpdSwap
  <2> HIDE DEF T1, S
  <2> QED
    BY <2>2, <2>4, <2>5
<1> HIDE DEF q, b
<1>8. Quiet(a, b) /\ SlotOk(t, b) /\ "TOLD_PARENT" \notin b.flags
  BY <1>1, <1>3, <1>6 DEF Quiet, SlotOk, SystemOk
<1>9. Fine(T, stack, NO_SLOT)
  BY <1>1, <1>6, <1>8, QuietUpd
<1>10. T \in StateT /\ T.mproc[c] = r /\ T.mproc[t] = b
       /\ (\A s \in Slots : s # t => T.mproc[s] = mproc[s])
  <2>1. State \in StateT /\ b \in Proc
    BY <1>1, <1>6
  <2>2. T \in StateT /\ T.mproc[t] = b /\ \A s \in Slots : s # t => T.mproc[s] = State.mproc[s]
    BY <2>1, UpdFacts
  <2> HIDE DEF T
  <2> QED
    BY <1>1, <1>4, <2>2
<1>11. \A s \in Slots : Leaving(mproc[s]) => mproc[s].tracer # t
  BY <1>1, <1>2, <1>3, NobodyExcused DEF TracesOk
<1>12. \A s \in Slots : Leaving(T.mproc[s]) => T.mproc[s].tracer # t
  BY <1>6, <1>10, <1>11 DEF Leaving
<1>13. Live(T, c)
  BY <1>1, <1>2, <1>10 DEF Live, Has
<1> HIDE DEF T
<1>14. Fine(S, stack, NO_SLOT)
  BY <1>2, <1>5, <1>6, <1>9, <1>10, <1>12, <1>13, AwaitedFine
<1>15. S.mproc[c] = q
  BY <1>5, <1>10, UpdFacts
<1>16. Live(S, c) /\ c \notin SystemSlots
  BY <1>1, <1>2, <1>4, <1>5, <1>15 DEF Live, Has, SlotOk, SystemOk
<1> HIDE DEF S
<1>17. \/ Becomes(S) /\ stack' = stack
       \/ /\ ~VfsBusy(S, c) /\ Becomes(exit_proc(S, c, FALSE))
          /\ stack' = PushExit(S, stack, c, a.grp)
  BY <1>7 DEF TraceExit
<1>18. ~VfsBusy(S, c) => Fine(exit_proc(S, c, FALSE), PushExit(S, stack, c, a.grp), NO_SLOT)
  BY <1>1, <1>14, <1>16, ExitFine DEF VfsBusy
<1> QED
  BY <1>14, <1>17, <1>18, BecomesFine

\* Asking and being answered at once.
LEMMA WokenAsker ==
    ASSUME NEW r \in Proc
    PROVE  Woken([r EXCEPT !.user = "wait"]) = Woken(r)
  BY DEF Woken, Proc

\* waitpid.
LEMMA WaitpidFamily ==
    ASSUME FInv, NEW p \in Slots, NEW arg \in WaitArgs, do_waitpid(p, arg)
    PROVE  FInv'
<1> DEFINE a == mproc[p]
           b == [a EXCEPT !.user = "wait"]
           S == Upd(State, p, b)
           c == Least(Collectable(p, arg))
           r == mproc[c]
           W == Upd(State, p, Woken(a))
<1>1. /\ Fine(State, stack, NO_SLOT) /\ State \in StateT /\ State.mproc = mproc
      /\ \A s \in Slots : mproc[s] \in Proc /\ SlotOk(s, mproc[s])
      /\ Running(p) /\ stack' = stack
  BY FInvFacts DEF do_waitpid
<1>2. /\ a.user = "run" /\ "IN_USE" \in a.flags /\ "EXITING" \notin a.flags
      /\ "WAITING" \notin a.flags /\ p # PM_PROC_NR
  BY <1>1, RunningFacts
<1>3. a \in Proc /\ State \in StateT
  BY <1>1
<1>4. /\ b \in Proc /\ b.user = "wait" /\ b.flags = a.flags /\ b.vfs = a.vfs
      /\ b.parent = a.parent /\ b.tracer = a.tracer /\ b.sched = a.sched /\ b.grp = a.grp
  BY <1>3 DEF Proc, UserStates
<1>5. [State EXCEPT !.mproc[p].user = "wait"] = S
  BY <1>1 DEF Upd
<1>6. Woken(b) = Woken(a)
  BY <1>3, WokenAsker
<1> HIDE DEF b
<1>7. /\ S \in StateT /\ S.mproc[p] = b
      /\ \A s \in Slots : s # p => S.mproc[s] = mproc[s]
  BY <1>1, <1>3, <1>4, UpdFacts
<1>8. Upd(S, p, Woken(b)) = W
  <2>1. Woken(a) \in Proc
    BY <1>3, WokenFacts
  <2> QED
    BY <1>3, <1>4, <1>6, <2>1, UpdTwice
<1> HIDE DEF S
<1>9. CASE Collectable(p, arg) # {}
  <2>1. Collectable(p, arg) \in SUBSET Nat
    BY NrProcsAssumption DEF Collectable, Acceptable, Slots
  <2>2. c \in Collectable(p, arg)
    BY <1>9, <2>1, LeastOfNats
  <2>3. /\ c \in Slots /\ "IN_USE" \in r.flags /\ "TOLD_PARENT" \notin r.flags
        /\ DeadToTracer(p, c) \/ StoppedForTracer(p, c) \/ DeadToParent(p, c)
    BY <2>2 DEF Collectable, Acceptable
  <2>4. IF DeadToTracer(p, c)
        THEN Becomes(check_parent(tell_tracer(S, c), c, TRUE))
        ELSE IF StoppedForTracer(p, c)
        THEN Becomes([State EXCEPT !.mproc[c].sigtrace = @ \ {Least(@)}])
        ELSE Becomes(IF VfsBusy(S, c) THEN tell_parent(S, c)
                     ELSE cleanup(tell_parent(S, c), c))
    BY <1>5, <1>9 DEF do_waitpid
  <2> HIDE DEF c
  <2>5. CASE DeadToTracer(p, c)
    <3> DEFINE U == Upd(W, c, Surrendered(r))
    <3>1. r.tracer = p /\ "TRACE_ZOMBIE" \in r.flags
      BY <2>5 DEF DeadToTracer
    <3>2. c # p
      BY <1>1, <1>2, <2>3, <3>1 DEF SlotOk
    <3>3. S.mproc[c] = r
      BY <1>7, <2>3, <3>2
    <3>4. tell_tracer(S, c) = Upd(Upd(S, p, Woken(b)), c, Surrendered(r))
      BY <1>2, <1>4, <1>7, <2>3, <3>1, <3>2, <3>3, TellTracerIs
    <3>5. Fine(U, stack, NO_SLOT) /\ "ZOMBIE" \in U.mproc[c].flags
      BY <1>1, <1>2, <2>3, <3>1, SurrenderedFine
    <3> HIDE DEF U
    <3>6. Fine(check_parent(U, c, TRUE), stack, NO_SLOT)
      BY <2>3, <3>5, CheckParentFine
    <3> QED
      BY <1>1, <1>8, <2>4, <2>5, <3>4, <3>6, BecomesFine DEF U
  <2>6. CASE ~DeadToTracer(p, c) /\ StoppedForTracer(p, c)
    <3> DEFINE sigs == r.sigtrace \ {Least(r.sigtrace)}
               q == [r EXCEPT !.sigtrace = sigs]
    <3>1. r \in Proc
      BY <1>1, <2>3
    <3>2. sigs \in SUBSET Signals
      BY <3>1 DEF Proc
    <3>3. [State EXCEPT !.mproc[c].sigtrace = @ \ {Least(@)}] = Upd(State, c, q)
      BY <1>1 DEF Upd
    <3> HIDE DEF sigs
    <3>4. /\ q \in Proc /\ q.user = r.user /\ q.flags = r.flags /\ q.vfs = r.vfs
          /\ q.parent = r.parent /\ q.tracer = r.tracer /\ q.sched = r.sched /\ q.grp = r.grp
      BY <3>1, <3>2 DEF Proc
    <3> HIDE DEF q
    <3>5. Fine(Upd(State, c, q), stack, NO_SLOT)
      BY <1>1, <2>3, <3>4, FieldFine
    <3> QED
      BY <1>1, <2>4, <2>6, <3>3, <3>5, BecomesFine
  <2>7. CASE ~DeadToTracer(p, c) /\ ~StoppedForTracer(p, c)
    <3> DEFINE U == Upd(W, c, Collected(r))
    <3>1. r.parent = p /\ "ZOMBIE" \in r.flags
      BY <2>3, <2>7 DEF DeadToParent
    <3>2. c # p /\ "EXITING" \in r.flags
      BY <1>1, <1>2, <2>3, <3>1 DEF SlotOk
    <3>3. S.mproc[c] = r
      BY <1>7, <2>3, <3>2
    <3>4. tell_parent(S, c) = Upd(Upd(S, p, Woken(b)), c, Collected(r))
      BY <1>2, <1>4, <1>7, <2>3, <3>1, <3>2, <3>3, TellParentIs
    <3>5. ASSUME VfsBusy(S, c) PROVE Fine(U, stack, NO_SLOT)
      <4>1. r.vfs # "none"
        BY <3>3, <3>5 DEF VfsBusy
      <4> QED
        BY <1>1, <1>2, <2>3, <3>1, <4>1, CollectedFine
    <3>6. ASSUME ~VfsBusy(S, c) PROVE Fine(cleanup(U, c), stack, NO_SLOT)
      <4>1. r.vfs = "none"
        BY <3>3, <3>6 DEF VfsBusy
      <4>2. Fine(State, stack, c)
        BY <1>1, <2>3, FineExempt
      <4>3. Fine(U, stack, c) /\ Calm(State, U)
        BY <1>1, <1>2, <2>3, <3>1, <4>2, CollectedFine
      <4> HIDE DEF U
      <4>4. "EXITING" \in U.mproc[c].flags /\ U.mproc[c].vfs = "none"
        BY <1>1, <2>3, <3>2, <4>1, <4>3 DEF Calm, Quiet
      <4> QED
        BY <2>3, <4>3, <4>4, CleanupFine
    <3> HIDE DEF U
    <3> QED
      BY <1>1, <1>8, <2>4, <2>7, <3>4, <3>5, <3>6, BecomesFine DEF U
  <2> QED
    BY <2>5, <2>6, <2>7
<1>10. CASE Collectable(p, arg) = {}
  <2> DEFINE fs == a.flags \cup {"WAITING"}
             b1 == [b EXCEPT !.flags = fs]
             q == [b1 EXCEPT !.wpid = arg]
             T == Upd(S, p, b1)
  <2>1. fs \in SUBSET Flags
    BY <1>3 DEF Proc, Flags
  <2>2. b1 \in Proc
    BY <1>4, <2>1 DEF Proc
  <2>3. Becomes([Set(S, p, {"WAITING"}) EXCEPT !.mproc[p].wpid = arg])
    BY <1>5, <1>10 DEF do_waitpid
  <2>4. Set(S, p, {"WAITING"}) = T
    BY <1>4, <1>7 DEF Set, Upd
  <2>5. T \in StateT /\ T.mproc[p] = b1
    BY <1>7, <2>2, UpdFacts
  <2> HIDE DEF fs
  <2>6. /\ q \in Proc /\ q.user = "wait" /\ q.flags = fs /\ q.vfs = a.vfs
        /\ q.parent = a.parent /\ q.tracer = a.tracer /\ q.sched = a.sched /\ q.grp = a.grp
    BY <1>4, <2>1 DEF Proc
  <2> HIDE DEF T
  <2>7. [T EXCEPT !.mproc[p].wpid = arg] = Upd(T, p, q)
    <3> HIDE DEF b1
    <3> QED
      BY <2>5 DEF Upd
  <2> HIDE DEF b1, q
  <2>8. Upd(T, p, q) = Upd(State, p, q)
    BY <1>3, <1>4, <1>7, <2>2, <2>6, UpdTwice DEF T, S
  <2>9. Quiet(a, q) /\ SlotOk(p, q) /\ "TOLD_PARENT" \notin q.flags
    BY <1>1, <1>2, <2>6 DEF fs, Quiet, SlotOk, SystemOk
  <2>10. Fine(Upd(State, p, q), stack, NO_SLOT)
    BY <1>1, <2>6, <2>9, QuietUpd
  <2> QED
    BY <1>1, <2>3, <2>4, <2>7, <2>8, <2>10, BecomesFine
<1> QED
  BY <1>9, <1>10

-----------------------------------------------------------------------------
(* The answers of VFS.                                                       *)

\* A slot that VFS has done with.
Answered(r) == [[r EXCEPT !.flags = @ \ {"NEW_PARENT"}] EXCEPT !.vfs = "none"]

\* The fields of such a slot.
LEMMA AnsweredFacts ==
    ASSUME NEW r \in Proc
    PROVE  LET q == Answered(r)
           IN  /\ q \in Proc /\ q.flags = r.flags \ {"NEW_PARENT"} /\ q.vfs = "none"
               /\ q.user = r.user /\ q.parent = r.parent /\ q.tracer = r.tracer
               /\ q.sched = r.sched /\ q.grp = r.grp
  BY DEF Answered, Proc, VfsCalls

\* What an answer does first.
LEMMA AnswerIs ==
    ASSUME NEW S \in StateT, NEW s \in Slots
    PROVE  [Clear(S, s, {"NEW_PARENT"}) EXCEPT !.mproc[s].vfs = "none"] = Upd(S, s, Answered(S.mproc[s]))
<1> DEFINE r == S.mproc[s]
           r1 == [r EXCEPT !.flags = @ \ {"NEW_PARENT"}]
           q == Answered(r)
           T == Upd(S, s, r1)
<1>1. r \in Proc
  BY SlotFacts
<1>2. r1 \in Proc /\ q \in Proc
  BY <1>1, AnsweredFacts DEF Proc
<1>3. Clear(S, s, {"NEW_PARENT"}) = T
  BY DEF Clear, Upd
<1>4. q = [r1 EXCEPT !.vfs = "none"]
  BY DEF Answered
<1> HIDE DEF r1, q
<1>5. T.mproc[s] = r1
  BY <1>2, UpdFacts
<1>6. [T EXCEPT !.mproc[s].vfs = "none"] = Upd(T, s, q)
  <2> HIDE DEF T
  <2> QED
    BY <1>4, <1>5 DEF Upd
<1>7. Upd(T, s, q) = Upd(S, s, q)
  BY <1>2, UpdTwice
<1> HIDE DEF T
<1> QED
  BY <1>3, <1>6, <1>7 DEF q

\* The parent of a child it waited for in fork, or the tracer of a tracee that it
\* waited for in ptrace, goes on.
LEMMA ReplyFine ==
    ASSUME NEW S, NEW stk, NEW x, Fine(S, stk, x), NEW p \in Slots,
           NEW call \in {"fork", "ptrace"}, S.mproc[p].user = call,
           call = "fork" => \A t \in Slots : Forking(S.mproc[t]) => S.mproc[t].parent # p,
           call = "ptrace" => \A t \in Slots : Leaving(S.mproc[t]) => S.mproc[t].tracer # p
    PROVE  LET T == Reply(S, p, call)
           IN  /\ Fine(T, stk, x) /\ T.mproc[p].user = "run"
               /\ \A t \in Slots : t # p => T.mproc[t] = S.mproc[t]
<1> DEFINE r == S.mproc[p]
           q == [r EXCEPT !.user = "run"]
<1>1. S \in StateT /\ SlotOk(p, r) /\ (p # x /\ "TOLD_PARENT" \in r.flags => r.vfs # "none")
  BY DEF Fine
<1>2. r \in Proc
  BY <1>1, SlotFacts
<1>3. /\ q \in Proc /\ q.user = "run" /\ q.flags = r.flags /\ q.vfs = r.vfs
      /\ q.parent = r.parent /\ q.tracer = r.tracer /\ q.sched = r.sched /\ q.grp = r.grp
  BY <1>2 DEF Proc, UserStates
<1>4. Reply(S, p, call) = Upd(S, p, q)
  BY DEF Reply, Upd
<1> HIDE DEF q
<1>5. SlotOk(p, q)
  BY <1>1, <1>3 DEF SlotOk, SystemOk, FreeSlot
<1>6. Forking(q) = Forking(r) /\ Leaving(q) = Leaving(r)
  BY <1>3 DEF Forking, Leaving
<1>7. Fine(Upd(S, p, q), stk, x)
  BY <1>1, <1>3, <1>5, <1>6, SettleFine
<1> QED
  BY <1>1, <1>3, <1>4, <1>7, UpdFacts

\* A slot whose death was not told needs no exemption.
LEMMA FineStrict ==
    ASSUME NEW S, NEW stk, NEW x, Fine(S, stk, x), x \in Slots, "TOLD_PARENT" \notin S.mproc[x].flags
    PROVE  Fine(S, stk, NO_SLOT)
  BY DEF Fine

\* The second half of exit.
LEMMA ExitRestartFine ==
    ASSUME NEW S, Fine(S, <<>>, NO_SLOT), NEW c \in Slots, S.mproc[c].vfs \in {"exit", "core"},
           NEW dump_core \in BOOLEAN, dump_core = (S.mproc[c].vfs = "core")
    PROVE  Fine(exit_restart(Upd(S, c, Answered(S.mproc[c])), c, dump_core), <<>>, NO_SLOT)
<1> DEFINE r == S.mproc[c]
           a == Answered(r)
           q == [a EXCEPT !.sched = FALSE]
           S0 == Upd(S, c, a)
           U == Upd(S, c, q)
           S1 == [S0 EXCEPT !.mproc[c].sched = FALSE]
           S2 == IF dump_core THEN zombify(S1, c) ELSE S1
           t == S2.mproc[c].tracer
           S3 == IF Has(S2, c, "TRACE_EXIT") THEN Reply(S2, t, "ptrace") ELSE S2
<1>0. exit_restart(S0, c, dump_core) = IF Has(S3, c, "TOLD_PARENT") THEN cleanup(S3, c) ELSE S3
  BY DEF exit_restart
<1>1. /\ S \in StateT /\ SlotOk(c, r) /\ TracesOk(S.mproc, <<>>)
  BY DEF Fine
<1>2. r \in Proc
  BY <1>1, SlotFacts
<1>3. /\ a \in Proc /\ a.flags = r.flags \ {"NEW_PARENT"} /\ a.vfs = "none"
      /\ a.user = r.user /\ a.parent = r.parent /\ a.tracer = r.tracer
  BY <1>2, AnsweredFacts
<1> HIDE DEF a
<1>4. /\ q \in Proc /\ q.flags = r.flags \ {"NEW_PARENT"} /\ q.vfs = "none" /\ q.sched = FALSE
      /\ q.user = r.user /\ q.parent = r.parent /\ q.tracer = r.tracer
  BY <1>3 DEF Proc
<1>5. S1 = U
  <2>1. S0.mproc[c] = a
    BY <1>1, <1>3, UpdFacts
  <2>2. S1 = Upd(S0, c, q)
    <3> HIDE DEF S0
    <3> QED
      BY <2>1 DEF Upd
  <2> HIDE DEF q, S1
  <2> QED
    BY <1>1, <1>3, <1>4, <2>2, UpdTwice
<1> HIDE DEF q, S0, S1
<1>6. "EXITING" \in r.flags /\ "IN_USE" \in r.flags /\ c \notin SystemSlots /\ r.user = "dead"
  BY <1>1 DEF SlotOk, SystemOk, FreeSlot
<1>7. SlotOk(c, q)
  BY <1>1, <1>4, <1>6 DEF SlotOk
<1>8. ~Forking(q) /\ ~Leaving(q)
  BY <1>4, <1>6 DEF Forking, Leaving
<1>9. Fine(S, <<>>, c)
  BY FineExempt
<1>10. Fine(S1, <<>>, c)
  <2>1. Fine(U, <<>>, c)
    BY <1>4, <1>6, <1>7, <1>8, <1>9, SettleFine
  <2> QED
    BY <1>5, <2>1
<1>11. S1.mproc[c] = q /\ (\A s \in Slots : s # c => S1.mproc[s] = S.mproc[s])
  BY <1>1, <1>4, <1>5, UpdFacts
<1>12. Fine(S2, <<>>, c) /\ Calm(S1, S2)
  <2>1. Calm(S1, S1)
    BY DEF Calm, Quiet
  <2>2. dump_core => {"ZOMBIE", "TRACE_ZOMBIE", "TOLD_PARENT"} \cap r.flags = {}
    BY <1>1 DEF SlotOk
  <2>3. dump_core => Fine(zombify(S1, c), <<>>, c) /\ Calm(S1, zombify(S1, c))
    BY <1>4, <1>6, <1>10, <1>11, <2>2, ZombifyFine
  <2> QED
    BY <1>10, <2>1, <2>3
<1> HIDE DEF S2
<1>13. /\ S2.mproc[c].vfs = "none" /\ "EXITING" \in S2.mproc[c].flags
       /\ ~Leaving(S2.mproc[c]) /\ S2.mproc[c].tracer = r.tracer
       /\ "TRACE_EXIT" \in S2.mproc[c].flags <=> "TRACE_EXIT" \in r.flags
  BY <1>4, <1>6, <1>11, <1>12 DEF Calm, Quiet, Leaving
<1>14. ASSUME "TRACE_EXIT" \in S2.mproc[c].flags
       PROVE  /\ t \in Slots /\ t # c /\ Fine(Reply(S2, t, "ptrace"), <<>>, c)
              /\ Reply(S2, t, "ptrace").mproc[c] = S2.mproc[c]
  <2>1. t = r.tracer /\ t # NO_SLOT /\ Leaving(r)
    BY <1>1, <1>13, <1>14 DEF SlotOk, Leaving
  <2>2. t \in Slots
    BY <1>1, <2>1, SlotFacts
  <2>3. /\ S.mproc[t].user = "ptrace"
        /\ \A s \in Slots : Leaving(S.mproc[s]) /\ S.mproc[s].tracer = t => s = c
    BY <1>1, <2>1, NobodyExcused DEF TracesOk
  <2>4. t # c
    BY <1>6, <2>3
  <2>5. S2.mproc[t].user = "ptrace"
    BY <1>11, <1>12, <2>2, <2>3, <2>4 DEF Calm, Quiet
  <2>6. \A s \in Slots : Leaving(S2.mproc[s]) =>
          s # c /\ Leaving(S.mproc[s]) /\ S2.mproc[s].tracer = S.mproc[s].tracer
    BY <1>11, <1>12, <1>13 DEF Calm, Quiet, Leaving
  <2>7. \A s \in Slots : Leaving(S2.mproc[s]) => S2.mproc[s].tracer # t
    BY <2>3, <2>6
  <2> HIDE DEF t
  <2> QED
    BY <1>12, <2>2, <2>4, <2>5, <2>7, ReplyFine
<1>15. Fine(S3, <<>>, c) /\ S3.mproc[c] = S2.mproc[c]
  BY <1>12, <1>14 DEF Has
<1> HIDE DEF t, S3
<1>16. Has(S3, c, "TOLD_PARENT") => Fine(cleanup(S3, c), <<>>, NO_SLOT)
  BY <1>13, <1>15, CleanupFine
<1>17. ~Has(S3, c, "TOLD_PARENT") => Fine(S3, <<>>, NO_SLOT)
  BY <1>15, FineStrict DEF Has
<1> QED
  BY <1>0, <1>16, <1>17 DEF S0, a

\* An answer of VFS for fork or srv_fork: the slot by itself.
LEMMA StartedFine ==
    ASSUME NEW S, Fine(S, <<>>, NO_SLOT), NEW s \in Slots, S.mproc[s].vfs \in {"fork", "srv_fork"},
           NEW q \in Proc, q.flags = S.mproc[s].flags \ {"NEW_PARENT"}, q.vfs = "none",
           q.user = IF S.mproc[s].vfs = "fork" THEN "run" ELSE S.mproc[s].user,
           q.parent = S.mproc[s].parent, q.tracer = S.mproc[s].tracer, q.sched = S.mproc[s].sched
    PROVE  Fine(Upd(S, s, q), <<>>, NO_SLOT) /\ Live(S, s) /\ s \notin SystemSlots
<1> DEFINE r == S.mproc[s]
<1>1. S \in StateT /\ SlotOk(s, r) /\ ForksOk(S.mproc, <<>>) /\ TracesOk(S.mproc, <<>>)
  BY DEF Fine
<1>2. "EXITING" \notin r.flags /\ "IN_USE" \in r.flags /\ s \notin SystemSlots
  BY <1>1 DEF SlotOk, SystemOk, FreeSlot
<1>3. SlotOk(s, q) /\ "TOLD_PARENT" \notin q.flags
  BY <1>1, <1>2 DEF SlotOk
<1>4. ~Forking(q) /\ (Leaving(q) => Leaving(r))
  BY <1>2 DEF Forking, Leaving
<1>5. CASE r.vfs = "fork"
  <2>1. r.user = "born"
    BY <1>1, <1>5 DEF SlotOk
  <2> QED
    BY <1>1, <1>2, <1>3, <1>4, <1>5, <2>1, SettleFine DEF Live, Has
<1>6. CASE r.vfs # "fork"
  <2>1. q.user = r.user
    BY <1>6
  <2> QED
    BY <1>1, <1>2, <1>3, <1>4, <2>1, SettleFine DEF Live, Has
<1> QED
  BY <1>5, <1>6

\* Every answer of VFS.
LEMMA VfsReplyFamily ==
    ASSUME FInv, NEW s \in Slots, VfsReply(s)
    PROVE  FInv'
<1> DEFINE r == mproc[s]
           call == r.vfs
           a == Answered(r)
           q == IF call = "fork" THEN [a EXCEPT !.user = "run"] ELSE a
           newParent == "NEW_PARENT" \in mproc[s].flags
           S1 == [Clear(State, s, {"NEW_PARENT"}) EXCEPT !.mproc[s].vfs = "none"]
           S2 == IF call = "fork" THEN Reply(S1, s, "born") ELSE S1
           S3 == IF call = "fork" /\ ~newParent
                 THEN Reply(S2, S2.mproc[s].parent, "fork") ELSE S2
           S4 == [S3 EXCEPT !.mproc[s].sigs = {}]
           doomed == PendingKill(S3, s)
           core == call = "core"
           segv == doomed = {SIGSEGV}
<1>1. /\ Fine(State, <<>>, NO_SLOT) /\ stack = <<>> /\ State \in StateT /\ State.mproc = mproc
      /\ r \in Proc /\ SlotOk(s, r) /\ ForksOk(mproc, <<>>)
  BY FInvFacts DEF VfsReply, Ready, Idle
<1>2. call # "none" /\ call \in VfsCalls
  BY <1>1 DEF VfsReply, Proc
<1>3. IF call \in {"exit", "core"}
      THEN Becomes(exit_restart(S1, s, core)) /\ stack' = stack
      ELSE \/ /\ Becomes(exit_proc(S4, s, segv))
              /\ stack' = PushExit(S4, stack, s, NoPid)
           \/ Becomes(S4) /\ stack' = stack
  BY DEF VfsReply
<1>4. S1 = Upd(State, s, a)
  BY <1>1, AnswerIs
<1>5. /\ a \in Proc /\ a.flags = r.flags \ {"NEW_PARENT"} /\ a.vfs = "none"
      /\ a.user = r.user /\ a.parent = r.parent /\ a.tracer = r.tracer
      /\ a.sched = r.sched /\ a.grp = r.grp
  BY <1>1, AnsweredFacts
<1>6. CASE call \in {"exit", "core"}
  <2>1. core \in BOOLEAN /\ core = (State.mproc[s].vfs = "core")
    BY <1>1
  <2> HIDE DEF core, S1
  <2>2. Fine(exit_restart(Upd(State, s, Answered(State.mproc[s])), s, core), <<>>, NO_SLOT)
    BY <1>1, <1>6, <2>1, ExitRestartFine
  <2>3. Fine(exit_restart(S1, s, core), <<>>, NO_SLOT)
    BY <1>1, <1>4, <2>2
  <2> QED
    BY <1>1, <1>3, <1>6, <2>3, BecomesFine
<1>7. CASE call \notin {"exit", "core"}
  <2>1. call \in {"fork", "srv_fork"}
    BY <1>2, <1>7 DEF VfsCalls
  <2>2. call = "fork" => r.user = "born"
    BY <1>1 DEF SlotOk
  <2> HIDE DEF a, S1
  <2>3. /\ q \in Proc /\ q.flags = r.flags \ {"NEW_PARENT"} /\ q.vfs = "none"
        /\ q.user = IF call = "fork" THEN "run" ELSE r.user
        /\ q.parent = r.parent /\ q.tracer = r.tracer /\ q.sched = r.sched /\ q.grp = r.grp
    <3>1. CASE call = "fork"
      <4> DEFINE b == [a EXCEPT !.user = "run"]
      <4>1. /\ b \in Proc /\ b.flags = a.flags /\ b.vfs = a.vfs /\ b.user = "run"
            /\ b.parent = a.parent /\ b.tracer = a.tracer /\ b.sched = a.sched /\ b.grp = a.grp
        BY <1>5 DEF Proc, UserStates
      <4>2. q = b
        BY <3>1
      <4> HIDE DEF b, q
      <4> QED
        BY <1>5, <3>1, <4>1, <4>2
    <3>2. CASE call # "fork"
      BY <1>5, <3>2
    <3> QED
      BY <3>1, <3>2
  <2>4. S2 = Upd(State, s, q)
    <3>1. CASE call = "fork"
      <4>1. S1.mproc[s] = a
        BY <1>1, <1>4, <1>5, UpdFacts
      <4>2. S2 = Upd(S1, s, q)
        BY <1>5, <2>2, <3>1, <4>1 DEF Reply, Upd
      <4>3. State \in StateT /\ a \in Proc /\ q \in Proc
        BY <1>1, <1>5, <2>3
      <4> HIDE DEF q, S2
      <4> QED
        BY <1>4, <4>2, <4>3, UpdTwice
    <3>2. CASE call # "fork"
      BY <1>4, <3>2
    <3> QED
      BY <3>1, <3>2
  <2> HIDE DEF q, S2
  <2>5. Fine(Upd(State, s, q), <<>>, NO_SLOT) /\ Live(State, s) /\ s \notin SystemSlots
    BY <1>1, <2>1, <2>3, StartedFine
  <2>6. Fine(S2, <<>>, NO_SLOT)
    BY <2>4, <2>5
  <2>7. S2.mproc[s] = q /\ \A t \in Slots : t # s => S2.mproc[t] = mproc[t]
    <3>1. State \in StateT /\ q \in Proc
      BY <1>1, <2>3
    <3>2. S2.mproc[s] = q /\ \A t \in Slots : t # s => S2.mproc[t] = State.mproc[t]
      BY <2>4, <3>1, UpdFacts
    <3> QED
      BY <1>1, <3>2
  <2>8. Fine(S3, <<>>, NO_SLOT) /\ S3.mproc[s] = q
    <3>1. CASE call = "fork" /\ ~newParent
      <4> DEFINE p == r.parent
      <4>1. p \in Slots
        BY <1>1 DEF Proc
      <4>2. Forking(r)
        BY <3>1 DEF Forking
      <4>3. /\ mproc[p].user = "fork"
            /\ \A t \in Slots : Forking(mproc[t]) /\ mproc[t].parent = p => t = s
        BY <1>1, <4>2, NobodyExcused DEF ForksOk
      <4>4. p # s
        BY <2>2, <3>1, <4>3
      <4>5. S2.mproc[p].user = "fork"
        BY <2>7, <4>1, <4>3, <4>4
      <4>6. ~Forking(q)
        BY <2>3 DEF Forking
      <4>7. \A t \in Slots : Forking(S2.mproc[t]) => S2.mproc[t].parent # p
        BY <2>7, <4>3, <4>6
      <4>8. S3 = Reply(S2, p, "fork")
        BY <2>3, <2>7, <3>1
      <4> HIDE DEF p, S3
      <4> QED
        BY <2>6, <2>7, <4>1, <4>4, <4>5, <4>7, <4>8, ReplyFine
    <3>2. CASE ~(call = "fork" /\ ~newParent)
      BY <2>6, <2>7, <3>2
    <3> QED
      BY <3>1, <3>2
  <2> HIDE DEF S3
  <2> DEFINE d == [q EXCEPT !.sigs = {}]
  <2>9. /\ d \in Proc /\ d.flags = q.flags /\ d.vfs = q.vfs /\ d.user = q.user
        /\ d.parent = q.parent /\ d.tracer = q.tracer /\ d.sched = q.sched /\ d.grp = q.grp
    BY <2>3 DEF Proc
  <2>10. S4 = Upd(S3, s, d)
    BY <2>8 DEF Upd
  <2>11. "IN_USE" \in q.flags /\ "EXITING" \notin q.flags
    BY <1>1, <2>3, <2>5 DEF Live, Has
  <2> HIDE DEF d, S4
  <2>12. Fine(S4, <<>>, NO_SLOT)
    BY <2>8, <2>9, <2>10, <2>11, FieldFine
  <2>13. S4.mproc[s] = d
    <3>1. S3 \in StateT
      BY <2>8 DEF Fine
    <3> QED
      BY <2>9, <2>10, <3>1, UpdFacts
  <2>14. Live(S4, s) /\ S4.mproc[s].vfs = "none"
    BY <2>3, <2>9, <2>11, <2>13 DEF Live, Has
  <2>15. segv \in BOOLEAN /\ NoPid \in PidOrNone
    BY DEF PidOrNone
  <2> HIDE DEF segv
  <2>16. Fine(exit_proc(S4, s, segv), PushExit(S4, <<>>, s, NoPid), NO_SLOT)
    BY <2>5, <2>12, <2>14, <2>15, ExitFine
  <2> QED
    BY <1>1, <1>3, <1>7, <2>12, <2>16, BecomesFine
<1> QED
  BY <1>6, <1>7

-----------------------------------------------------------------------------
(* Fork.                                                                     *)

\* do_fork's count and its search agree: if the table is not full there is a slot.
LEMMA RoomLeft ==
    ASSUME IInv, NEW p, ~TableFull(p)
    PROVE  FreeSlots # {}
<1> SUFFICES ASSUME FreeSlots = {} PROVE FALSE
  OBVIOUS
<1>1. Used(State) = Slots
  BY DEF FreeSlots, Used, State
<1>2. Cardinality(Slots) = NR_PROCS
  BY FS_Interval, NrProcsAssumption DEF Slots
<1>3. State.used = Cardinality(Used(State)) /\ State.used = procs_in_use
  BY DEF IInv, Ok, State
<1> QED
  BY <1>1, <1>2, <1>3 DEF TableFull

\* The invariant does not look at the count.
LEMMA CountedFine ==
    ASSUME NEW S, NEW stk, NEW x, Fine(S, stk, x)
    PROVE  LET T == [S EXCEPT !.used = @ + 1] IN Fine(T, stk, x) /\ T.mproc = S.mproc
<1> DEFINE T == [S EXCEPT !.used = @ + 1]
<1>1. T \in StateT /\ T.mproc = S.mproc /\ T.fault = S.fault
  BY DEF Fine, StateT
<1> HIDE DEF T
<1> QED
  BY <1>1 DEF Fine, T

\* The fields of the child's slot.
LEMMA ForkedSlotFields ==
    ASSUME IInv, NEW p \in Used(State), NEW keeps \in SUBSET Flags, "IN_USE" \in keeps
    PROVE  LET q == ForkedSlot(p, keeps)
           IN  /\ q \in Proc /\ q.flags = mproc[p].flags \cap keeps /\ q.vfs = "none"
               /\ q.user = "born" /\ q.parent = p
               /\ q.tracer = NO_SLOT \/ q.tracer = mproc[p].tracer
               /\ "PRIV_PROC" \in keeps => q.sched = mproc[p].sched
<1> DEFINE m == mproc[p]
           b == m.sched \/ ("PRIV_PROC" \in m.flags /\ "PRIV_PROC" \notin keeps)
           q == ForkedSlot(p, keeps)
<1>1. p \in Slots /\ m \in Proc /\ q \in Proc /\ q.vfs = "none"
  BY ForkedSlotType, IInvFacts DEF Used, IInv
<1>2. q = [m EXCEPT !.parent = p,
                    !.tracer = IF m.tracefork THEN @ ELSE NO_SLOT,
                    !.tracefork = m.tracefork,
                    !.sigtrace = IF m.tracefork THEN @ ELSE {},
                    !.sched = b,
                    !.flags = @ \cap keeps,
                    !.pid = get_free_pid,
                    !.vfs = "none",
                    !.user = "born"]
  BY DEF ForkedSlot
<1> HIDE DEF b, q
<1>3. /\ q.flags = m.flags \cap keeps /\ q.user = "born" /\ q.parent = p /\ q.sched = b
      /\ q.tracer = IF m.tracefork THEN m.tracer ELSE NO_SLOT
  <2> HIDE DEF m
  <2> QED
    BY <1>1, <1>2 DEF Proc
<1>4. "PRIV_PROC" \in keeps => b = m.sched
  BY <1>1 DEF b, Proc
<1> QED
  BY <1>1, <1>3, <1>4 DEF q

\* A process is born.
LEMMA BornFine ==
    ASSUME NEW S, Fine(S, <<>>, NO_SLOT), NEW p \in Slots, NEW c \in Slots, Live(S, p),
           "IN_USE" \notin S.mproc[c].flags, NEW q \in Proc, SlotOk(c, q), q.parent = p,
           q.tracer = NO_SLOT \/ q.tracer = S.mproc[p].tracer,
           "IN_USE" \in q.flags, "EXITING" \notin q.flags, "TRACE_EXIT" \notin q.flags,
           Forking(q) => /\ S.mproc[p].user = "fork"
                         /\ \A s \in Slots : Forking(S.mproc[s]) => S.mproc[s].parent # p
    PROVE  Fine(Upd(S, c, q), <<>>, NO_SLOT)
<1> DEFINE T == Upd(S, c, q)
           m == S.mproc
           n == T.mproc
           stk == <<>>
<1>1. /\ S \in StateT /\ S.fault = "none" /\ stk \in Seq(Frame)
      /\ \A s \in Slots : SlotOk(s, m[s])
      /\ \A s \in Slots : s # NO_SLOT /\ "TOLD_PARENT" \in m[s].flags => m[s].vfs # "none"
      /\ FamilyOk(m, stk) /\ ForksOk(m, stk) /\ TracesOk(m, stk)
  BY DEF Fine
<1>2. /\ T \in StateT /\ T.fault = "none" /\ n[c] = q
      /\ \A s \in Slots : s # c => n[s] = m[s]
  <2>1. S \in StateT /\ S.fault = "none"
    BY <1>1
  <2> QED
    BY <2>1, UpdFacts
<1>3. \A s \in Slots : /\ m[s].parent \in Slots
                       /\ m[s].tracer # NO_SLOT => m[s].tracer \in Slots
  BY <1>1, SlotFacts
<1>4. /\ "IN_USE" \in m[p].flags /\ "EXITING" \notin m[p].flags /\ "IN_USE" \notin m[c].flags
      /\ q.tracer = NO_SLOT \/ q.tracer = m[p].tracer
      /\ Forking(q) => /\ m[p].user = "fork"
                       /\ \A s \in Slots : Forking(m[s]) => m[s].parent # p
  BY DEF Live, Has
<1>5. p # c
  BY <1>4
<1>6. \A s, t \in Slots : ~Excused(stk, s, t)
  BY NobodyExcused
<1>7. DOMAIN stk = {}
  OBVIOUS
<1> HIDE DEF T, m, n, stk
<1>8. \A s \in Slots : SlotOk(s, n[s])
  BY <1>1, <1>2
<1>9. \A s \in Slots : s # NO_SLOT /\ "TOLD_PARENT" \in n[s].flags => n[s].vfs # "none"
  BY <1>1, <1>2 DEF SlotOk
<1>10. FamilyOk(n, stk)
  <2>1. \A u, s \in Slots : There(m, stk, u, s) => There(n, stk, u, s) /\ u # c
    BY <1>2, <1>4 DEF There
  <2>2. There(n, stk, p, c)
    BY <1>2, <1>4, <1>5 DEF There
  <2>3. q.tracer # NO_SLOT => There(n, stk, q.tracer, c)
    <3>1. m[p].tracer # NO_SLOT => m[p].tracer \in Slots /\ There(m, stk, m[p].tracer, p)
      BY <1>1, <1>3, <1>4 DEF FamilyOk
    <3>2. m[p].tracer # NO_SLOT => There(m, stk, m[p].tracer, c)
      BY <1>6, <3>1 DEF There
    <3> QED
      BY <1>4, <2>1, <3>1, <3>2
  <2>4. \A s \in Slots : "IN_USE" \in m[s].flags =>
          /\ There(n, stk, m[s].parent, s)
          /\ m[s].tracer # NO_SLOT => There(n, stk, m[s].tracer, s)
    BY <1>1, <1>3, <2>1 DEF FamilyOk
  <2> QED
    BY <1>2, <2>2, <2>3, <2>4 DEF FamilyOk
<1>11. ForksOk(n, stk)
  <2>1. \A s \in Slots : Forking(m[s]) => "IN_USE" \in m[s].flags /\ s # c
    BY <1>1, <1>4 DEF Forking, SlotOk, FreeSlot
  <2>2. \A s \in Slots : Forking(m[s]) =>
          /\ n[m[s].parent].user = "fork"
          /\ \A t \in Slots : Forking(m[t]) /\ m[t].parent = m[s].parent => t = s
    <3>1. \A s \in Slots : Forking(m[s]) => m[s].parent \in Slots /\ m[s].parent # c
      BY <1>1, <1>3, <1>4, <2>1 DEF FamilyOk, There
    <3> QED
      BY <1>1, <1>2, <1>6, <3>1, <1>3 DEF ForksOk
  <2>3. \A s \in Slots : Forking(n[s]) => s = c \/ (Forking(m[s]) /\ n[s] = m[s])
    BY <1>2
  <2>4. n[p].user = m[p].user
    BY <1>2, <1>5
  <2> QED
    BY <1>2, <1>4, <2>2, <2>3, <2>4 DEF ForksOk
<1>12. TracesOk(n, stk)
  <2>1. \A s \in Slots : Leaving(n[s]) => s # c /\ Leaving(m[s]) /\ n[s] = m[s]
    BY <1>2 DEF Leaving
  <2>2. \A s \in Slots : Leaving(m[s]) => m[s].tracer # NO_SLOT /\ "IN_USE" \in m[s].flags
    BY <1>1 DEF Leaving, SlotOk, FreeSlot
  <2>3. \A s \in Slots : Leaving(m[s]) => m[s].tracer \in Slots /\ m[s].tracer # c
    BY <1>1, <1>3, <1>4, <2>2 DEF FamilyOk, There
  <2> QED
    BY <1>1, <1>2, <2>1, <2>3 DEF TracesOk
<1>13. FramesOk(n, stk)
  BY <1>7 DEF FramesOk
<1> QED
  BY <1>1, <1>2, <1>8, <1>9, <1>10, <1>11, <1>12, <1>13 DEF Fine, T, n, stk

\* A table with one more slot counted, a process in another state, a slot with a
\* request to VFS.
Counted(S) == [S EXCEPT !.used = @ + 1]
Doing(r, u) == [r EXCEPT !.user = u]
Asked(r, call) == [r EXCEPT !.vfs = call]

\* What do_fork and do_srv_fork do with the table.
LEMMA ForkedIs ==
    ASSUME State \in StateT, NEW p \in Slots, NEW c \in Slots, p # c,
           NEW slot \in Proc, slot.vfs = "none", NEW call \in VfsCalls, NEW u \in UserStates
    PROVE  LET S2 == Upd(Upd(Counted(State), p, Doing(mproc[p], u)), c, Asked(slot, call))
           IN  Forked(p, c, slot, call, u) = IF slot.tracer # NO_SLOT
                                             THEN sig_proc(S2, c, SIGSTOP) ELSE S2
<1> DEFINE V == [State EXCEPT !.used = @ + 1]
           b == [mproc[p] EXCEPT !.user = u]
           q == [slot EXCEPT !.vfs = call]
           S1 == [State EXCEPT !.mproc[c] = slot, !.mproc[p].user = u, !.used = @ + 1]
           T1 == Upd(V, c, slot)
           T2 == Upd(T1, p, b)
           S2 == Upd(Upd(V, p, b), c, q)
<1>1. mproc[p] \in Proc /\ State.mproc = mproc
  BY SlotFacts DEF State
<1>2. b \in Proc /\ q \in Proc
  BY <1>1 DEF Proc
<1>3. V \in StateT /\ V.mproc = mproc
  BY <1>1 DEF StateT
<1>4. S1 = T2
  <2> DEFINE W == Upd(State, c, slot)
             W2 == Upd(W, p, b)
  <2>1. W \in StateT /\ W.mproc[p] = mproc[p] /\ W.mproc = [mproc EXCEPT ![c] = slot]
    BY <1>1 DEF Upd, StateT
  <2>2. S1 = [[[State EXCEPT !.mproc[c] = slot] EXCEPT !.mproc[p].user = u] EXCEPT !.used = @ + 1]
    OBVIOUS
  <2>3. [State EXCEPT !.mproc[c] = slot] = W
    BY DEF Upd
  <2>4. [W EXCEPT !.mproc[p].user = u] = W2
    <3> HIDE DEF W
    <3> QED
      BY <2>1 DEF Upd
  <2>5. [W2 EXCEPT !.used = @ + 1] = T2
    <3> HIDE DEF b
    <3> QED
      BY <1>1, <1>2 DEF Upd, StateT
  <2> HIDE DEF S1, W, W2, T2
  <2> QED
    BY <2>2, <2>3, <2>4, <2>5
<1> HIDE DEF b, V
<1>5. T1 \in StateT /\ T1.mproc[c] = slot
  BY <1>3, UpdFacts
<1> HIDE DEF T1
<1>6. T2 \in StateT /\ T2.mproc[c] = slot
  <2>1. b \in Proc /\ T1 \in StateT /\ c # p
    BY <1>2, <1>5
  <2>2. T2 \in StateT /\ \A t \in Slots : t # p => T2.mproc[t] = T1.mproc[t]
    BY <2>1, UpdFacts
  <2> HIDE DEF T2
  <2> QED
    BY <1>5, <2>1, <2>2
<1> HIDE DEF T2
<1>7. tell_vfs(T2, c, call) = Upd(T2, c, q)
  BY <1>6 DEF tell_vfs, VfsBusy, Upd
<1> HIDE DEF q
<1>8. Upd(T2, c, q) = S2
  <2>1. T2 = Upd(Upd(V, p, b), c, slot)
    BY <1>2, <1>3, UpdSwap DEF T1, T2
  <2>2. Upd(V, p, b) \in StateT
    BY <1>2, <1>3, UpdFacts
  <2> QED
    BY <1>2, <2>1, <2>2, UpdTwice
<1> HIDE DEF S1, S2
<1>9. tell_vfs(S1, c, call) = S2
  BY <1>4, <1>7, <1>8
<1>10. Forked(p, c, slot, call, u) = LET X == tell_vfs(S1, c, call)
                                     IN  IF slot.tracer # NO_SLOT THEN sig_proc(X, c, SIGSTOP) ELSE X
  BY DEF Forked, S1
<1> QED
  BY <1>9, <1>10 DEF S2, V, b, q, Counted, Doing, Asked

\* fork.
LEMMA ForkFamily ==
    ASSUME IInv, FInv, NEW p \in Slots, do_fork(p)
    PROVE  FInv'
<1> DEFINE a == mproc[p]
           slot == ForkedSlot(p, {"IN_USE"})
           V == Counted(State)
           b == Doing(a, "fork")
           W == Upd(V, p, b)
           q == Asked(slot, "fork")
<1>1. /\ Fine(State, <<>>, NO_SLOT) /\ stack = <<>> /\ State \in StateT /\ State.mproc = mproc
      /\ a \in Proc /\ ForksOk(mproc, <<>>) /\ FamilyOk(mproc, <<>>)
      /\ \A s \in Slots : SlotOk(s, mproc[s])
      /\ Running(p) /\ ~TableFull(p) /\ stack' = <<>>
  BY FInvFacts DEF do_fork, Ready, Idle
<1>2. /\ a.user = "run" /\ "IN_USE" \in a.flags /\ "EXITING" \notin a.flags
      /\ "WAITING" \notin a.flags /\ p # PM_PROC_NR /\ a.vfs # "fork"
  BY <1>1, RunningFacts
<1>3. SlotOk(p, a)
  BY <1>1
<1>4. FreeSlots # {} /\ ForkAssert(p)
  <2>1. ForkAssert(p)
    BY <1>3 DEF ForkAssert, SlotOk
  <2> QED
    BY <1>1, <2>1, RoomLeft
<1>5. PICK c \in FreeSlots : Becomes(Forked(p, c, slot, "fork", "fork"))
  BY <1>4 DEF do_fork
<1>6. c \in Slots /\ "IN_USE" \notin mproc[c].flags /\ p # c
  BY <1>2, <1>5 DEF FreeSlots
<1>7. p \in Used(State)
  BY <1>1, <1>2 DEF Used
<1>8. /\ slot \in Proc /\ slot.flags = a.flags \cap {"IN_USE"} /\ slot.vfs = "none"
      /\ slot.user = "born" /\ slot.parent = p
      /\ slot.tracer = NO_SLOT \/ slot.tracer = a.tracer
  BY <1>7, ForkedSlotFields DEF Flags
<1> HIDE DEF slot
<1>9. /\ q \in Proc /\ q.flags = {"IN_USE"} /\ q.vfs = "fork" /\ q.user = "born" /\ q.parent = p
      /\ q.tracer = slot.tracer
  BY <1>2, <1>8 DEF Proc, VfsCalls, Asked
<1>10. /\ b \in Proc /\ b.user = "fork" /\ b.flags = a.flags /\ b.vfs = a.vfs
       /\ b.parent = a.parent /\ b.tracer = a.tracer /\ b.sched = a.sched /\ b.grp = a.grp
  BY <1>1 DEF Proc, UserStates, Doing
<1>11. Fine(V, <<>>, NO_SLOT) /\ V.mproc = mproc
  BY <1>1, CountedFine DEF Counted
<1>12. Forked(p, c, slot, "fork", "fork") = IF slot.tracer # NO_SLOT
                                            THEN sig_proc(Upd(W, c, q), c, SIGSTOP) ELSE Upd(W, c, q)
  <2>1. State \in StateT /\ slot \in Proc /\ "fork" \in VfsCalls /\ "fork" \in UserStates
    BY <1>1, <1>8 DEF VfsCalls, UserStates
  <2> QED
    BY <1>6, <1>8, <2>1, ForkedIs
<1> HIDE DEF q, b, V
<1>13. Quiet(a, b) /\ SlotOk(p, b) /\ "TOLD_PARENT" \notin b.flags
  BY <1>2, <1>3, <1>10 DEF Quiet, SlotOk, SystemOk
<1>14. Fine(W, <<>>, NO_SLOT)
  BY <1>10, <1>11, <1>13, QuietUpd
<1>15. W.mproc[p] = b /\ \A s \in Slots : s # p => W.mproc[s] = mproc[s]
  <2>1. V \in StateT
    BY <1>11 DEF Fine
  <2>2. W.mproc[p] = b /\ \A s \in Slots : s # p => W.mproc[s] = V.mproc[s]
    BY <1>10, <2>1, UpdFacts
  <2> QED
    BY <1>11, <2>2
<1> HIDE DEF W
<1>16. \A s \in Slots : Forking(mproc[s]) => mproc[s].parent # p
  BY <1>1, <1>2, NobodyExcused DEF ForksOk
<1>17. \A s \in Slots : Forking(W.mproc[s]) => W.mproc[s].parent # p
  BY <1>2, <1>10, <1>15, <1>16 DEF Forking
<1>18. Live(W, p) /\ "IN_USE" \notin W.mproc[c].flags /\ W.mproc[p].user = "fork"
       /\ W.mproc[p].tracer = a.tracer
  BY <1>2, <1>6, <1>10, <1>15 DEF Live, Has
<1>19. c \notin SystemSlots
  BY <1>1, <1>6 DEF SlotOk, SystemOk
<1>20. SlotOk(c, q)
  BY <1>9, <1>19 DEF SlotOk
<1>21. Fine(Upd(W, c, q), <<>>, NO_SLOT)
  BY <1>6, <1>8, <1>9, <1>14, <1>17, <1>18, <1>20, BornFine
<1>22. Live(Upd(W, c, q), c)
  <2>1. W \in StateT
    BY <1>14 DEF Fine
  <2>2. Upd(W, c, q).mproc[c] = q
    BY <1>6, <1>9, <2>1, UpdFacts
  <2> QED
    BY <1>9, <2>2 DEF Live, Has
<1>23. Fine(sig_proc(Upd(W, c, q), c, SIGSTOP), <<>>, NO_SLOT)
  BY <1>6, <1>21, <1>22, SigProcFine DEF Signals
<1> QED
  BY <1>1, <1>5, <1>12, <1>21, <1>23, BecomesFine

\* srv_fork.
LEMMA SrvForkFamily ==
    ASSUME IInv, FInv, NEW uid \in Uids, do_srv_fork(uid)
    PROVE  FInv'
<1> DEFINE p == RS_PROC_NR
           a == mproc[p]
           slot0 == ForkedSlot(p, {"IN_USE", "PRIV_PROC"})
           slot == [slot0 EXCEPT !.uid = uid]
           V == Counted(State)
           b == Doing(a, "run")
           W == Upd(V, p, b)
           q1 == Asked(slot, "srv_fork")
           q == [q1 EXCEPT !.user = "run"]
<1>1. p \in Slots /\ p \in SystemSlots /\ p # INIT_PROC_NR
  BY NrProcsAssumption DEF RS_PROC_NR, INIT_PROC_NR, Slots, SystemSlots
<1>2. /\ Fine(State, <<>>, NO_SLOT) /\ stack = <<>> /\ State \in StateT /\ State.mproc = mproc
      /\ a \in Proc
      /\ \A s \in Slots : SlotOk(s, mproc[s])
      /\ Running(p) /\ ~TableFull(p) /\ stack' = <<>>
  BY <1>1, FInvFacts DEF do_srv_fork, Ready, Idle
<1>3. SlotOk(p, a) /\ SystemOk(p, a)
  BY <1>1, <1>2 DEF SlotOk
<1>4. /\ a.user = "run" /\ "IN_USE" \in a.flags /\ "EXITING" \notin a.flags
      /\ a.tracer = NO_SLOT /\ "PRIV_PROC" \in a.flags /\ ~a.sched
  BY <1>1, <1>2, <1>3, RunningFacts DEF SystemOk, SlotOk
<1>5. FreeSlots # {}
  BY <1>2, RoomLeft
<1>6. PICK c \in FreeSlots : Becomes(Reply(Forked(p, c, slot, "srv_fork", "run"), c, "born"))
  BY <1>5 DEF do_srv_fork
<1>7. c \in Slots /\ "IN_USE" \notin mproc[c].flags /\ p # c
  BY <1>4, <1>6 DEF FreeSlots
<1>8. p \in Used(State)
  BY <1>1, <1>2, <1>4 DEF Used
<1>9. /\ slot0 \in Proc /\ slot0.flags = a.flags \cap {"IN_USE", "PRIV_PROC"} /\ slot0.vfs = "none"
      /\ slot0.user = "born" /\ slot0.parent = p /\ slot0.sched = a.sched
      /\ slot0.tracer = NO_SLOT \/ slot0.tracer = a.tracer
  BY <1>8, ForkedSlotFields DEF Flags
<1> HIDE DEF p, slot0
<1>10. /\ slot \in Proc /\ slot.flags = {"IN_USE", "PRIV_PROC"} /\ slot.vfs = "none"
       /\ slot.user = "born" /\ slot.parent = p /\ slot.sched = a.sched /\ slot.tracer = NO_SLOT
  BY <1>4, <1>9 DEF Proc
<1> HIDE DEF slot
<1>11. /\ q1 \in Proc /\ q1.flags = {"IN_USE", "PRIV_PROC"} /\ q1.vfs = "srv_fork"
       /\ q1.user = "born" /\ q1.parent = p /\ q1.sched = a.sched /\ q1.tracer = NO_SLOT
  BY <1>10 DEF Proc, VfsCalls, Asked
<1>12. Fine(V, <<>>, NO_SLOT) /\ V.mproc = mproc
  BY <1>2, CountedFine DEF Counted
<1>13. Forked(p, c, slot, "srv_fork", "run") = Upd(W, c, q1)
  <2>1. State \in StateT /\ slot \in Proc /\ "srv_fork" \in VfsCalls /\ "run" \in UserStates
    BY <1>2, <1>10 DEF VfsCalls, UserStates
  <2> QED
    BY <1>1, <1>7, <1>10, <2>1, ForkedIs
<1> HIDE DEF q1
<1>14. /\ q \in Proc /\ q.flags = {"IN_USE", "PRIV_PROC"} /\ q.vfs = "srv_fork"
       /\ q.user = "run" /\ q.parent = p /\ q.sched = a.sched /\ q.tracer = NO_SLOT
  BY <1>11 DEF Proc, UserStates
<1>15. b = a
  BY <1>2, <1>4 DEF Proc, Doing
<1> HIDE DEF b, V
<1>16. V \in StateT
  BY <1>12 DEF Fine
<1>17. W = V
  <2>1. b = V.mproc[p]
    BY <1>12, <1>15
  <2> QED
    BY <1>1, <1>16, <2>1 DEF Upd, StateT
<1> HIDE DEF W
<1>18. Upd(V, c, q1).mproc[c] = q1
  BY <1>7, <1>11, <1>16, UpdFacts
<1>19. Reply(Upd(V, c, q1), c, "born") = Upd(Upd(V, c, q1), c, q)
  <2> DEFINE X == Upd(V, c, q1)
  <2>1. X.mproc[c] = q1
    BY <1>18
  <2>2. Reply(X, c, "born") = [X EXCEPT !.mproc[c] = [X.mproc[c] EXCEPT !.user = "run"]]
    <3> HIDE DEF X
    <3> QED
      BY <1>11, <2>1 DEF Reply
  <2> HIDE DEF X
  <2>3. Reply(X, c, "born") = Upd(X, c, q)
    BY <2>1, <2>2 DEF Upd
  <2> QED
    BY <2>3 DEF X
<1> HIDE DEF q
<1>20. Upd(Upd(V, c, q1), c, q) = Upd(V, c, q)
  BY <1>7, <1>11, <1>14, <1>16, UpdTwice
<1>21. c \notin SystemSlots
  BY <1>2, <1>7 DEF SlotOk, SystemOk
<1>22. SlotOk(c, q)
  BY <1>4, <1>14, <1>21 DEF SlotOk
<1>23. Live(V, p) /\ ~Forking(q)
  BY <1>4, <1>12, <1>14 DEF Live, Has, Forking
<1>24. Fine(Upd(V, c, q), <<>>, NO_SLOT)
  BY <1>1, <1>7, <1>12, <1>14, <1>22, <1>23, BornFine
<1>25. Becomes(Upd(V, c, q))
  BY <1>6, <1>13, <1>17, <1>19, <1>20 DEF p
<1> QED
  BY <1>2, <1>24, <1>25, BecomesFine

-----------------------------------------------------------------------------
(* The loops of exit_proc.                                                   *)

\* Another stack that still excuses everybody who needs it.
LEMMA RestackFine ==
    ASSUME NEW S, NEW stk, NEW x, Fine(S, stk, x), NEW stk2 \in Seq(Frame), FramesOk(S.mproc, stk2),
           \A s \in Slots : "IN_USE" \in S.mproc[s].flags =>
             \A p \in {S.mproc[s].parent, S.mproc[s].tracer} :
               p \in Slots /\ Excused(stk, p, s) => Excused(stk2, p, s)
    PROVE  Fine(S, stk2, x)
<1> DEFINE m == S.mproc
<1>1. /\ S \in StateT /\ S.fault = "none"
      /\ \A s \in Slots : SlotOk(s, m[s])
      /\ FamilyOk(m, stk) /\ ForksOk(m, stk) /\ TracesOk(m, stk)
  BY DEF Fine
<1>2. \A s \in Slots : /\ m[s].parent \in Slots
                       /\ m[s].tracer # NO_SLOT => m[s].tracer \in Slots
  BY <1>1, SlotFacts
<1>3. \A s \in Slots : "IN_USE" \in m[s].flags =>
        /\ Excused(stk, m[s].parent, s) => Excused(stk2, m[s].parent, s)
        /\ m[s].tracer # NO_SLOT /\ Excused(stk, m[s].tracer, s) => Excused(stk2, m[s].tracer, s)
  BY <1>2
<1> HIDE DEF m
<1>4. FamilyOk(m, stk2)
  BY <1>1, <1>3 DEF FamilyOk, There
<1>5. ForksOk(m, stk2)
  <2>1. \A s \in Slots : Forking(m[s]) => "IN_USE" \in m[s].flags
    BY <1>1 DEF Forking, SlotOk, FreeSlot
  <2> QED
    BY <1>1, <1>3, <2>1 DEF ForksOk
<1>6. TracesOk(m, stk2)
  <2>1. \A s \in Slots : Leaving(m[s]) => "IN_USE" \in m[s].flags /\ m[s].tracer # NO_SLOT
    BY <1>1 DEF Leaving, SlotOk, FreeSlot
  <2> QED
    BY <1>1, <1>3, <2>1 DEF TracesOk
<1> QED
  BY <1>4, <1>5, <1>6 DEF Fine, m

\* A stack in its two parts.
LEMMA StackParts ==
    ASSUME FInv, stack # <<>>
    PROVE  /\ stack \in Seq(Frame) /\ Top \in Frame /\ Below \in Seq(Frame)
           /\ \E i \in DOMAIN stack : stack[i] = Top
           /\ \A i \in DOMAIN stack : stack[i] = Top \/ (i \in DOMAIN Below /\ Below[i] = stack[i])
           /\ \A i \in DOMAIN Below : i \in DOMAIN stack /\ Below[i] = stack[i]
<1>1. stack \in Seq(Frame) /\ Len(stack) \in Nat /\ Len(stack) > 0 /\ DOMAIN stack = 1 .. Len(stack)
  BY DEF FInv, Fine
<1>2. /\ Below \in Seq(Frame) /\ DOMAIN Below = 1 .. Len(stack) - 1
      /\ \A i \in 1 .. Len(stack) - 1 : Below[i] = stack[i]
  BY <1>1 DEF Below
<1>3. Top \in Frame /\ Len(stack) \in DOMAIN stack
  BY <1>1 DEF Top
<1> DEFINE n == Len(stack)
<1>4. /\ n \in Nat /\ DOMAIN stack = 1 .. n /\ DOMAIN Below = 1 .. n - 1
      /\ n \in DOMAIN stack /\ stack[n] = Top
      /\ \A i \in 1 .. n - 1 : Below[i] = stack[i]
  BY <1>1, <1>2, <1>3 DEF Top
<1> HIDE DEF n
<1>5. \A i \in 1 .. n : i = n \/ i \in 1 .. n - 1
  BY <1>4
<1>6. \A i \in 1 .. n - 1 : i \in 1 .. n
  BY <1>4
<1> QED
  BY <1>1, <1>2, <1>3, <1>4, <1>5, <1>6

\* What replacing the innermost frame, or dropping it, does to those it excuses.
LEMMA TopReplaced ==
    ASSUME FInv, stack # <<>>, NEW g \in Frame, g.p = Top.p, g.hup => g.pg # NoPid
    PROVE  LET stk == Append(Below, g)
           IN  /\ stk \in Seq(Frame) /\ FramesOk(mproc, stk) /\ FramesOk(mproc, Below)
               /\ \A p, s \in Slots : Excused(stack, p, s) =>
                    \/ Excused(Below, p, s) /\ Excused(stk, p, s)
                    \/ Top.p = p /\ ~Top.hup /\ Top.k <= s
               /\ \A s \in Slots : ~g.hup /\ g.k <= s => Excused(stk, g.p, s)
<1> DEFINE stk == Append(Below, g)
<1>1. /\ stack \in Seq(Frame) /\ Top \in Frame /\ Below \in Seq(Frame)
      /\ \E i \in DOMAIN stack : stack[i] = Top
      /\ \A i \in DOMAIN stack : stack[i] = Top \/ (i \in DOMAIN Below /\ Below[i] = stack[i])
      /\ \A i \in DOMAIN Below : i \in DOMAIN stack /\ Below[i] = stack[i]
  BY StackParts
<1>2. FramesOk(mproc, stack)
  BY FInvFacts DEF Fine
<1>3. /\ stk \in Seq(Frame)
      /\ \A i \in DOMAIN Below : i \in DOMAIN stk /\ stk[i] = Below[i]
      /\ \A i \in DOMAIN stk : i \in DOMAIN Below \/ stk[i] = g
      /\ \E i \in DOMAIN stk : stk[i] = g
  BY <1>1, AppendFacts
<1> HIDE DEF stk
<1>4. FramesOk(mproc, Below)
  BY <1>1, <1>2 DEF FramesOk
<1>5. FramesOk(mproc, stk)
  <2>1. "EXITING" \in mproc[Top.p].flags /\ mproc[Top.p].vfs # "none"
    BY <1>1, <1>2 DEF FramesOk
  <2>2. \A i \in DOMAIN stk : (i \in DOMAIN Below /\ stk[i] = Below[i]) \/ stk[i] = g
    BY <1>3
  <2> QED
    BY <1>4, <2>1, <2>2 DEF FramesOk
<1>6. \A p, s \in Slots : Excused(stack, p, s) =>
        \/ Excused(Below, p, s)
        \/ Top.p = p /\ ~Top.hup /\ Top.k <= s
  BY <1>1 DEF Excused
<1>7. \A p, s \in Slots : Excused(Below, p, s) => Excused(stk, p, s)
  BY <1>3 DEF Excused
<1>8. \A s \in Slots : ~g.hup /\ g.k <= s => Excused(stk, g.p, s)
  BY <1>3 DEF Excused
<1> QED
  BY <1>3, <1>4, <1>5, <1>6, <1>7, <1>8 DEF stk

\* The slot that the loop comes to next.
LEMMA NextBereaved ==
    ASSUME FInv, NEW f \in Frame, Bereaved(f) # {}
    PROVE  LET k == Least(Bereaved(f))
           IN  /\ k \in Slots /\ "IN_USE" \in mproc[k].flags /\ f.k <= k
               /\ mproc[k].tracer = f.p \/ mproc[k].parent = f.p
               /\ \A s \in Slots : /\ "IN_USE" \in mproc[s].flags /\ f.k <= s
                                   /\ mproc[s].tracer = f.p \/ mproc[s].parent = f.p
                                   => k <= s
<1> DEFINE k == Least(Bereaved(f))
<1>1. f.k \in Nat
  BY DEF Frame
<1>2. Bereaved(f) \in SUBSET Slots /\ Bereaved(f) \in SUBSET Nat
  BY <1>1, NrProcsAssumption DEF Bereaved, Slots
<1>3. k \in Bereaved(f) /\ \A s \in Bereaved(f) : k <= s
  BY <1>2, LeastOfNats
<1>4. \A s \in Slots : f.k <= s => s \in f.k .. NR_PROCS - 1
  BY <1>1, NrProcsAssumption DEF Slots
<1>5. \A s \in Bereaved(f) : /\ s \in Slots /\ f.k <= s /\ "IN_USE" \in mproc[s].flags
                             /\ mproc[s].tracer = f.p \/ mproc[s].parent = f.p
  BY <1>1, <1>2 DEF Bereaved
<1>6. \A s \in Slots : /\ "IN_USE" \in mproc[s].flags /\ f.k <= s
                       /\ mproc[s].tracer = f.p \/ mproc[s].parent = f.p
                       => s \in Bereaved(f)
  BY <1>4 DEF Bereaved
<1> HIDE DEF k
<1> QED
  BY <1>3, <1>5, <1>6 DEF k

\* Slots that the loop passes over do not need the frame.
LEMMA LoopAt ==
    ASSUME FInv, stack # <<>>, ~Top.hup, Bereaved(Top) # {}
    PROVE  Fine(State, Append(Below, [Top EXCEPT !.k = Least(Bereaved(Top))]), NO_SLOT)
<1> DEFINE f == Top
           k == Least(Bereaved(f))
           g == [f EXCEPT !.k = k]
           stk == Append(Below, g)
<1>1. f \in Frame
  BY StackParts
<1>2. /\ k \in Slots
      /\ \A s \in Slots : /\ "IN_USE" \in mproc[s].flags /\ f.k <= s
                          /\ mproc[s].tracer = f.p \/ mproc[s].parent = f.p
                          => k <= s
  BY <1>1, NextBereaved
<1> HIDE DEF k
<1>3. g \in Frame
  BY <1>1, <1>2, FrameAt
<1>4. g.p = f.p /\ g.k = k /\ ~g.hup
  BY <1>1 DEF Frame
<1> HIDE DEF f, g
<1>5. /\ stk \in Seq(Frame) /\ FramesOk(mproc, stk)
      /\ \A p, s \in Slots : Excused(stack, p, s) =>
           Excused(stk, p, s) \/ (f.p = p /\ f.k <= s)
      /\ \A s \in Slots : g.k <= s => Excused(stk, g.p, s)
  BY <1>3, <1>4, TopReplaced DEF f
<1> HIDE DEF stk
<1>6. Fine(State, stack, NO_SLOT) /\ State.mproc = mproc
  BY FInvFacts
<1>7. \A s \in Slots : "IN_USE" \in mproc[s].flags =>
        \A p \in {mproc[s].parent, mproc[s].tracer} :
          p \in Slots /\ Excused(stack, p, s) => Excused(stk, p, s)
  BY <1>2, <1>4, <1>5
<1>8. Fine(State, stk, NO_SLOT)
  BY <1>5, <1>6, <1>7, RestackFine
<1> QED
  BY <1>8 DEF stk, g, f, k

\* The end of the loop over the table: nobody needs the frame any more.
LEMMA LoopEndFamily ==
    ASSUME FInv, LoopEnd
    PROVE  FInv'
<1> DEFINE f == Top
           g == [f EXCEPT !.k = 0, !.hup = TRUE]
           stk == Append(Below, g)
<1>1. stack # <<>> /\ ~f.hup /\ Bereaved(f) = {}
  BY DEF LoopEnd
<1>2. f \in Frame /\ Below \in Seq(Frame)
  BY <1>1, StackParts
<1>3. 0 \in Slots /\ f.k \in Nat
  BY <1>2, NrProcsAssumption DEF Slots, Frame
<1>4. g \in Frame
  BY <1>2, <1>3, FrameAt
<1>5. g.p = f.p /\ g.pg = f.pg
  BY <1>2 DEF Frame
<1>6. \A s \in Slots : "IN_USE" \in mproc[s].flags /\ f.k <= s =>
        mproc[s].tracer # f.p /\ mproc[s].parent # f.p
  <2>1. \A s \in Slots : f.k <= s => s \in f.k .. NR_PROCS - 1
    BY <1>3, NrProcsAssumption DEF Slots
  <2> QED
    BY <1>1, <2>1 DEF Bereaved
<1>7. IF f.pg # NoPid THEN stack' = stk ELSE stack' = Below
  BY DEF LoopEnd
<1>8. State' = State
  BY DEF LoopEnd, State
<1>9. Fine(State, stack, NO_SLOT) /\ State.mproc = mproc
  BY FInvFacts
<1>10. Becomes(State)
  BY DEF LoopEnd, Becomes, State
<1> HIDE DEF f, g
<1>11. CASE f.pg # NoPid
  <2>1. /\ stk \in Seq(Frame) /\ FramesOk(mproc, stk)
        /\ \A p, s \in Slots : Excused(stack, p, s) =>
             Excused(stk, p, s) \/ (f.p = p /\ f.k <= s)
    BY <1>1, <1>4, <1>5, <1>11, TopReplaced DEF f
  <2> HIDE DEF stk
  <2>2. \A s \in Slots : "IN_USE" \in mproc[s].flags =>
          \A p \in {mproc[s].parent, mproc[s].tracer} :
            p \in Slots /\ Excused(stack, p, s) => Excused(stk, p, s)
    BY <1>6, <2>1
  <2>3. Fine(State, stk, NO_SLOT)
    BY <1>9, <2>1, <2>2, RestackFine
  <2> QED
    BY <1>7, <1>10, <1>11, <2>3, BecomesFine
<1>12. CASE f.pg = NoPid
  <2>1. /\ FramesOk(mproc, Below)
        /\ \A p, s \in Slots : Excused(stack, p, s) =>
             Excused(Below, p, s) \/ (f.p = p /\ f.k <= s)
    BY <1>1, <1>2, TopReplaced DEF f
  <2>2. \A s \in Slots : "IN_USE" \in mproc[s].flags =>
          \A p \in {mproc[s].parent, mproc[s].tracer} :
            p \in Slots /\ Excused(stack, p, s) => Excused(Below, p, s)
    BY <1>6, <2>1
  <2>3. Fine(State, Below, NO_SLOT)
    BY <1>2, <1>9, <2>1, <2>2, RestackFine
  <2> QED
    BY <1>7, <1>10, <1>12, <2>3, BecomesFine
<1> QED
  BY <1>11, <1>12

\* A process loses its tracer.
LEMMA UntracedFine ==
    ASSUME NEW S, NEW stk, NEW x, Fine(S, stk, x), NEW c \in Slots, NEW r \in Proc,
           "IN_USE" \in S.mproc[c].flags, r.tracer = NO_SLOT,
           r.flags = S.mproc[c].flags \ {"TRACE_EXIT"}, r.user = S.mproc[c].user,
           r.vfs = S.mproc[c].vfs, r.parent = S.mproc[c].parent, r.sched = S.mproc[c].sched,
           r.grp = S.mproc[c].grp
    PROVE  Fine(Upd(S, c, r), stk, x)
<1> DEFINE T == Upd(S, c, r)
           m == S.mproc
           n == T.mproc
<1>1. /\ S \in StateT /\ S.fault = "none" /\ stk \in Seq(Frame)
      /\ \A s \in Slots : SlotOk(s, m[s])
      /\ \A s \in Slots : s # x /\ "TOLD_PARENT" \in m[s].flags => m[s].vfs # "none"
      /\ FamilyOk(m, stk) /\ ForksOk(m, stk) /\ TracesOk(m, stk) /\ FramesOk(m, stk)
  BY DEF Fine
<1>2. /\ T \in StateT /\ T.fault = "none" /\ n[c] = r
      /\ \A s \in Slots : s # c => n[s] = m[s]
  <2>1. S \in StateT /\ S.fault = "none"
    BY <1>1
  <2> QED
    BY <2>1, UpdFacts
<1>3. \A s \in Slots : /\ m[s].parent \in Slots
                       /\ m[s].tracer # NO_SLOT => m[s].tracer \in Slots
  BY <1>1, SlotFacts
<1>4. /\ r.flags = m[c].flags \ {"TRACE_EXIT"} /\ r.user = m[c].user /\ r.grp = m[c].grp
      /\ r.vfs = m[c].vfs /\ r.parent = m[c].parent /\ r.sched = m[c].sched
      /\ "IN_USE" \in m[c].flags
  OBVIOUS
<1> HIDE DEF T, m, n
<1>5. SlotOk(c, r)
  BY <1>1, <1>4 DEF SlotOk, SystemOk
<1>6. \A s \in Slots : SlotOk(s, n[s])
  BY <1>1, <1>2, <1>5
<1>7. \A s \in Slots : s # x /\ "TOLD_PARENT" \in n[s].flags => n[s].vfs # "none"
  BY <1>1, <1>2, <1>4
<1>8. \A s \in Slots : /\ n[s].parent = m[s].parent
                       /\ n[s].user = m[s].user /\ n[s].vfs = m[s].vfs
                       /\ s # c => n[s] = m[s]
                       /\ "IN_USE" \in n[s].flags <=> "IN_USE" \in m[s].flags
                       /\ "EXITING" \in n[s].flags <=> "EXITING" \in m[s].flags
                       /\ "NEW_PARENT" \in n[s].flags <=> "NEW_PARENT" \in m[s].flags
  BY <1>2, <1>4
<1>9. FamilyOk(n, stk)
  <2>1. \A p, s \in Slots : There(m, stk, p, s) => There(n, stk, p, s)
    BY <1>8 DEF There
  <2> QED
    BY <1>1, <1>2, <1>3, <1>8, <2>1 DEF FamilyOk
<1>10. ForksOk(n, stk)
  BY <1>1, <1>3, <1>8 DEF ForksOk, Forking
<1>11. TracesOk(n, stk)
  <2>1. \A s \in Slots : Leaving(n[s]) => s # c
    BY <1>2, <1>4 DEF Leaving
  <2>2. \A s \in Slots : Leaving(n[s]) => Leaving(m[s]) /\ n[s] = m[s] /\ m[s].tracer \in Slots
    BY <1>1, <1>3, <1>8, <2>1 DEF Leaving, SlotOk
  <2> QED
    BY <1>1, <1>8, <2>2 DEF TracesOk
<1>12. FramesOk(n, stk)
  <2>1. \A i \in DOMAIN stk : stk[i].p \in Slots
    BY <1>1, FrameType
  <2> QED
    BY <1>1, <1>8, <2>1 DEF FramesOk
<1> QED
  BY <1>1, <1>2, <1>6, <1>7, <1>9, <1>10, <1>11, <1>12 DEF Fine, T, n

\* A zombie that its tracer has not seen becomes its parent's.
LEMMA ReleasedFine ==
    ASSUME NEW S, NEW stk, NEW x, Fine(S, stk, x), NEW c \in Slots,
           "TRACE_ZOMBIE" \in S.mproc[c].flags
    PROVE  LET T == Set(Clear(S, c, {"TRACE_ZOMBIE"}), c, {"ZOMBIE"})
           IN  Fine(T, stk, x) /\ "ZOMBIE" \in T.mproc[c].flags
<1> DEFINE r == S.mproc[c]
           fs == (r.flags \ {"TRACE_ZOMBIE"}) \cup {"ZOMBIE"}
           q == [r EXCEPT !.flags = fs]
<1>1. S \in StateT /\ SlotOk(c, r) /\ (c # x /\ "TOLD_PARENT" \in r.flags => r.vfs # "none")
  BY DEF Fine
<1>2. r \in Proc /\ r.flags \in SUBSET Flags
  BY <1>1, SlotFacts
<1>3. /\ q \in Proc /\ q.user = r.user /\ q.flags = fs /\ q.vfs = r.vfs
      /\ q.parent = r.parent /\ q.tracer = r.tracer /\ q.sched = r.sched /\ q.grp = r.grp
  BY <1>2, FlagFacts DEF Flags
<1>4. Set(Clear(S, c, {"TRACE_ZOMBIE"}), c, {"ZOMBIE"}) = Upd(S, c, q)
  BY <1>1, Flagged DEF Flags
<1> HIDE DEF q
<1>5. c \notin SystemSlots /\ "IN_USE" \in r.flags
  BY <1>1 DEF SlotOk, SystemOk, FreeSlot
<1>6. Quiet(r, q) /\ SlotOk(c, q) /\ "TOLD_PARENT" \notin q.flags
  BY <1>1, <1>3, <1>5 DEF Quiet, SlotOk
<1>7. Fine(Upd(S, c, q), stk, x)
  BY <1>3, <1>6, QuietUpd
<1>8. Upd(S, c, q).mproc[c] = q
  BY <1>1, <1>3, UpdFacts
<1> QED
  BY <1>3, <1>4, <1>7, <1>8

\* tracer_died.
LEMMA TracerDiedFine ==
    ASSUME NEW S, NEW stk, Fine(S, stk, NO_SLOT), NEW c \in Slots,
           "IN_USE" \in S.mproc[c].flags
    PROVE  /\ Fine(tracer_died(S, c), stk, NO_SLOT)
           /\ "EXITING" \notin S.mproc[c].flags => Live(tracer_died(S, c), c)
<1> DEFINE r == S.mproc[c]
           fs == r.flags \ {"TRACE_EXIT"}
           r1 == [r EXCEPT !.flags = fs]
           q == [r1 EXCEPT !.tracer = NO_SLOT]
           T1 == Upd(S, c, r1)
           S1 == [Clear(S, c, {"TRACE_EXIT"}) EXCEPT !.mproc[c].tracer = NO_SLOT]
           S2 == Set(Clear(S1, c, {"TRACE_ZOMBIE"}), c, {"ZOMBIE"})
<1>0. tracer_died(S, c) = IF Has(S1, c, "TRACE_ZOMBIE") THEN check_parent(S2, c, TRUE) ELSE S1
  BY DEF tracer_died
<1>1. S \in StateT /\ SlotOk(c, r)
  BY DEF Fine
<1>2. r \in Proc /\ r.flags \in SUBSET Flags
  BY <1>1, SlotFacts
<1>3. r1 \in Proc
  BY <1>2, FlagFacts
<1>4. /\ q \in Proc /\ q.user = r.user /\ q.flags = fs /\ q.vfs = r.vfs
      /\ q.parent = r.parent /\ q.tracer = NO_SLOT /\ q.sched = r.sched /\ q.grp = r.grp
  BY <1>2 DEF Proc
<1>5. Clear(S, c, {"TRACE_EXIT"}) = T1
  BY DEF Clear, Upd
<1>6. T1.mproc[c] = r1
  BY <1>1, <1>3, UpdFacts
<1>7. S1 = Upd(S, c, q)
  <2>1. S1 = Upd(T1, c, q)
    <3> HIDE DEF T1, r1
    <3> QED
      BY <1>5, <1>6 DEF Upd
  <2> HIDE DEF r1, q, S1
  <2> QED
    BY <1>1, <1>3, <1>4, <2>1, UpdTwice
<1> HIDE DEF q, S1
<1>8. Fine(Upd(S, c, q), stk, NO_SLOT)
  BY <1>4, UntracedFine
<1>9. Fine(S1, stk, NO_SLOT) /\ S1.mproc[c] = q
  BY <1>1, <1>4, <1>7, <1>8, UpdFacts
<1> HIDE DEF S2
<1>10. Has(S1, c, "TRACE_ZOMBIE") => Fine(check_parent(S2, c, TRUE), stk, NO_SLOT)
  <2>1. Has(S1, c, "TRACE_ZOMBIE") => Fine(S2, stk, NO_SLOT) /\ "ZOMBIE" \in S2.mproc[c].flags
    BY <1>9, ReleasedFine DEF Has, S2
  <2> QED
    BY <2>1, CheckParentFine
<1>11. "EXITING" \notin r.flags => ~Has(S1, c, "TRACE_ZOMBIE") /\ Live(S1, c)
  BY <1>1, <1>4, <1>9 DEF SlotOk, Has, Live
<1> QED
  BY <1>0, <1>9, <1>10, <1>11

\* An iteration that finds a tracee.
LEMMA LoopTracerDiedFamily ==
    ASSUME FInv, LoopTracerDied
    PROVE  FInv'
<1> DEFINE f == Top
           k == Least(Bereaved(f))
           S == tracer_died(State, k)
           stk == Append(Below, [f EXCEPT !.k = k])
<1>1. stack # <<>> /\ ~f.hup /\ Bereaved(f) # {} /\ mproc[k].tracer = f.p
  BY DEF LoopTracerDied
<1>2. f \in Frame
  BY <1>1, StackParts
<1>3. k \in Slots /\ "IN_USE" \in mproc[k].flags
  BY <1>1, <1>2, NextBereaved
<1>4. Fine(State, stk, NO_SLOT)
  BY <1>1, LoopAt
<1>5. f.p \in Slots /\ f.cg \in PidOrNone /\ SIGKILL \in Signals
  BY <1>2 DEF Frame, PidOrNone, Signals
<1>6. \/ Becomes(S) /\ stack' = stk
      \/ /\ "EXITING" \notin mproc[k].flags /\ Signal(S, stk, k, SIGKILL, f.cg)
  BY DEF LoopTracerDied, Has, State
<1>7. SlotOk(k, mproc[k]) /\ State.mproc = mproc
  BY <1>3, FInvFacts
<1>8. k \notin SystemSlots
  BY <1>1, <1>5, <1>7 DEF SlotOk, SystemOk, NO_SLOT, Slots
<1> HIDE DEF f, k, stk
<1>9. Fine(S, stk, NO_SLOT) /\ ("EXITING" \notin mproc[k].flags => Live(S, k))
  BY <1>3, <1>4, <1>7, TracerDiedFine
<1> HIDE DEF S
<1>10. CASE Becomes(S) /\ stack' = stk
  BY <1>9, <1>10, BecomesFine
<1>11. CASE "EXITING" \notin mproc[k].flags /\ Signal(S, stk, k, SIGKILL, f.cg)
  BY <1>3, <1>5, <1>8, <1>9, <1>11, SignalFine
<1> QED
  BY <1>6, <1>10, <1>11

\* A child is inherited by INIT; if VFS is busy with it, its old parent gets no answer.
LEMMA AdoptedFine ==
    ASSUME NEW S, NEW stk, NEW x, Fine(S, stk, x), NEW c \in Slots, NEW r \in Proc,
           "IN_USE" \in S.mproc[c].flags, r.parent = INIT_PROC_NR,
           r.flags = S.mproc[c].flags \cup (IF S.mproc[c].vfs # "none" THEN {"NEW_PARENT"} ELSE {}),
           r.user = S.mproc[c].user, r.vfs = S.mproc[c].vfs, r.tracer = S.mproc[c].tracer,
           r.sched = S.mproc[c].sched, r.grp = S.mproc[c].grp
    PROVE  Fine(Upd(S, c, r), stk, x)
<1> DEFINE T == Upd(S, c, r)
           m == S.mproc
           n == T.mproc
<1>1. /\ S \in StateT /\ S.fault = "none" /\ stk \in Seq(Frame)
      /\ \A s \in Slots : SlotOk(s, m[s])
      /\ \A s \in Slots : s # x /\ "TOLD_PARENT" \in m[s].flags => m[s].vfs # "none"
      /\ FamilyOk(m, stk) /\ ForksOk(m, stk) /\ TracesOk(m, stk) /\ FramesOk(m, stk)
  BY DEF Fine
<1>2. /\ T \in StateT /\ T.fault = "none" /\ n[c] = r
      /\ \A s \in Slots : s # c => n[s] = m[s]
  <2>1. S \in StateT /\ S.fault = "none"
    BY <1>1
  <2> QED
    BY <2>1, UpdFacts
<1>3. \A s \in Slots : /\ m[s].parent \in Slots
                       /\ m[s].tracer # NO_SLOT => m[s].tracer \in Slots
  BY <1>1, SlotFacts
<1>4. /\ r.user = m[c].user /\ r.grp = m[c].grp
      /\ r.vfs = m[c].vfs /\ r.tracer = m[c].tracer /\ r.sched = m[c].sched
      /\ "IN_USE" \in m[c].flags
      /\ m[c].vfs # "none" => "NEW_PARENT" \in r.flags
      /\ \A fl \in Flags : fl # "NEW_PARENT" => (fl \in r.flags <=> fl \in m[c].flags)
  OBVIOUS
<1>5. INIT_PROC_NR \in Slots /\ INIT_PROC_NR \in SystemSlots
  BY NrProcsAssumption DEF INIT_PROC_NR, Slots, SystemSlots
<1> HIDE DEF T, m, n
<1>6. SlotOk(c, r)
  BY <1>1, <1>4 DEF SlotOk, SystemOk, Flags
<1>7. \A s \in Slots : SlotOk(s, n[s])
  BY <1>1, <1>2, <1>6
<1>8. \A s \in Slots : s # x /\ "TOLD_PARENT" \in n[s].flags => n[s].vfs # "none"
  BY <1>1, <1>2, <1>4 DEF Flags
<1>9. \A s \in Slots : /\ n[s].tracer = m[s].tracer
                       /\ n[s].user = m[s].user /\ n[s].vfs = m[s].vfs
                       /\ s # c => n[s] = m[s]
                       /\ "IN_USE" \in n[s].flags <=> "IN_USE" \in m[s].flags
                       /\ "EXITING" \in n[s].flags <=> "EXITING" \in m[s].flags
                       /\ "TRACE_EXIT" \in n[s].flags <=> "TRACE_EXIT" \in m[s].flags
  BY <1>2, <1>4 DEF Flags
<1>10. FamilyOk(n, stk)
  <2>1. \A p, s \in Slots : There(m, stk, p, s) => There(n, stk, p, s)
    BY <1>9 DEF There
  <2>2. There(n, stk, INIT_PROC_NR, c)
    BY <1>5, <1>7 DEF There, SlotOk, SystemOk
  <2> QED
    BY <1>1, <1>2, <1>3, <1>9, <2>1, <2>2 DEF FamilyOk
<1>11. ForksOk(n, stk)
  <2>1. ~Forking(r)
    BY <1>4 DEF Forking
  <2>2. \A s \in Slots : Forking(n[s]) => Forking(m[s]) /\ n[s] = m[s]
    BY <1>2, <2>1
  <2> QED
    BY <1>1, <1>3, <1>9, <2>2 DEF ForksOk
<1>12. TracesOk(n, stk)
  <2>1. \A s \in Slots : Leaving(n[s]) => Leaving(m[s]) /\ m[s].tracer \in Slots
    BY <1>1, <1>3, <1>9 DEF Leaving, SlotOk
  <2> QED
    BY <1>1, <1>9, <2>1 DEF TracesOk
<1>13. FramesOk(n, stk)
  <2>1. \A i \in DOMAIN stk : stk[i].p \in Slots
    BY <1>1, FrameType
  <2> QED
    BY <1>1, <1>9, <2>1 DEF FramesOk
<1> QED
  BY <1>1, <1>2, <1>7, <1>8, <1>10, <1>11, <1>12, <1>13 DEF Fine, T, n

\* A child's slot after the inheritance.
Adopted(r) ==
    [r EXCEPT !.parent = INIT_PROC_NR,
              !.flags = @ \cup (IF r.vfs # "none" THEN {"NEW_PARENT"} ELSE {})]

\* The fields of such a slot.
LEMMA AdoptedFacts ==
    ASSUME NEW r \in Proc
    PROVE  LET q == Adopted(r)
           IN  /\ q \in Proc /\ q.parent = INIT_PROC_NR
               /\ q.flags = r.flags \cup (IF r.vfs # "none" THEN {"NEW_PARENT"} ELSE {})
               /\ q.user = r.user /\ q.vfs = r.vfs /\ q.tracer = r.tracer
               /\ q.sched = r.sched /\ q.grp = r.grp
<1> DEFINE fs == r.flags \cup (IF r.vfs # "none" THEN {"NEW_PARENT"} ELSE {})
<1>1. fs \in SUBSET Flags
  BY DEF Proc, Flags
<1>2. INIT_PROC_NR \in Slots
  BY NrProcsAssumption DEF INIT_PROC_NR, Slots
<1>3. Adopted(r) = [r EXCEPT !.parent = INIT_PROC_NR, !.flags = fs]
  BY DEF Adopted
<1> HIDE DEF fs
<1>4. LET q == Adopted(r)
      IN  /\ q \in Proc /\ q.parent = INIT_PROC_NR /\ q.flags = fs
          /\ q.user = r.user /\ q.vfs = r.vfs /\ q.tracer = r.tracer
          /\ q.sched = r.sched /\ q.grp = r.grp
  BY <1>1, <1>2, <1>3 DEF Proc
<1> QED
  BY <1>4 DEF fs

\* disinherit is what it seems.
LEMMA DisinheritIs ==
    ASSUME NEW S \in StateT, NEW k \in Slots
    PROVE  LET T == Upd(S, k, Adopted(S.mproc[k]))
           IN  disinherit(S, k) = IF Has(T, k, "ZOMBIE") THEN check_parent(T, k, TRUE) ELSE T
<1> DEFINE r == S.mproc[k]
           r1 == [r EXCEPT !.parent = INIT_PROC_NR]
           q == Adopted(r)
           T == Upd(S, k, q)
           S1 == [S EXCEPT !.mproc[k].parent = INIT_PROC_NR]
           S2 == IF VfsBusy(S1, k) THEN Set(S1, k, {"NEW_PARENT"}) ELSE S1
<1>0. disinherit(S, k) = IF Has(S2, k, "ZOMBIE") THEN check_parent(S2, k, TRUE) ELSE S2
  BY DEF disinherit
<1>1. r \in Proc
  BY SlotFacts
<1>2. INIT_PROC_NR \in Slots
  BY NrProcsAssumption DEF INIT_PROC_NR, Slots
<1>3. r1 \in Proc /\ r1.vfs = r.vfs
  BY <1>1, <1>2 DEF Proc
<1>4. q \in Proc
  BY <1>1, AdoptedFacts
<1>5. S1 = Upd(S, k, r1)
  BY DEF Upd
<1>6. S1 \in StateT /\ S1.mproc[k] = r1
  <2> HIDE DEF r1, S1
  <2> QED
    BY <1>3, <1>5, UpdFacts
<1>7. S2 = T
  <2>1. CASE r.vfs = "none"
    <3>1. r1 = q
      BY <1>1, <2>1 DEF Adopted, Proc
    <3> HIDE DEF r1, q, S1
    <3> QED
      BY <1>3, <1>5, <1>6, <2>1, <3>1 DEF VfsBusy
  <2>2. CASE r.vfs # "none"
    <3> DEFINE q1 == [r1 EXCEPT !.flags = @ \cup {"NEW_PARENT"}]
    <3>1. q1 = q
      BY <1>1, <2>2 DEF Adopted, Proc
    <3> HIDE DEF S1, r1, q
    <3>2. S2 = Upd(S1, k, q1)
      BY <1>3, <1>6, <2>2 DEF VfsBusy, Set, Upd
    <3> HIDE DEF S2, q1
    <3> QED
      BY <1>3, <1>4, <1>5, <3>1, <3>2, UpdTwice
  <2> QED
    BY <2>1, <2>2
<1> HIDE DEF S2, T
<1> QED
  BY <1>0, <1>7 DEF T, q

\* An iteration that finds a child.
LEMMA LoopDisinheritFamily ==
    ASSUME FInv, LoopDisinherit
    PROVE  FInv'
<1> DEFINE f == Top
           k == Least(Bereaved(f))
           g == [f EXCEPT !.k = k + 1]
           stk == Append(Below, g)
           r == mproc[k]
           q == Adopted(r)
           T == Upd(State, k, q)
<1>1. /\ stack # <<>> /\ ~f.hup /\ Bereaved(f) # {} /\ mproc[k].tracer # f.p
      /\ Becomes(disinherit(State, k)) /\ stack' = stk
  BY DEF LoopDisinherit
<1>2. f \in Frame
  BY <1>1, StackParts
<1>3. /\ k \in Slots /\ "IN_USE" \in mproc[k].flags
      /\ \A s \in Slots : /\ "IN_USE" \in mproc[s].flags /\ f.k <= s
                          /\ mproc[s].tracer = f.p \/ mproc[s].parent = f.p
                          => k <= s
  BY <1>1, <1>2, NextBereaved
<1>4. /\ Fine(State, stack, NO_SLOT) /\ State \in StateT /\ State.mproc = mproc
      /\ \A s \in Slots : mproc[s] \in Proc /\ SlotOk(s, mproc[s])
  BY FInvFacts
<1> HIDE DEF k
<1>5. g \in Frame
  BY <1>2, <1>3, FrameAt
<1>6. g.p = f.p /\ g.k = k + 1 /\ ~g.hup /\ f.p \in Slots
  BY <1>1, <1>2 DEF Frame
<1>7. r \in Proc
  BY <1>3, <1>4
<1>8. /\ q \in Proc /\ q.parent = INIT_PROC_NR
      /\ q.flags = r.flags \cup (IF r.vfs # "none" THEN {"NEW_PARENT"} ELSE {})
      /\ q.user = r.user /\ q.vfs = r.vfs /\ q.tracer = r.tracer
      /\ q.sched = r.sched /\ q.grp = r.grp
  BY <1>7, AdoptedFacts
<1> HIDE DEF q
<1>9. Fine(T, stack, NO_SLOT)
  BY <1>3, <1>4, <1>8, AdoptedFine
<1>10. T.mproc[k] = q /\ \A s \in Slots : s # k => T.mproc[s] = mproc[s]
  <2>1. State \in StateT
    BY <1>4
  <2>2. T.mproc[k] = q /\ \A s \in Slots : s # k => T.mproc[s] = State.mproc[s]
    BY <1>3, <1>8, <2>1, UpdFacts
  <2> QED
    BY <1>4, <2>2
<1>11. disinherit(State, k) = IF Has(T, k, "ZOMBIE") THEN check_parent(T, k, TRUE) ELSE T
  <2>1. State \in StateT /\ q = Adopted(State.mproc[k])
    BY <1>4 DEF q
  <2> QED
    BY <1>3, <2>1, DisinheritIs
<1> HIDE DEF f, g, T
<1>12. /\ stk \in Seq(Frame) /\ FramesOk(mproc, stk)
       /\ \A p, s \in Slots : Excused(stack, p, s) =>
            Excused(stk, p, s) \/ (f.p = p /\ f.k <= s)
       /\ \A s \in Slots : g.k <= s => Excused(stk, g.p, s)
  BY <1>1, <1>5, <1>6, TopReplaced DEF f
<1> HIDE DEF stk
<1>13. FramesOk(T.mproc, stk)
  <2>1. \A s \in Slots : "EXITING" \in mproc[s].flags => "EXITING" \in T.mproc[s].flags
    BY <1>8, <1>10
  <2>2. \A s \in Slots : T.mproc[s].vfs = mproc[s].vfs
    BY <1>8, <1>10
  <2>3. \A i \in DOMAIN stk : stk[i].p \in Slots
    BY <1>12, FrameType
  <2> QED
    BY <1>12, <2>1, <2>2, <2>3 DEF FramesOk
<1>14. f.p # INIT_PROC_NR
  <2>1. "EXITING" \in mproc[f.p].flags
    BY <1>1, <1>4, StackParts DEF Fine, FramesOk, f
  <2> QED
    BY <1>4, <1>6, <2>1 DEF SlotOk, SystemOk, SystemSlots
<1>15. \A s \in Slots : "IN_USE" \in T.mproc[s].flags =>
         \A p \in {T.mproc[s].parent, T.mproc[s].tracer} :
           p \in Slots /\ Excused(stack, p, s) => Excused(stk, p, s)
  <2> SUFFICES ASSUME NEW s \in Slots, "IN_USE" \in T.mproc[s].flags,
                      NEW p \in {T.mproc[s].parent, T.mproc[s].tracer},
                      p \in Slots, Excused(stack, p, s), ~Excused(stk, p, s)
               PROVE  FALSE
    OBVIOUS
  <2>1. f.p = p /\ f.k <= s
    BY <1>12
  <2>2. s # k
    BY <1>1, <1>8, <1>10, <1>14, <2>1
  <2>3. k <= s
    BY <1>3, <1>10, <2>1, <2>2
  <2>4. k + 1 <= s
    BY <1>3, <2>2, <2>3 DEF Slots
  <2> QED
    BY <1>6, <1>12, <2>1, <2>4
<1>16. Fine(T, stk, NO_SLOT)
  BY <1>9, <1>12, <1>13, <1>15, RestackFine
<1>17. Has(T, k, "ZOMBIE") => Fine(check_parent(T, k, TRUE), stk, NO_SLOT)
  BY <1>3, <1>16, CheckParentFine DEF Has
<1> QED
  BY <1>1, <1>11, <1>16, <1>17, BecomesFine DEF stk

\* Hanging up the group.
LEMMA LoopHangupFamily ==
    ASSUME FInv, LoopHangup
    PROVE  FInv'
<1> DEFINE f == Top
           k == Least(Members(f))
           g == [f EXCEPT !.k = k + 1]
           stk == Append(Below, g)
<1>1. stack # <<>> /\ f.hup
  BY DEF LoopHangup
<1>2. f \in Frame /\ Below \in Seq(Frame)
  BY <1>1, StackParts
<1>3. /\ Fine(State, stack, NO_SLOT) /\ State.mproc = mproc
      /\ \A s \in Slots : SlotOk(s, mproc[s])
  BY FInvFacts
<1>4. f.pg # NoPid
  BY <1>1, <1>3, StackParts DEF Fine, FramesOk
<1>5. CASE Members(f) = {}
  <2>1. stack' = Below /\ Becomes(State)
    BY <1>5 DEF LoopHangup, Becomes, State
  <2> HIDE DEF f
  <2>2. /\ FramesOk(mproc, Below)
        /\ \A p, s \in Slots : Excused(stack, p, s) => Excused(Below, p, s)
    BY <1>1, <1>2, <1>4, TopReplaced DEF f
  <2>3. Fine(State, Below, NO_SLOT)
    BY <1>2, <1>3, <2>2, RestackFine
  <2> QED
    BY <2>1, <2>3, BecomesFine
<1>6. CASE Members(f) # {}
  <2>1. f.k \in Nat
    BY <1>2 DEF Frame
  <2>2. Members(f) \in SUBSET Nat /\ Members(f) \in SUBSET Slots
    BY <2>1, NrProcsAssumption DEF Members, Slots
  <2>3. k \in Members(f) /\ k \in Slots
    BY <1>6, <2>2, LeastOfNats
  <2>4. Live(State, k) /\ mproc[k].grp = f.pg
    BY <2>3 DEF Members
  <2>5. k \notin SystemSlots
    BY <1>3, <1>4, <2>3, <2>4 DEF SlotOk, SystemOk
  <2>6. Signal(State, stk, k, SIGHUP, f.cg)
    BY <1>6 DEF LoopHangup
  <2> HIDE DEF k
  <2>7. g \in Frame
    BY <1>2, <2>3, FrameAt
  <2>8. g.p = f.p /\ g.pg = f.pg /\ g.hup
    BY <1>1, <1>2 DEF Frame
  <2>9. f.cg \in PidOrNone /\ SIGHUP \in Signals
    BY <1>2 DEF Frame, PidOrNone, Signals
  <2> HIDE DEF f, g
  <2>10. /\ stk \in Seq(Frame) /\ FramesOk(mproc, stk)
         /\ \A p, s \in Slots : Excused(stack, p, s) => Excused(stk, p, s)
    BY <1>1, <1>4, <2>7, <2>8, TopReplaced DEF f
  <2> HIDE DEF stk
  <2>11. Fine(State, stk, NO_SLOT)
    BY <1>3, <2>10, RestackFine
  <2> QED
    BY <2>3, <2>4, <2>5, <2>6, <2>9, <2>11, SignalFine
<1> QED
  BY <1>5, <1>6

-----------------------------------------------------------------------------
(* The invariant, and what it gives.                                         *)

\* What the slots look like at boot.
LEMMA BootFacts ==
    ASSUME NEW s \in SystemSlots
    PROVE  /\ SlotOk(s, Boot(s)) /\ Boot(s).parent \in SystemSlots
           /\ Boot(s).tracer = NO_SLOT
           /\ "TOLD_PARENT" \notin Boot(s).flags /\ "TRACE_EXIT" \notin Boot(s).flags
<1> DEFINE b == Boot(s)
<1>1. b.flags = IF s = INIT_PROC_NR THEN {"IN_USE"} ELSE {"IN_USE", "PRIV_PROC"}
  BY DEF Boot, FreeSlot
<1>2. b.parent = IF s = PM_PROC_NR THEN RS_PROC_NR ELSE INIT_PROC_NR
  BY DEF Boot, FreeSlot
<1>3. /\ b.user = (IF s = PM_PROC_NR THEN "none" ELSE "run")
      /\ b.sched <=> s = INIT_PROC_NR
      /\ b.tracer = NO_SLOT /\ b.vfs = "none" /\ b.grp = NoPid
  BY DEF Boot, FreeSlot
<1> HIDE DEF b
<1>4. SystemOk(s, b)
  BY <1>1, <1>3 DEF SystemOk, PM_PROC_NR, INIT_PROC_NR
<1>5. SlotOk(s, b)
  <2>1. /\ "IN_USE" \in b.flags /\ b.user \notin {"wait", "dead", "born"}
        /\ \A fl \in b.flags : fl \in {"IN_USE", "PRIV_PROC"}
    BY <1>1, <1>3
  <2>2. "PRIV_PROC" \in b.flags => ~b.sched
    BY <1>1, <1>3
  <2> QED
    BY <1>3, <1>4, <2>1, <2>2 DEF SlotOk
<1> QED
  BY <1>1, <1>2, <1>3, <1>5 DEF b, SystemSlots

\* At boot nobody forks, exits or traces.
LEMMA InitFamily == Init => FInv
<1> SUFFICES ASSUME Init PROVE FInv
  OBVIOUS
<1>1. State \in StateT /\ State.mproc = mproc /\ State.fault = "none" /\ stack = <<>>
  BY InitOk DEF IInv, Ok, State, Init
<1>2. \A s \in Slots : mproc[s] = IF s \in SystemSlots THEN Boot(s) ELSE FreeSlot
  BY DEF Init
<1>3. SystemSlots \in SUBSET Slots
  BY NrProcsAssumption DEF SystemSlots, PM_PROC_NR, INIT_PROC_NR, RS_PROC_NR, Slots
<1>4. \A s \in Slots : s \notin SystemSlots => SlotOk(s, FreeSlot)
  BY DEF SlotOk, FreeSlot
<1>5. /\ FreeSlot.flags = {} /\ FreeSlot.vfs = "none"
  BY DEF FreeSlot
<1>6. \A s \in Slots : /\ SlotOk(s, mproc[s]) /\ mproc[s].vfs = "none"
                       /\ "TOLD_PARENT" \notin mproc[s].flags
                       /\ "TRACE_EXIT" \notin mproc[s].flags
  BY <1>2, <1>4, <1>5, BootFacts, BootType
<1>7. FamilyOk(mproc, stack)
  <2>1. \A s \in SystemSlots : "IN_USE" \in mproc[s].flags /\ "EXITING" \notin mproc[s].flags
    BY <1>3, <1>6 DEF SlotOk, SystemOk
  <2>2. \A s \in Slots : "IN_USE" \in mproc[s].flags =>
          mproc[s].parent \in SystemSlots /\ mproc[s].tracer = NO_SLOT
    BY <1>2, <1>5, BootFacts
  <2> QED
    BY <2>1, <2>2 DEF FamilyOk, There
<1>8. ForksOk(mproc, stack) /\ TracesOk(mproc, stack)
  BY <1>6 DEF ForksOk, Forking, TracesOk, Leaving
<1>9. FramesOk(mproc, stack) /\ stack \in Seq(Frame)
  BY <1>1 DEF FramesOk
<1> QED
  BY <1>1, <1>6, <1>7, <1>8, <1>9 DEF FInv, Fine

\* Every step of PM preserves the invariant.
LEMMA NextFamily ==
    ASSUME IInv, FInv, [Next]_vars
    PROVE  FInv'
<1>1. CASE Loop
  BY <1>1, LoopTracerDiedFamily, LoopDisinheritFamily, LoopEndFamily, LoopHangupFamily
     DEF Loop
<1>2. ASSUME NEW p \in Slots,
             \/ do_fork(p) \/ do_exit(p) \/ KernelKill(p) \/ VfsReply(p)
             \/ \E arg \in WaitArgsOf(p) : do_waitpid(p, arg)
             \/ \E uid \in Uids : SetUid(p, uid)
             \/ Setsid(p)
      PROVE  FInv'
  BY <1>2, ForkFamily, ExitFamily, KernelKillFamily, VfsReplyFamily, WaitArgsType,
     WaitpidFamily, SetUidFamily, SetsidFamily
<1>3. ASSUME NEW uid \in Uids, do_srv_fork(uid) PROVE FInv'
  BY <1>3, SrvForkFamily
<1>4. ASSUME NEW p \in Slots, NEW c \in Slots,
             \/ \E sig \in KillSignals : Kill(p, c, sig)
             \/ \E tracefork \in TraceForks : Attach(p, c, tracefork)
             \/ Resume(p, c)
             \/ TraceExit(p, c)
      PROVE  FInv'
  BY <1>4, KillFamily, AttachFamily, ResumeFamily, TraceExitFamily
<1>5. CASE UNCHANGED vars
  <2>1. Becomes(State) /\ stack' = stack
    BY <1>5 DEF vars, Becomes, State
  <2> QED
    BY <2>1, BecomesFine DEF FInv
<1> QED
  BY <1>1, <1>2, <1>3, <1>4, <1>5 DEF Next

\* Both invariants hold of every reachable state of the process manager.
THEOREM FamilyInvariance == Spec => [](IInv /\ FInv)
<1>1. Init => IInv /\ FInv
  BY InitOk, InitFamily
<1>2. (IInv /\ FInv) /\ [Next]_vars => (IInv /\ FInv)'
  BY NextOk, NextFamily
<1> QED
  BY <1>1, <1>2, PTL DEF Spec

\* PM does not panic in forkexit.c: no assertion or panic of do_fork, exit_proc,
\* zombify, tell_parent and tell_tracer is reached, VFS is never asked twice for
\* one slot, every reply goes to a process blocked in the call that it answers,
\* and no signal to an exited process, whatever the order of calls, signals,
\* tracer deaths and VFS answers and whatever the size of the table.
THEOREM NeverFaults == Spec => []NoFault
<1>1. FInv => NoFault
  BY FInvFacts DEF NoFault
<1> QED
  BY <1>1, FamilyInvariance, PTL

\* When exit_proc has returned from all its recursion, nobody has an exited parent
\* or tracer: its loop reached every child and tracee of everybody who died.
THEOREM FamiliesAlive == Spec => []FamilyAlive
<1>1. FInv => FamilyAlive
  <2> SUFFICES ASSUME FInv, Idle, NEW s \in InUse
               PROVE  /\ mproc[s].parent \in InUse
                      /\ ~Has(State, mproc[s].parent, "EXITING")
                      /\ mproc[s].tracer # NO_SLOT => Live(State, mproc[s].tracer)
    BY DEF FamilyAlive
  <2>1. s \in Slots /\ "IN_USE" \in mproc[s].flags /\ stack = <<>>
    BY DEF InUse, Idle
  <2>2. State.mproc = mproc /\ State \in StateT /\ FamilyOk(mproc, stack)
    BY FInvFacts
  <2>3. mproc[s].parent \in Slots
    BY <2>1, <2>2, SlotFacts
  <2>4. /\ There(mproc, <<>>, mproc[s].parent, s)
        /\ mproc[s].tracer # NO_SLOT => There(mproc, <<>>, mproc[s].tracer, s)
    BY <2>1, <2>2 DEF FamilyOk
  <2> QED
    BY <2>2, <2>3, <2>4, NobodyExcused DEF There, Has, Live, InUse
<1> QED
  BY <1>1, FamilyInvariance, PTL

\* A slot whose parent has collected it is released with VFS's answer at the
\* latest: neither exit_restart nor a wait that comes early or late leaks one.
THEOREM CollectedReleased == Spec => []ToldIsTransient
<1>1. FInv => ToldIsTransient
  <2> SUFFICES ASSUME FInv PROVE ToldIsTransient
    OBVIOUS
  <2>1. Fine(State, stack, NO_SLOT) /\ State.mproc = mproc
    BY FInvFacts
  <2>2. \A s \in Slots : s # NO_SLOT
    BY DEF Slots, NO_SLOT
  <2> QED
    BY <2>1, <2>2 DEF Fine, ToldIsTransient, InUse
<1> QED
  BY <1>1, FamilyInvariance, PTL

-----------------------------------------------------------------------------
(* The waits.  The invariant holds in every iteration of exit_proc's loop. *)
(* Inside a handler one slot x may be dead without its waiter knowing it:  *)
(* the one that zombify, tracer_died or exit_proc is about to report.      *)

\* A waitpid of p with this argument may report on the process in slot r, and
\* r is dead to p.
May(arg, p, r) ==
    /\ "IN_USE" \in r.flags /\ "TOLD_PARENT" \notin r.flags
    /\ r.parent = p \/ (r.tracer = p /\ "ZOMBIE" \notin r.flags)
    /\ RightChild(arg, r)
Dead(p, r) == \/ r.parent = p /\ "ZOMBIE" \in r.flags
              \/ r.tracer = p /\ "TRACE_ZOMBIE" \in r.flags

\* The wait of p is not forgotten.  A child may leave the group that is waited
\* for, so only without such waits is there always one to wait for.
Heard(m, p, x) ==
    /\ m[p].wpid.kind \in WaitKinds
    /\ \A c \in Slots : c # x /\ May(m[p].wpid, p, m[c]) => ~Dead(p, m[c])
    /\ "grp" \notin WaitKinds => \E c \in Slots : May(m[p].wpid, p, m[c])

\* The stages of death of a slot, which end a wait of its own.
Order(s, r) ==
    /\ "EXITING" \in r.flags \/ s = PM_PROC_NR => "WAITING" \notin r.flags
    /\ "ZOMBIE" \in r.flags \/ "TRACE_ZOMBIE" \in r.flags \/ "TOLD_PARENT" \in r.flags
         => "EXITING" \in r.flags
    /\ "ZOMBIE" \in r.flags => "TRACE_ZOMBIE" \notin r.flags /\ "TOLD_PARENT" \notin r.flags
    /\ "TRACE_ZOMBIE" \in r.flags => "TOLD_PARENT" \notin r.flags

\* The invariant; x, if it is a slot, is the death yet to be reported.
Served(S, x) ==
    /\ S \in StateT
    /\ \A s \in Slots : Order(s, S.mproc[s])
    /\ \A p \in Slots : "WAITING" \in S.mproc[p].flags => Heard(S.mproc, p, x)

-----------------------------------------------------------------------------
(* Steps that no wait depends on.                                            *)

\* A slot changes in nothing that a wait depends on, unless its own wait ends.
Mild(r, q) ==
    /\ q.parent = r.parent /\ q.tracer = r.tracer /\ q.pid = r.pid /\ q.grp = r.grp
    /\ "IN_USE" \in q.flags <=> "IN_USE" \in r.flags
    /\ "ZOMBIE" \in q.flags <=> "ZOMBIE" \in r.flags
    /\ "TRACE_ZOMBIE" \in q.flags <=> "TRACE_ZOMBIE" \in r.flags
    /\ "TOLD_PARENT" \in q.flags <=> "TOLD_PARENT" \in r.flags
    /\ "EXITING" \in r.flags => "EXITING" \in q.flags
    /\ "WAITING" \in q.flags => /\ "WAITING" \in r.flags /\ q.wpid = r.wpid
                                /\ "EXITING" \in q.flags => "EXITING" \in r.flags

Easy(S, T) == T \in StateT /\ \A s \in Slots : Mild(S.mproc[s], T.mproc[s])

\* Such steps preserve the invariant.
LEMMA EasyServed ==
    ASSUME NEW S, NEW T, NEW x, Served(S, x), Easy(S, T)
    PROVE  Served(T, x)
<1> DEFINE m == S.mproc
           n == T.mproc
<1>1. /\ \A s \in Slots : Order(s, m[s])
      /\ \A p \in Slots : "WAITING" \in m[p].flags => Heard(m, p, x)
  BY DEF Served
<1>2. T \in StateT /\ \A s \in Slots : Mild(m[s], n[s])
  BY DEF Easy
<1> HIDE DEF m, n
<1>3. \A s \in Slots : Order(s, n[s])
  BY <1>1, <1>2 DEF Order, Mild
<1>4. ASSUME NEW p \in Slots, "WAITING" \in n[p].flags PROVE Heard(n, p, x)
  <2>1. "WAITING" \in m[p].flags /\ n[p].wpid = m[p].wpid
    BY <1>2, <1>4 DEF Mild
  <2>2. Heard(m, p, x)
    BY <1>1, <2>1
  <2>3. \A c \in Slots : /\ May(n[p].wpid, p, n[c]) <=> May(m[p].wpid, p, m[c])
                         /\ Dead(p, n[c]) <=> Dead(p, m[c])
    BY <1>2, <2>1 DEF May, Dead, Mild, RightChild
  <2> QED
    BY <2>1, <2>2, <2>3 DEF Heard
<1> QED
  BY <1>2, <1>3, <1>4 DEF Served, n

\* One such step after the other.
LEMMA EasyTrans ==
    ASSUME NEW S, NEW T, NEW U, Easy(S, T), Easy(T, U)
    PROVE  Easy(S, U)
<1>1. U \in StateT /\ \A s \in Slots : Mild(S.mproc[s], T.mproc[s]) /\ Mild(T.mproc[s], U.mproc[s])
  BY DEF Easy
<1>2. \A s \in Slots : Mild(S.mproc[s], U.mproc[s])
  BY <1>1 DEF Mild
<1> QED
  BY <1>1, <1>2 DEF Easy

\* Nothing changes.
LEMMA EasySelf ==
    ASSUME NEW S \in StateT
    PROVE  Easy(S, S)
  BY DEF Easy, Mild

\* One slot changes.
LEMMA EasyUpd ==
    ASSUME NEW S \in StateT, NEW s \in Slots, NEW r \in Proc, Mild(S.mproc[s], r)
    PROVE  Easy(S, Upd(S, s, r))
<1> DEFINE T == Upd(S, s, r)
<1>1. T \in StateT /\ T.mproc[s] = r /\ \A t \in Slots : t # s => T.mproc[t] = S.mproc[t]
  BY UpdFacts
<1> HIDE DEF T
<1>2. \A t \in Slots : Mild(S.mproc[t], T.mproc[t])
  BY <1>1 DEF Mild
<1> QED
  BY <1>1, <1>2 DEF Easy, T

\* One slot changes for those who wait.
LEMMA ChangeServed ==
    ASSUME NEW S, NEW x, NEW y, NEW c \in Slots, Served(S, x), x \in {c, NO_SLOT, y},
           NEW r \in Proc, Order(c, r),
           "WAITING" \in r.flags =>
             "WAITING" \in S.mproc[c].flags /\ r.wpid = S.mproc[c].wpid,
           \A p \in Slots : "WAITING" \in S.mproc[p].flags /\ (p = c => "WAITING" \in r.flags) =>
             LET arg == S.mproc[p].wpid
             IN  /\ arg.kind # "grp" /\ May(arg, p, S.mproc[c]) => May(arg, p, r)
                 /\ c # y /\ May(arg, p, r) => ~Dead(p, r)
    PROVE  Served(Upd(S, c, r), y)
<1> DEFINE T == Upd(S, c, r)
           m == S.mproc
           n == T.mproc
<1>1. /\ S \in StateT
      /\ \A s \in Slots : Order(s, m[s])
      /\ \A p \in Slots : "WAITING" \in m[p].flags => Heard(m, p, x)
  BY DEF Served
<1>2. T \in StateT /\ n[c] = r /\ \A t \in Slots : t # c => n[t] = m[t]
  <2>1. S \in StateT
    BY <1>1
  <2> QED
    BY <2>1, UpdFacts
<1>3. \A p \in Slots : "WAITING" \in m[p].flags /\ (p = c => "WAITING" \in r.flags) =>
        /\ m[p].wpid.kind # "grp" /\ May(m[p].wpid, p, m[c]) => May(m[p].wpid, p, r)
        /\ c # y /\ May(m[p].wpid, p, r) => ~Dead(p, r)
  OBVIOUS
<1> HIDE DEF T, m, n
<1>4. \A s \in Slots : Order(s, n[s])
  BY <1>1, <1>2
<1>5. ASSUME NEW p \in Slots, "WAITING" \in n[p].flags PROVE Heard(n, p, y)
  <2>1. /\ "WAITING" \in m[p].flags /\ n[p].wpid = m[p].wpid
        /\ p = c => "WAITING" \in r.flags
    BY <1>2, <1>5 DEF m
  <2>2. Heard(m, p, x)
    BY <1>1, <2>1
  <2>3. \A d \in Slots : d # y /\ May(n[p].wpid, p, n[d]) => ~Dead(p, n[d])
    BY <1>2, <1>3, <2>1, <2>2 DEF Heard, NO_SLOT, Slots
  <2>4. ASSUME "grp" \notin WaitKinds PROVE \E d \in Slots : May(n[p].wpid, p, n[d])
    <3>1. PICK d \in Slots : May(m[p].wpid, p, m[d])
      BY <2>2, <2>4 DEF Heard
    <3>2. m[p].wpid.kind # "grp"
      BY <2>2, <2>4 DEF Heard
    <3> QED
      BY <1>2, <1>3, <2>1, <3>1, <3>2
  <2> QED
    BY <2>1, <2>2, <2>3, <2>4 DEF Heard
<1> QED
  BY <1>2, <1>4, <1>5 DEF Served, n, T

-----------------------------------------------------------------------------
(* The subroutines.                                                          *)

\* Flags that no wait depends on.
Minor == {"PROC_STOPPED", "NEW_PARENT", "TRACE_STOPPED", "TRACE_EXIT", "PRIV_PROC"}

\* Setting and clearing such flags.
LEMMA FlagsEasy ==
    ASSUME NEW S \in StateT, NEW s \in Slots, NEW fs \in SUBSET Minor
    PROVE  Easy(S, Set(S, s, fs)) /\ Easy(S, Clear(S, s, fs))
<1> DEFINE r == S.mproc[s]
           q1 == [r EXCEPT !.flags = @ \cup fs]
           q2 == [r EXCEPT !.flags = @ \ fs]
<1>1. r \in Proc /\ r.flags \in SUBSET Flags /\ fs \in SUBSET Flags
  BY SlotFacts DEF Minor, Flags
<1>2. q1 \in Proc /\ q2 \in Proc
  BY <1>1 DEF Proc
<1>3. Set(S, s, fs) = Upd(S, s, q1) /\ Clear(S, s, fs) = Upd(S, s, q2)
  BY DEF Set, Clear, Upd
<1>4. /\ q1.flags = r.flags \cup fs /\ q1.wpid = r.wpid
      /\ q1.parent = r.parent /\ q1.tracer = r.tracer /\ q1.pid = r.pid /\ q1.grp = r.grp
  BY <1>1 DEF Proc
<1>5. /\ q2.flags = r.flags \ fs /\ q2.wpid = r.wpid
      /\ q2.parent = r.parent /\ q2.tracer = r.tracer /\ q2.pid = r.pid /\ q2.grp = r.grp
  BY <1>1 DEF Proc
<1> HIDE DEF q1, q2
<1>6. Mild(r, q1) /\ Mild(r, q2)
  BY <1>4, <1>5 DEF Mild, Minor
<1> QED
  BY <1>2, <1>3, <1>6, EasyUpd

\* A field that no wait depends on.
LEMMA FieldEasy ==
    ASSUME NEW S \in StateT, NEW s \in Slots, NEW r \in Proc,
           r.flags = S.mproc[s].flags, r.wpid = S.mproc[s].wpid,
           r.parent = S.mproc[s].parent, r.tracer = S.mproc[s].tracer,
           r.pid = S.mproc[s].pid, r.grp = S.mproc[s].grp
    PROVE  Easy(S, Upd(S, s, r))
<1>1. Mild(S.mproc[s], r)
  BY DEF Mild
<1> QED
  BY <1>1, EasyUpd

\* Such fields.
LEMMA FieldsEasy ==
    ASSUME NEW S \in StateT, NEW s \in Slots
    PROVE  /\ \A u \in UserStates : Easy(S, [S EXCEPT !.mproc[s].user = u])
           /\ \A v \in VfsCalls : Easy(S, [S EXCEPT !.mproc[s].vfs = v])
           /\ \A b \in BOOLEAN : Easy(S, [S EXCEPT !.mproc[s].sched = b])
           /\ \A sg \in SUBSET Signals : Easy(S, [S EXCEPT !.mproc[s].sigs = sg])
           /\ \A sg \in SUBSET Signals : Easy(S, [S EXCEPT !.mproc[s].sigtrace = sg])
<1> DEFINE r == S.mproc[s]
<1>1. r \in Proc
  BY SlotFacts
<1>2. ASSUME NEW u \in UserStates PROVE Easy(S, [S EXCEPT !.mproc[s].user = u])
  <2> DEFINE q == [r EXCEPT !.user = u]
  <2>1. /\ q \in Proc /\ q.flags = r.flags /\ q.wpid = r.wpid /\ q.parent = r.parent
        /\ q.tracer = r.tracer /\ q.pid = r.pid /\ q.grp = r.grp
    BY <1>1 DEF Proc
  <2>2. [S EXCEPT !.mproc[s].user = u] = Upd(S, s, q)
    BY DEF Upd
  <2> HIDE DEF q
  <2> QED
    BY <2>1, <2>2, FieldEasy
<1>3. ASSUME NEW v \in VfsCalls PROVE Easy(S, [S EXCEPT !.mproc[s].vfs = v])
  <2> DEFINE q == [r EXCEPT !.vfs = v]
  <2>1. /\ q \in Proc /\ q.flags = r.flags /\ q.wpid = r.wpid /\ q.parent = r.parent
        /\ q.tracer = r.tracer /\ q.pid = r.pid /\ q.grp = r.grp
    BY <1>1 DEF Proc
  <2>2. [S EXCEPT !.mproc[s].vfs = v] = Upd(S, s, q)
    BY DEF Upd
  <2> HIDE DEF q
  <2> QED
    BY <2>1, <2>2, FieldEasy
<1>4. ASSUME NEW b \in BOOLEAN PROVE Easy(S, [S EXCEPT !.mproc[s].sched = b])
  <2> DEFINE q == [r EXCEPT !.sched = b]
  <2>1. /\ q \in Proc /\ q.flags = r.flags /\ q.wpid = r.wpid /\ q.parent = r.parent
        /\ q.tracer = r.tracer /\ q.pid = r.pid /\ q.grp = r.grp
    BY <1>1 DEF Proc
  <2>2. [S EXCEPT !.mproc[s].sched = b] = Upd(S, s, q)
    BY DEF Upd
  <2> HIDE DEF q
  <2> QED
    BY <2>1, <2>2, FieldEasy
<1>5. ASSUME NEW sg \in SUBSET Signals PROVE Easy(S, [S EXCEPT !.mproc[s].sigs = sg])
  <2> DEFINE q == [r EXCEPT !.sigs = sg]
  <2>1. /\ q \in Proc /\ q.flags = r.flags /\ q.wpid = r.wpid /\ q.parent = r.parent
        /\ q.tracer = r.tracer /\ q.pid = r.pid /\ q.grp = r.grp
    BY <1>1 DEF Proc
  <2>2. [S EXCEPT !.mproc[s].sigs = sg] = Upd(S, s, q)
    BY DEF Upd
  <2> HIDE DEF q
  <2> QED
    BY <2>1, <2>2, FieldEasy
<1>6. ASSUME NEW sg \in SUBSET Signals PROVE Easy(S, [S EXCEPT !.mproc[s].sigtrace = sg])
  <2> DEFINE q == [r EXCEPT !.sigtrace = sg]
  <2>1. /\ q \in Proc /\ q.flags = r.flags /\ q.wpid = r.wpid /\ q.parent = r.parent
        /\ q.tracer = r.tracer /\ q.pid = r.pid /\ q.grp = r.grp
    BY <1>1 DEF Proc
  <2>2. [S EXCEPT !.mproc[s].sigtrace = sg] = Upd(S, s, q)
    BY DEF Upd
  <2> HIDE DEF q
  <2> QED
    BY <2>1, <2>2, FieldEasy
<1> QED
  BY <1>2, <1>3, <1>4, <1>5, <1>6

\* A failure is recorded.
LEMMA FailEasy ==
    ASSUME NEW S \in StateT, NEW what \in Faults
    PROVE  Easy(S, Fail(S, what)) /\ Fail(S, what).mproc = S.mproc
<1>1. Fail(S, what) \in StateT /\ Fail(S, what).mproc = S.mproc
  BY DEF Fail, StateT
<1> QED
  BY <1>1 DEF Easy, Mild

\* A reply, also one that nobody waits for.
LEMMA ReplyEasy ==
    ASSUME NEW S \in StateT, NEW s \in Slots, NEW call
    PROVE  /\ Easy(S, Reply(S, s, call))
           /\ \A t \in Slots : /\ Reply(S, s, call).mproc[t].flags = S.mproc[t].flags
                               /\ Reply(S, s, call).mproc[t].sigs = S.mproc[t].sigs
                               /\ Reply(S, s, call).mproc[t].vfs = S.mproc[t].vfs
<1>1. "run" \in UserStates /\ "stray reply" \in Faults
  BY DEF UserStates, Faults
<1>2. CASE S.mproc[s].user = call
  <2>1. Reply(S, s, call) = [S EXCEPT !.mproc[s].user = "run"]
    BY <1>2 DEF Reply
  <2>2. Easy(S, [S EXCEPT !.mproc[s].user = "run"])
    BY <1>1, FieldsEasy
  <2>3. \A t \in Slots : S.mproc[t] \in Proc
    BY SlotFacts
  <2>4. \A t \in Slots : LET q == [S EXCEPT !.mproc[s].user = "run"].mproc[t]
                         IN  /\ q.flags = S.mproc[t].flags /\ q.sigs = S.mproc[t].sigs
                             /\ q.vfs = S.mproc[t].vfs
    BY <2>3 DEF StateT, Proc
  <2> QED
    BY <2>1, <2>2, <2>4
<1>3. CASE S.mproc[s].user # call
  BY <1>1, <1>3, FailEasy DEF Reply
<1> QED
  BY <1>2, <1>3

\* A wait ends.
LEMMA WakeEasy ==
    ASSUME NEW S \in StateT, NEW p \in Slots
    PROVE  LET T == Wake(S, p)
           IN  /\ Easy(S, T) /\ "WAITING" \notin T.mproc[p].flags
               /\ \A s \in Slots : \A f \in Flags \ {"WAITING"} :
                    f \in T.mproc[s].flags <=> f \in S.mproc[s].flags
<1> DEFINE R == Reply(S, p, "wait")
           r == R.mproc[p]
           q1 == [r EXCEPT !.flags = @ \ {"WAITING"}]
           q == [q1 EXCEPT !.wpid = AnyChild]
<1>1. Easy(S, R) /\ \A t \in Slots : R.mproc[t].flags = S.mproc[t].flags
  BY ReplyEasy
<1>2. R \in StateT
  BY <1>1 DEF Easy
<1>3. Wake(S, p) = [Clear(R, p, {"WAITING"}) EXCEPT !.mproc[p].wpid = AnyChild]
  BY DEF Wake
<1> HIDE DEF R
<1>4. r \in Proc
  BY <1>2, SlotFacts
<1>5. /\ q1 \in Proc /\ q \in Proc /\ q.flags = r.flags \ {"WAITING"}
      /\ q.parent = r.parent /\ q.tracer = r.tracer /\ q.pid = r.pid /\ q.grp = r.grp
  BY <1>4, AnyChildType DEF Proc
<1>6. Clear(R, p, {"WAITING"}) = Upd(R, p, q1)
  BY DEF Clear, Upd
<1> HIDE DEF r, q1
<1>7. Upd(R, p, q1).mproc[p] = q1
  BY <1>2, <1>5, UpdFacts
<1>8. Wake(S, p) = Upd(Upd(R, p, q1), p, q)
  BY <1>3, <1>6, <1>7 DEF Upd
<1> HIDE DEF q
<1>9. Wake(S, p) = Upd(R, p, q)
  BY <1>2, <1>5, <1>8, UpdTwice
<1>10. Mild(r, q)
  BY <1>5 DEF Mild
<1>11. Easy(R, Upd(R, p, q))
  BY <1>2, <1>5, <1>10, EasyUpd DEF r
<1>12. /\ Upd(R, p, q).mproc[p] = q
       /\ \A t \in Slots : t # p => Upd(R, p, q).mproc[t] = R.mproc[t]
  BY <1>2, <1>5, UpdFacts
<1>13. Easy(S, Wake(S, p))
  BY <1>1, <1>9, <1>11, EasyTrans
<1> QED
  BY <1>1, <1>5, <1>9, <1>12, <1>13 DEF r

\* A signal that does not kill.
LEMMA SigProcEasy ==
    ASSUME NEW S \in StateT, NEW s \in Slots, NEW sig \in Signals
    PROVE  Easy(S, sig_proc(S, s, sig))
<1> DEFINE t == S.mproc[s].tracer
           S1 == [S EXCEPT !.mproc[s].sigtrace = @ \cup {sig}]
           S2 == [S EXCEPT !.mproc[s].sigs = @ \cup {sig}]
<1>1. /\ S.mproc[s].sigtrace \cup {sig} \in SUBSET Signals
      /\ S.mproc[s].sigs \cup {sig} \in SUBSET Signals
  <2>1. S.mproc[s] \in Proc
    BY SlotFacts
  <2> QED
    BY <2>1 DEF Proc
<1>2. Easy(S, S1) /\ Easy(S, S2)
  BY <1>1, FieldsEasy
<1>3. S1 \in StateT
  BY <1>2 DEF Easy
<1>4. Easy(S, Fail(S, "signal to dead process"))
  BY FailEasy DEF Faults
<1>5. Easy(S, S)
  BY EasySelf
<1>6. TraceStop(S, s, sig) =
        IF Has(S, s, "TRACE_STOPPED") THEN S1
        ELSE IF wait_test(S, t, s) THEN Set(Wake(S, t), s, {"TRACE_STOPPED"})
        ELSE Set(S1, s, {"TRACE_STOPPED"})
  BY DEF TraceStop
<1>7. sig_proc(S, s, sig) =
        IF ~Live(S, s) THEN Fail(S, "signal to dead process")
        ELSE IF ToTracer(S, s, sig) THEN TraceStop(S, s, sig)
        ELSE IF VfsBusy(S, s) THEN S2 ELSE S
  BY DEF sig_proc
<1>8. {"TRACE_STOPPED"} \in SUBSET Minor
  BY DEF Minor
<1> HIDE DEF S1, S2
<1>9. Easy(S, Set(S1, s, {"TRACE_STOPPED"}))
  BY <1>2, <1>3, <1>8, FlagsEasy, EasyTrans
<1>10. ASSUME ToTracer(S, s, sig) PROVE Easy(S, Set(Wake(S, t), s, {"TRACE_STOPPED"}))
  <2>1. t \in Slots
    BY <1>10, SlotFacts DEF ToTracer
  <2>2. Easy(S, Wake(S, t))
    BY <2>1, WakeEasy
  <2>3. Wake(S, t) \in StateT
    BY <2>2 DEF Easy
  <2> QED
    BY <1>8, <2>2, <2>3, FlagsEasy, EasyTrans
<1> QED
  BY <1>2, <1>4, <1>5, <1>6, <1>7, <1>9, <1>10

-----------------------------------------------------------------------------
(* Reports of a death.                                                       *)

\* A death need not be unreported.
LEMMA ServedExempt ==
    ASSUME NEW S, Served(S, NO_SLOT), NEW c \in Slots
    PROVE  Served(S, c)
<1>1. \A d \in Slots : d # NO_SLOT
  BY DEF Slots, NO_SLOT
<1> QED
  BY <1>1 DEF Served, Heard

\* Nobody waits for the one that is dead.
LEMMA ServedStrict ==
    ASSUME NEW S, NEW c \in Slots, Served(S, c),
           \A p \in Slots : "WAITING" \in S.mproc[p].flags /\ May(S.mproc[p].wpid, p, S.mproc[c])
                              => ~Dead(p, S.mproc[c])
    PROVE  Served(S, NO_SLOT)
  BY DEF Served, Heard

\* The death is told to the parent.
LEMMA TellParentServed ==
    ASSUME NEW S, NEW c \in Slots, Served(S, c), "ZOMBIE" \in S.mproc[c].flags,
           S.mproc[c].parent # PM_PROC_NR
    PROVE  LET T == tell_parent(S, c)
           IN  Served(T, NO_SLOT) /\ "TOLD_PARENT" \in T.mproc[c].flags
<1> DEFINE p == S.mproc[c].parent
           W == Wake(S, p)
           r == W.mproc[c]
           fs == (r.flags \ {"ZOMBIE"}) \cup {"TOLD_PARENT"}
           q == Collected(r)
<1>1. S \in StateT /\ Order(c, S.mproc[c]) /\ "EXITING" \in S.mproc[c].flags
  BY DEF Served, Order
<1>2. p \in Slots /\ ~(p <= 0)
  BY <1>1, SlotFacts, NrProcsAssumption DEF Slots, PM_PROC_NR
<1>3. tell_parent(S, c) = Set(Clear(W, c, {"ZOMBIE"}), c, {"TOLD_PARENT"})
  BY <1>1, <1>2 DEF tell_parent, Has, Order
<1>4. Easy(S, W) /\ "WAITING" \notin W.mproc[p].flags
  BY <1>1, <1>2, WakeEasy
<1> HIDE DEF W
<1>5. W \in StateT /\ Mild(S.mproc[c], r)
  BY <1>4 DEF Easy
<1>6. Served(W, c)
  BY <1>4, EasyServed
<1>7. /\ r.parent = p /\ "ZOMBIE" \in r.flags /\ "EXITING" \in r.flags
      /\ Order(c, r)
  BY <1>1, <1>5, <1>6 DEF Mild, Served
<1>8. Set(Clear(W, c, {"ZOMBIE"}), c, {"TOLD_PARENT"}) = Upd(W, c, q)
  BY <1>5, Flagged DEF Collected, Flags
<1>9. r \in Proc /\ fs \in SUBSET Flags
  BY <1>5, SlotFacts DEF Flags
<1>10. q \in Proc /\ q.flags = fs
  BY <1>9, FlagFacts DEF Collected
<1> HIDE DEF p, r, q
<1>11. Order(c, q) /\ "WAITING" \notin q.flags
  BY <1>7, <1>10 DEF Order
<1>12. \A w \in Slots : "WAITING" \in W.mproc[w].flags => ~May(W.mproc[w].wpid, w, r)
  BY <1>4, <1>7 DEF May
<1>13. \A w \in Slots : ~May(W.mproc[w].wpid, w, q)
  BY <1>10 DEF May
<1>14. Served(Upd(W, c, q), NO_SLOT)
  BY <1>6, <1>10, <1>11, <1>12, <1>13, ChangeServed DEF r
<1>15. Upd(W, c, q).mproc[c] = q
  BY <1>5, <1>10, UpdFacts
<1> QED
  BY <1>3, <1>8, <1>10, <1>14, <1>15

\* The death is told to the tracer, and now the parent has to know it.
LEMMA TellTracerServed ==
    ASSUME NEW S, NEW c \in Slots, Served(S, c), "TRACE_ZOMBIE" \in S.mproc[c].flags,
           S.mproc[c].tracer \in Slots, S.mproc[c].tracer # PM_PROC_NR
    PROVE  LET T == tell_tracer(S, c)
           IN  Served(T, c) /\ "ZOMBIE" \in T.mproc[c].flags
<1> DEFINE p == S.mproc[c].tracer
           W == Wake(S, p)
           r == W.mproc[c]
           fs == (r.flags \ {"TRACE_ZOMBIE"}) \cup {"ZOMBIE"}
           q == Surrendered(r)
<1>1. S \in StateT /\ Order(c, S.mproc[c]) /\ "EXITING" \in S.mproc[c].flags
  BY DEF Served, Order
<1>2. p \in Slots /\ ~(p <= 0)
  BY NrProcsAssumption DEF Slots, PM_PROC_NR
<1>3. tell_tracer(S, c) = Set(Clear(W, c, {"TRACE_ZOMBIE"}), c, {"ZOMBIE"})
  BY <1>2 DEF tell_tracer, Has
<1>4. Easy(S, W) /\ "WAITING" \notin W.mproc[p].flags
  BY <1>1, <1>2, WakeEasy
<1> HIDE DEF W
<1>5. W \in StateT /\ Mild(S.mproc[c], r)
  BY <1>4 DEF Easy
<1>6. Served(W, c)
  BY <1>4, EasyServed
<1>7. /\ r.tracer = p /\ "TRACE_ZOMBIE" \in r.flags /\ "EXITING" \in r.flags
      /\ Order(c, r)
  BY <1>1, <1>5, <1>6 DEF Mild, Served
<1>8. Set(Clear(W, c, {"TRACE_ZOMBIE"}), c, {"ZOMBIE"}) = Upd(W, c, q)
  BY <1>5, Flagged DEF Surrendered, Flags
<1>9. r \in Proc /\ fs \in SUBSET Flags
  BY <1>5, SlotFacts DEF Flags
<1>10. /\ q \in Proc /\ q.flags = fs /\ q.parent = r.parent
       /\ q.pid = r.pid /\ q.grp = r.grp
  BY <1>9 DEF Surrendered, Proc
<1> HIDE DEF p, r, q
<1>11. Order(c, q) /\ "WAITING" \notin q.flags
  BY <1>7, <1>10 DEF Order
<1>12. \A w \in Slots : "WAITING" \in W.mproc[w].flags /\ May(W.mproc[w].wpid, w, r)
                          => May(W.mproc[w].wpid, w, q)
  BY <1>4, <1>7, <1>10 DEF May, RightChild
<1>13. Served(Upd(W, c, q), c)
  BY <1>6, <1>10, <1>11, <1>12, ChangeServed DEF r
<1>14. Upd(W, c, q).mproc[c] = q
  BY <1>5, <1>10, UpdFacts
<1> QED
  BY <1>3, <1>8, <1>10, <1>13, <1>14

\* A collected slot is released.
LEMMA CleanupServed ==
    ASSUME NEW S, NEW c \in Slots, Served(S, NO_SLOT), "TOLD_PARENT" \in S.mproc[c].flags
    PROVE  Served(cleanup(S, c), NO_SLOT)
<1> DEFINE U == Upd(S, c, FreeSlot)
           T == cleanup(S, c)
<1>1. /\ FreeSlot \in Proc /\ FreeSlot.flags = {}
  BY AnyChildType, UidsAssumption, NrProcsAssumption
     DEF FreeSlot, Proc, PM_PROC_NR, Slots, VfsCalls, UserStates
<1>2. Order(c, FreeSlot)
  BY <1>1 DEF Order
<1>3. \A arg, p : ~May(arg, p, S.mproc[c]) /\ ~May(arg, p, FreeSlot)
  BY <1>1 DEF May
<1>4. Served(U, NO_SLOT)
  BY <1>1, <1>2, <1>3, ChangeServed
<1>5. T = [U EXCEPT !.used = @ - 1]
  BY DEF cleanup, Upd
<1>6. U \in StateT
  BY <1>4 DEF Served
<1> HIDE DEF U, T
<1>7. T \in StateT /\ T.mproc = U.mproc
  BY <1>5, <1>6 DEF StateT
<1>8. Easy(U, T)
  BY <1>7 DEF Easy, Mild
<1> QED
  BY <1>4, <1>8, EasyServed DEF T

\* The parent is told, at once or when it asks.
LEMMA CheckParentServed ==
    ASSUME NEW S, NEW c \in Slots, Served(S, c), "ZOMBIE" \in S.mproc[c].flags,
           NEW try \in BOOLEAN
    PROVE  Served(check_parent(S, c, try), NO_SLOT)
<1> DEFINE p == S.mproc[c].parent
           told == tell_parent(S, c)
<1>1. check_parent(S, c, try) =
        IF Has(S, p, "EXITING") THEN S
        ELSE IF wait_test(S, p, c)
        THEN IF try /\ ~VfsBusy(S, c) THEN cleanup(told, c) ELSE told
        ELSE sig_proc(S, p, SIGCHLD)
  BY DEF check_parent
<1>2. S \in StateT /\ p \in Slots /\ Order(p, S.mproc[p]) /\ Order(c, S.mproc[c])
  BY SlotFacts DEF Served
<1>3. CASE wait_test(S, p, c)
  <2>1. p # PM_PROC_NR /\ ~Has(S, p, "EXITING")
    BY <1>2, <1>3 DEF wait_test, Has, Order
  <2>2. Served(told, NO_SLOT) /\ "TOLD_PARENT" \in told.mproc[c].flags
    BY <2>1, TellParentServed
  <2> HIDE DEF told
  <2>3. Served(cleanup(told, c), NO_SLOT)
    BY <2>2, CleanupServed
  <2> QED
    BY <1>1, <1>3, <2>1, <2>2, <2>3
<1>4. CASE ~wait_test(S, p, c)
  <2>1. \A w \in Slots : "WAITING" \in S.mproc[w].flags /\ May(S.mproc[w].wpid, w, S.mproc[c])
                              => ~Dead(w, S.mproc[c])
    BY <1>2, <1>4 DEF May, Dead, wait_test, Has, Order
  <2>2. Served(S, NO_SLOT)
    BY <2>1, ServedStrict
  <2>3. SIGCHLD \in Signals
    BY DEF Signals
  <2>4. Served(sig_proc(S, p, SIGCHLD), NO_SLOT)
    BY <1>2, <2>2, <2>3, SigProcEasy, EasyServed
  <2> QED
    BY <1>1, <1>4, <2>2, <2>4
<1> QED
  BY <1>3, <1>4

-----------------------------------------------------------------------------
(* Dying, and the death of a tracer or a parent.                             *)

\* A slot gets flags of which none ends a wait of its own.
LEMMA SetIs ==
    ASSUME NEW S \in StateT, NEW s \in Slots, NEW fs \in SUBSET Flags
    PROVE  LET r == S.mproc[s]
               q == [r EXCEPT !.flags = r.flags \cup fs]
           IN  /\ Set(S, s, fs) = Upd(S, s, q) /\ q \in Proc /\ q.flags = r.flags \cup fs
               /\ q.parent = r.parent /\ q.tracer = r.tracer /\ q.pid = r.pid /\ q.grp = r.grp
               /\ q.wpid = r.wpid
<1> DEFINE r == S.mproc[s]
           gs == r.flags \cup fs
           q == [r EXCEPT !.flags = gs]
<1>1. r \in Proc /\ gs \in SUBSET Flags
  BY SlotFacts
<1>2. Set(S, s, fs) = Upd(S, s, q)
  BY DEF Set, Upd
<1> HIDE DEF gs
<1>3. /\ q \in Proc /\ q.flags = gs
      /\ q.parent = r.parent /\ q.tracer = r.tracer /\ q.pid = r.pid /\ q.grp = r.grp
      /\ q.wpid = r.wpid
  BY <1>1 DEF Proc
<1> QED
  BY <1>2, <1>3 DEF gs

\* zombify: the tracer hears of it first, unless it is the parent.
LEMMA ZombifyServed ==
    ASSUME NEW S, NEW c \in Slots, Served(S, NO_SLOT), "EXITING" \in S.mproc[c].flags,
           "ZOMBIE" \notin S.mproc[c].flags, "TRACE_ZOMBIE" \notin S.mproc[c].flags,
           "TOLD_PARENT" \notin S.mproc[c].flags
    PROVE  Served(zombify(S, c), NO_SLOT)
<1> DEFINE r == S.mproc[c]
           t == r.tracer
           S1 == Set(S, c, {"TRACE_ZOMBIE"})
           S2 == Set(S, c, {"ZOMBIE"})
           q1 == [r EXCEPT !.flags = r.flags \cup {"TRACE_ZOMBIE"}]
           q2 == [r EXCEPT !.flags = r.flags \cup {"ZOMBIE"}]
<1>1. zombify(S, c) =
        IF t # NO_SLOT /\ t # r.parent
        THEN IF wait_test(S1, t, c) THEN check_parent(tell_tracer(S1, c), c, FALSE) ELSE S1
        ELSE check_parent(S2, c, FALSE)
  BY DEF zombify, Has
<1>2. S \in StateT /\ Order(c, r) /\ Served(S, c)
  BY ServedExempt DEF Served
<1>3. /\ S1 = Upd(S, c, q1) /\ q1 \in Proc /\ q1.flags = r.flags \cup {"TRACE_ZOMBIE"}
      /\ q1.parent = r.parent /\ q1.tracer = t /\ q1.pid = r.pid /\ q1.grp = r.grp
  <2>1. {"TRACE_ZOMBIE"} \in SUBSET Flags
    BY DEF Flags
  <2> QED
    BY <1>2, <2>1, SetIs
<1>4. /\ S2 = Upd(S, c, q2) /\ q2 \in Proc /\ q2.flags = r.flags \cup {"ZOMBIE"}
      /\ q2.parent = r.parent /\ q2.tracer = t /\ q2.pid = r.pid /\ q2.grp = r.grp
  <2>1. {"ZOMBIE"} \in SUBSET Flags
    BY DEF Flags
  <2> QED
    BY <1>2, <2>1, SetIs
<1> HIDE DEF S1, S2, q1, q2
<1>5. CASE t # NO_SLOT /\ t # r.parent
  <2>1. Order(c, q1) /\ "WAITING" \notin q1.flags
    BY <1>2, <1>3 DEF Order
  <2>2. \A arg, w : May(arg, w, r) => May(arg, w, q1)
    BY <1>3 DEF May, RightChild
  <2>3. Served(S1, c)
    BY <1>2, <1>3, <2>1, <2>2, ChangeServed
  <2>4. S1 \in StateT /\ S1.mproc[c] = q1
    BY <1>2, <1>3, UpdFacts DEF Served
  <2>5. t \in Slots
    BY <1>2, <1>5, SlotFacts
  <2>6. CASE wait_test(S1, t, c)
    <3>1. t # PM_PROC_NR
      BY <2>3, <2>5, <2>6 DEF Served, Order, wait_test, Has
    <3>2. LET T == tell_tracer(S1, c) IN Served(T, c) /\ "ZOMBIE" \in T.mproc[c].flags
      BY <1>3, <2>3, <2>4, <2>5, <3>1, TellTracerServed
    <3>3. Served(check_parent(tell_tracer(S1, c), c, FALSE), NO_SLOT)
      BY <3>2, CheckParentServed
    <3> QED
      BY <1>1, <1>5, <2>6, <3>3
  <2>7. CASE ~wait_test(S1, t, c)
    <3>1. \A w \in Slots : "WAITING" \in S1.mproc[w].flags /\ May(S1.mproc[w].wpid, w, q1)
                             => ~Dead(w, q1)
      BY <1>3, <2>1, <2>4, <2>7 DEF May, Dead, wait_test, Has, Order
    <3>2. Served(S1, NO_SLOT)
      BY <2>3, <2>4, <3>1, ServedStrict
    <3> QED
      BY <1>1, <1>5, <2>7, <3>2
  <2> QED
    BY <2>6, <2>7
<1>6. CASE ~(t # NO_SLOT /\ t # r.parent)
  <2>1. Order(c, q2) /\ "WAITING" \notin q2.flags
    BY <1>2, <1>4 DEF Order
  <2>2. \A w \in Slots : \A arg : May(arg, w, r) => May(arg, w, q2)
    BY <1>4, <1>6 DEF May, RightChild, NO_SLOT, Slots
  <2>3. Served(S2, c)
    BY <1>2, <1>4, <2>1, <2>2, ChangeServed
  <2>4. S2.mproc[c] = q2
    BY <1>2, <1>4, UpdFacts
  <2>5. Served(check_parent(S2, c, FALSE), NO_SLOT)
    BY <1>4, <2>3, <2>4, CheckParentServed
  <2> QED
    BY <1>1, <1>6, <2>5
<1> QED
  BY <1>5, <1>6

\* A process starts to exit.
LEMMA ExitProcServed ==
    ASSUME NEW S, NEW c \in Slots, Served(S, NO_SLOT), Live(S, c), S.mproc[c].vfs = "none",
           NEW dump_core \in BOOLEAN
    PROVE  Served(exit_proc(S, c, dump_core), NO_SLOT)
<1> DEFINE r == S.mproc[c]
           core == dump_core /\ ~Has(S, c, "PRIV_PROC")
           q == Departed(r, core)
           T == Upd(S, c, q)
<1>1. S \in StateT /\ Order(c, r) /\ "EXITING" \notin r.flags
  BY DEF Served, Live, Has
<1>2. CASE c = INIT_PROC_NR
  <2> DEFINE P == Set(S, c, {"PROC_STOPPED"})
  <2>1. exit_proc(S, c, dump_core) = [P EXCEPT !.mproc[c].user = "dead"]
    BY <1>2 DEF exit_proc
  <2>2. Easy(S, P)
    BY <1>1, FlagsEasy DEF Minor
  <2> HIDE DEF P
  <2>3. P \in StateT
    BY <2>2 DEF Easy
  <2>4. Easy(P, [P EXCEPT !.mproc[c].user = "dead"])
    BY <2>3, FieldsEasy DEF UserStates
  <2> QED
    BY <2>1, <2>2, <2>4, EasyServed
<1>3. CASE c # INIT_PROC_NR
  <2>1. exit_proc(S, c, dump_core) = IF core THEN T ELSE zombify(T, c)
    BY <1>1, <1>3, ExitProcIs
  <2>2. r \in Proc /\ core \in BOOLEAN
    BY <1>1, SlotFacts
  <2> HIDE DEF core
  <2>3. /\ q \in Proc
        /\ q.flags = ((r.flags \cup {"PROC_STOPPED"}) \cap ExitKeeps) \cup {"EXITING"}
        /\ q.parent = r.parent /\ q.tracer = r.tracer
    BY <2>2, DepartedFacts
  <2>4. q.pid = r.pid /\ q.grp = r.grp
    BY <2>2 DEF Departed, Proc
  <2> HIDE DEF q
  <2>5. "IN_USE" \in q.flags <=> "IN_USE" \in r.flags
    BY <2>3 DEF ExitKeeps
  <2>6. {"ZOMBIE", "TRACE_ZOMBIE", "TOLD_PARENT"} \cap r.flags = {}
    BY <1>1 DEF Order
  <2>7. /\ {"ZOMBIE", "TRACE_ZOMBIE", "TOLD_PARENT", "WAITING"} \cap q.flags = {}
        /\ "EXITING" \in q.flags
    BY <2>3 DEF ExitKeeps
  <2>8. Mild(r, q)
    BY <1>1, <2>3, <2>4, <2>5, <2>6, <2>7 DEF Mild
  <2>9. Served(T, NO_SLOT)
    BY <1>1, <2>3, <2>8, EasyUpd, EasyServed
  <2>10. T.mproc[c] = q
    BY <1>1, <2>3, UpdFacts
  <2> HIDE DEF T
  <2>11. Served(zombify(T, c), NO_SLOT)
    BY <2>7, <2>9, <2>10, ZombifyServed
  <2> QED
    BY <2>1, <2>9, <2>11
<1> QED
  BY <1>2, <1>3

\* A reply to a process that may not exist.
LEMMA ReplyAnyEasy ==
    ASSUME NEW S \in StateT, NEW t, NEW call
    PROVE  /\ Easy(S, Reply(S, t, call))
           /\ \A s \in Slots : Reply(S, t, call).mproc[s].flags = S.mproc[s].flags
<1>1. CASE t \in Slots
  BY <1>1, ReplyEasy
<1>2. CASE t \notin Slots
  <2>1. CASE S.mproc[t].user = call
    <3>1. Reply(S, t, call) = S
      BY <1>2, <2>1 DEF Reply, StateT
    <3> QED
      BY <3>1, EasySelf
  <2>2. CASE S.mproc[t].user # call
    <3>1. "stray reply" \in Faults
      BY DEF Faults
    <3> QED
      BY <2>2, <3>1, FailEasy DEF Reply
  <2> QED
    BY <2>1, <2>2
<1> QED
  BY <1>1, <1>2

\* VFS has let go of a dead process.
LEMMA ExitRestartServed ==
    ASSUME NEW S, NEW c \in Slots, Served(S, NO_SLOT), "EXITING" \in S.mproc[c].flags,
           NEW dump_core \in BOOLEAN,
           dump_core => {"ZOMBIE", "TRACE_ZOMBIE", "TOLD_PARENT"} \cap S.mproc[c].flags = {}
    PROVE  Served(exit_restart(S, c, dump_core), NO_SLOT)
<1> DEFINE S1 == [S EXCEPT !.mproc[c].sched = FALSE]
           S2 == IF dump_core THEN zombify(S1, c) ELSE S1
           S3 == IF Has(S2, c, "TRACE_EXIT") THEN Reply(S2, S2.mproc[c].tracer, "ptrace") ELSE S2
<1>1. exit_restart(S, c, dump_core) = IF Has(S3, c, "TOLD_PARENT") THEN cleanup(S3, c) ELSE S3
  BY DEF exit_restart
<1>2. S \in StateT
  BY DEF Served
<1>3. Easy(S, S1)
  BY <1>2, FieldsEasy
<1>4. S1.mproc[c].flags = S.mproc[c].flags
  <2>1. S.mproc[c] \in Proc
    BY <1>2, SlotFacts
  <2> QED
    BY <1>2, <2>1 DEF StateT, Proc
<1> HIDE DEF S1
<1>5. Served(S1, NO_SLOT)
  BY <1>3, EasyServed
<1>6. dump_core => Served(zombify(S1, c), NO_SLOT)
  BY <1>4, <1>5, ZombifyServed
<1>7. Served(S2, NO_SLOT)
  BY <1>5, <1>6
<1> HIDE DEF S2
<1>8. Served(S3, NO_SLOT)
  <2> DEFINE R == Reply(S2, S2.mproc[c].tracer, "ptrace")
  <2>1. S2 \in StateT
    BY <1>7 DEF Served
  <2>2. Easy(S2, R)
    BY <2>1, ReplyAnyEasy
  <2> HIDE DEF R
  <2>3. Served(R, NO_SLOT)
    BY <1>7, <2>2, EasyServed
  <2> QED
    BY <1>7, <2>3 DEF R
<1> HIDE DEF S3
<1>9. Has(S3, c, "TOLD_PARENT") => Served(cleanup(S3, c), NO_SLOT)
  BY <1>8, CleanupServed DEF Has
<1> QED
  BY <1>1, <1>8, <1>9

\* A death that only the parent has to know of.
LEMMA ReleasedServed ==
    ASSUME NEW S, NEW c \in Slots, Served(S, c), "TRACE_ZOMBIE" \in S.mproc[c].flags,
           S.mproc[c].tracer = NO_SLOT
    PROVE  LET T == Set(Clear(S, c, {"TRACE_ZOMBIE"}), c, {"ZOMBIE"})
           IN  Served(T, c) /\ "ZOMBIE" \in T.mproc[c].flags
<1> DEFINE r == S.mproc[c]
           fs == (r.flags \ {"TRACE_ZOMBIE"}) \cup {"ZOMBIE"}
           q == Surrendered(r)
<1>1. S \in StateT /\ Order(c, r) /\ "EXITING" \in r.flags
  BY DEF Served, Order
<1>2. Set(Clear(S, c, {"TRACE_ZOMBIE"}), c, {"ZOMBIE"}) = Upd(S, c, q)
  BY <1>1, Flagged DEF Surrendered, Flags
<1>3. r \in Proc /\ fs \in SUBSET Flags
  BY <1>1, SlotFacts DEF Flags
<1>4. /\ q \in Proc /\ q.flags = fs /\ q.parent = r.parent
      /\ q.pid = r.pid /\ q.grp = r.grp
  BY <1>3 DEF Surrendered, Proc
<1> HIDE DEF q
<1>5. Order(c, q) /\ "WAITING" \notin q.flags
  BY <1>1, <1>4 DEF Order
<1>6. \A w \in Slots : \A arg : May(arg, w, r) => May(arg, w, q)
  BY <1>4 DEF May, RightChild, NO_SLOT, Slots
<1>7. Served(Upd(S, c, q), c)
  BY <1>4, <1>5, <1>6, ChangeServed
<1>8. Upd(S, c, q).mproc[c] = q
  BY <1>1, <1>4, UpdFacts
<1> QED
  BY <1>2, <1>4, <1>7, <1>8

\* A tracee loses a tracer that does not wait.
LEMMA TracerDiedServed ==
    ASSUME NEW S, NEW c \in Slots, Served(S, NO_SLOT), S.mproc[c].tracer \in Slots,
           "WAITING" \notin S.mproc[S.mproc[c].tracer].flags
    PROVE  Served(tracer_died(S, c), NO_SLOT)
<1> DEFINE r == S.mproc[c]
           q1 == [r EXCEPT !.flags = @ \ {"TRACE_EXIT"}]
           q == [q1 EXCEPT !.tracer = NO_SLOT]
           T == [Clear(S, c, {"TRACE_EXIT"}) EXCEPT !.mproc[c].tracer = NO_SLOT]
           Z == Set(Clear(T, c, {"TRACE_ZOMBIE"}), c, {"ZOMBIE"})
           y == IF "TRACE_ZOMBIE" \in r.flags THEN c ELSE NO_SLOT
<1>0. tracer_died(S, c) = IF Has(T, c, "TRACE_ZOMBIE") THEN check_parent(Z, c, TRUE) ELSE T
  BY DEF tracer_died
<1>1. S \in StateT /\ Order(c, r)
  BY DEF Served
<1>2. r \in Proc
  BY <1>1, SlotFacts
<1>3. q1 \in Proc
  BY <1>2 DEF Proc
<1>4. /\ q \in Proc /\ q.flags = r.flags \ {"TRACE_EXIT"} /\ q.tracer = NO_SLOT
      /\ q.parent = r.parent /\ q.pid = r.pid /\ q.grp = r.grp /\ q.wpid = r.wpid
  BY <1>2 DEF Proc
<1>5. T = Upd(S, c, q)
  <2>1. Clear(S, c, {"TRACE_EXIT"}) = Upd(S, c, q1)
    BY DEF Clear, Upd
  <2> HIDE DEF q1
  <2>2. Upd(S, c, q1).mproc[c] = q1
    BY <1>1, <1>3, UpdFacts
  <2>3. T = Upd(Upd(S, c, q1), c, q)
    BY <2>1, <2>2 DEF Upd
  <2> HIDE DEF q, T
  <2> QED
    BY <1>1, <1>3, <1>4, <2>3, UpdTwice
<1> HIDE DEF q, q1, T, Z
<1>6. Order(c, q)
  BY <1>1, <1>4 DEF Order
<1>7. \A w \in Slots : "WAITING" \in S.mproc[w].flags =>
        LET arg == S.mproc[w].wpid
        IN  /\ May(arg, w, r) => May(arg, w, q)
            /\ c # y /\ May(arg, w, q) => ~Dead(w, q)
  <2> SUFFICES ASSUME NEW w \in Slots, "WAITING" \in S.mproc[w].flags
               PROVE  LET arg == S.mproc[w].wpid
                      IN  /\ May(arg, w, r) => May(arg, w, q)
                          /\ c # y /\ May(arg, w, q) => ~Dead(w, q)
    OBVIOUS
  <2>1. r.tracer # w
    OBVIOUS
  <2>2. May(S.mproc[w].wpid, w, r) <=> May(S.mproc[w].wpid, w, q)
    BY <1>4, <2>1 DEF May, RightChild, NO_SLOT, Slots
  <2>3. May(S.mproc[w].wpid, w, r) => ~Dead(w, r)
    BY DEF Served, Heard, NO_SLOT, Slots
  <2>4. Dead(w, q) => Dead(w, r)
    BY <1>4 DEF Dead, NO_SLOT, Slots
  <2> QED
    BY <2>2, <2>3, <2>4
<1>8. y \in {c, NO_SLOT} /\ Served(S, c) /\ Served(S, y)
  BY ServedExempt
<1> HIDE DEF y
<1>9. Served(T, y)
  BY <1>4, <1>5, <1>6, <1>7, <1>8, ChangeServed
<1>10. T.mproc[c] = q
  BY <1>1, <1>4, <1>5, UpdFacts
<1>11. CASE Has(T, c, "TRACE_ZOMBIE")
  <2>1. "TRACE_ZOMBIE" \in q.flags /\ y = c
    BY <1>4, <1>10, <1>11 DEF Has, y
  <2>2. Served(Z, c) /\ "ZOMBIE" \in Z.mproc[c].flags
    BY <1>4, <1>9, <1>10, <2>1, ReleasedServed DEF Z
  <2>3. Served(check_parent(Z, c, TRUE), NO_SLOT)
    BY <2>2, CheckParentServed
  <2> QED
    BY <1>0, <1>11, <2>3
<1>12. CASE ~Has(T, c, "TRACE_ZOMBIE")
  <2>1. y = NO_SLOT
    BY <1>4, <1>10, <1>12 DEF Has, y
  <2> QED
    BY <1>0, <1>9, <1>12, <2>1
<1> QED
  BY <1>11, <1>12

\* INIT inherits the child of a parent that does not wait.
LEMMA DisinheritServed ==
    ASSUME NEW S, NEW c \in Slots, Served(S, NO_SLOT),
           "WAITING" \notin S.mproc[S.mproc[c].parent].flags
    PROVE  Served(disinherit(S, c), NO_SLOT)
<1> DEFINE r == S.mproc[c]
           q == Adopted(r)
           T == Upd(S, c, q)
           y == IF "ZOMBIE" \in r.flags THEN c ELSE NO_SLOT
<1>1. S \in StateT /\ Order(c, r)
  BY DEF Served
<1>2. r \in Proc
  BY <1>1, SlotFacts
<1>3. /\ q \in Proc /\ q.tracer = r.tracer
      /\ q.flags = r.flags \cup (IF r.vfs # "none" THEN {"NEW_PARENT"} ELSE {})
  BY <1>2, AdoptedFacts
<1>4. q.pid = r.pid /\ q.grp = r.grp /\ q.wpid = r.wpid
  BY <1>2 DEF Adopted, Proc
<1>5. disinherit(S, c) = IF Has(T, c, "ZOMBIE") THEN check_parent(T, c, TRUE) ELSE T
  BY <1>1, DisinheritIs
<1> HIDE DEF q
<1>6. \A f \in Flags \ {"NEW_PARENT"} : f \in q.flags <=> f \in r.flags
  BY <1>3
<1>7. Order(c, q)
  BY <1>1, <1>6 DEF Order, Flags
<1>8. \A w \in Slots : "WAITING" \in S.mproc[w].flags =>
        LET arg == S.mproc[w].wpid
        IN  /\ May(arg, w, r) => May(arg, w, q)
            /\ c # y /\ May(arg, w, q) => ~Dead(w, q)
  <2> SUFFICES ASSUME NEW w \in Slots, "WAITING" \in S.mproc[w].flags
               PROVE  LET arg == S.mproc[w].wpid
                      IN  /\ May(arg, w, r) => May(arg, w, q)
                          /\ c # y /\ May(arg, w, q) => ~Dead(w, q)
    OBVIOUS
  <2>1. r.parent # w
    OBVIOUS
  <2>2. May(S.mproc[w].wpid, w, r) => May(S.mproc[w].wpid, w, q)
    BY <1>3, <1>4, <1>6, <2>1 DEF May, RightChild, Flags
  <2>3. May(S.mproc[w].wpid, w, r) => ~Dead(w, r)
    BY DEF Served, Heard, NO_SLOT, Slots
  <2>4. ASSUME c # y, May(S.mproc[w].wpid, w, q), Dead(w, q) PROVE FALSE
    <3>1. "ZOMBIE" \notin r.flags
      BY <2>4
    <3>2. q.tracer = w /\ "TRACE_ZOMBIE" \in q.flags
      BY <1>6, <2>4, <3>1 DEF Dead, Flags
    <3>3. Dead(w, r)
      BY <1>3, <1>6, <3>2 DEF Dead, Flags
    <3>4. May(S.mproc[w].wpid, w, r)
      BY <1>3, <1>4, <1>6, <2>4, <3>1, <3>2 DEF May, RightChild, Flags
    <3> QED
      BY <2>3, <3>3, <3>4
  <2> QED
    BY <2>2, <2>4
<1>9. y \in {c, NO_SLOT} /\ Served(S, y)
  BY ServedExempt
<1> HIDE DEF y
<1>10. Served(T, y)
  BY <1>3, <1>4, <1>6, <1>7, <1>8, <1>9, ChangeServed DEF Flags
<1>11. T.mproc[c] = q
  BY <1>1, <1>3, UpdFacts
<1> HIDE DEF T
<1>12. CASE Has(T, c, "ZOMBIE")
  <2>1. "ZOMBIE" \in T.mproc[c].flags /\ y = c
    BY <1>6, <1>11, <1>12 DEF Has, y, Flags
  <2>2. Served(check_parent(T, c, TRUE), NO_SLOT)
    BY <1>10, <2>1, CheckParentServed
  <2> QED
    BY <1>5, <1>12, <2>2
<1>13. CASE ~Has(T, c, "ZOMBIE")
  <2>1. y = NO_SLOT
    BY <1>6, <1>11, <1>13 DEF Has, y, Flags
  <2> QED
    BY <1>5, <1>10, <1>13, <2>1
<1> QED
  BY <1>12, <1>13

-----------------------------------------------------------------------------
(* The steps of PM.                                                          *)

\* The invariant of the system.
WInv == Served(State, NO_SLOT)

\* A handler with such a result.
LEMMA BecomesServed ==
    ASSUME NEW T, Served(T, NO_SLOT), Becomes(T)
    PROVE  WInv'
<1>1. State'.mproc = T.mproc /\ State'.used = T.used /\ State'.fault = T.fault
  BY DEF Becomes, State
<1>2. State' = [mproc |-> State'.mproc, used |-> State'.used, fault |-> State'.fault]
  BY DEF State
<1>3. T \in StateT
  BY DEF Served
<1>4. State' = T
  BY <1>1, <1>2, <1>3 DEF StateT
<1>5. Served(State', NO_SLOT)
  BY <1>4
<1> QED
  BY <1>5 DEF WInv, NO_SLOT

\* A handler that does what no wait depends on.
LEMMA BecomesEasy ==
    ASSUME WInv, NEW T, Easy(State, T), Becomes(T)
    PROVE  WInv'
<1>1. Served(T, NO_SLOT)
  BY EasyServed DEF WInv
<1> QED
  BY <1>1, BecomesServed

\* What the steps below use.
LEMMA WInvFacts ==
    ASSUME WInv
    PROVE  /\ Served(State, NO_SLOT) /\ State \in StateT /\ State.mproc = mproc
           /\ \A s \in Slots : mproc[s] \in Proc /\ Order(s, mproc[s])
<1>1. Served(State, NO_SLOT) /\ State \in StateT /\ State.mproc = mproc
  BY DEF WInv, Served, State
<1>2. \A s \in Slots : mproc[s] \in Proc
  BY <1>1, SlotFacts
<1> QED
  BY <1>1, <1>2 DEF Served

\* A signal, and the exit it causes.
LEMMA SignalServed ==
    ASSUME NEW S, Served(S, NO_SLOT), NEW s \in Slots, NEW sig \in Signals, NEW stk, NEW cg,
           Signal(S, stk, s, sig, cg)
    PROVE  WInv'
<1>1. S \in StateT
  BY DEF Served
<1>2. CASE Kills(S, s, sig)
  <2> DEFINE b == sig = SIGSEGV
  <2>1. S.mproc[s].vfs = "none" /\ Live(S, s) /\ b \in BOOLEAN
    BY <1>2 DEF Kills, VfsBusy
  <2>2. Becomes(exit_proc(S, s, b))
    BY <1>2 DEF Signal
  <2> HIDE DEF b
  <2>3. Served(exit_proc(S, s, b), NO_SLOT)
    BY <2>1, ExitProcServed
  <2> QED
    BY <2>2, <2>3, BecomesServed
<1>3. CASE ~Kills(S, s, sig)
  <2>1. Becomes(sig_proc(S, s, sig))
    BY <1>3 DEF Signal
  <2>2. Served(sig_proc(S, s, sig), NO_SLOT)
    BY <1>1, SigProcEasy, EasyServed
  <2> QED
    BY <2>1, <2>2, BecomesServed
<1> QED
  BY <1>2, <1>3

\* exit.
LEMMA ExitWaits ==
    ASSUME FInv, WInv, NEW p \in Slots, do_exit(p)
    PROVE  WInv'
<1>1. State \in StateT /\ Served(State, NO_SLOT) /\ State.mproc = mproc
  BY WInvFacts
<1>2. \/ Becomes([State EXCEPT !.mproc[p].user = "exit"])
      \/ "PRIV_PROC" \notin mproc[p].flags /\ Becomes(exit_proc(State, p, FALSE))
  BY DEF do_exit
<1>3. CASE Becomes([State EXCEPT !.mproc[p].user = "exit"])
  <2>1. Easy(State, [State EXCEPT !.mproc[p].user = "exit"])
    BY <1>1, FieldsEasy DEF UserStates
  <2> QED
    BY <1>3, <2>1, BecomesEasy
<1>4. CASE "PRIV_PROC" \notin mproc[p].flags /\ Becomes(exit_proc(State, p, FALSE))
  <2>1. Live(State, p) /\ Running(p)
    BY DEF do_exit, Running
  <2>2. mproc[p].vfs # "fork" /\ "EXITING" \notin mproc[p].flags
    BY <2>1, RunningFacts
  <2>3. SlotOk(p, mproc[p]) /\ mproc[p] \in Proc
    BY FInvFacts
  <2>4. mproc[p].vfs \in VfsCalls
    BY <2>3 DEF Proc
  <2>5. mproc[p].vfs = "none"
    BY <1>4, <2>2, <2>3, <2>4 DEF SlotOk, VfsCalls
  <2>6. Served(exit_proc(State, p, FALSE), NO_SLOT)
    BY <1>1, <2>1, <2>5, ExitProcServed
  <2> QED
    BY <1>4, <2>6, BecomesServed
<1> QED
  BY <1>2, <1>3, <1>4

\* kill.
LEMMA KillWaits ==
    ASSUME WInv, NEW by \in Slots, NEW s \in Slots, NEW sig \in KillSignals, Kill(by, s, sig)
    PROVE  WInv'
<1>1. Served(State, NO_SLOT) /\ sig \in Signals
  BY WInvFacts, KillSignalsAssumption DEF Signals
<1> QED
  BY <1>1, SignalServed DEF Kill

\* The kernel's SIGKILL.
LEMMA KernelKillWaits ==
    ASSUME WInv, NEW s \in Slots, KernelKill(s)
    PROVE  WInv'
<1>1. Served(State, NO_SLOT) /\ SIGKILL \in Signals
  BY WInvFacts DEF Signals
<1> QED
  BY <1>1, SignalServed DEF KernelKill

\* The setters of the user.
LEMMA SetUidWaits ==
    ASSUME WInv, NEW p \in Slots, NEW uid \in Uids, SetUid(p, uid)
    PROVE  WInv'
<1> DEFINE r == mproc[p]
           q == [r EXCEPT !.uid = uid]
<1>1. State \in StateT /\ State.mproc = mproc /\ r \in Proc
  BY WInvFacts
<1>2. /\ q \in Proc /\ q.flags = r.flags /\ q.wpid = r.wpid /\ q.parent = r.parent
      /\ q.tracer = r.tracer /\ q.pid = r.pid /\ q.grp = r.grp
  BY <1>1 DEF Proc
<1>3. Becomes(Upd(State, p, q))
  BY DEF SetUid, Becomes, Upd, State
<1> HIDE DEF q
<1>4. Easy(State, Upd(State, p, q))
  BY <1>1, <1>2, FieldEasy
<1> QED
  BY <1>3, <1>4, BecomesEasy

\* A process leaves its group: whoever waits for the group alone may now wait in vain.
LEMMA SetsidWaits ==
    ASSUME FInv, WInv, NEW p \in Slots, Setsid(p)
    PROVE  WInv'
<1> DEFINE r == mproc[p]
           q == [r EXCEPT !.grp = r.pid]
<1>1. State \in StateT /\ State.mproc = mproc /\ r \in Proc /\ Served(State, NO_SLOT)
      /\ Order(p, r)
  BY WInvFacts
<1>2. /\ q \in Proc /\ q.flags = r.flags /\ q.wpid = r.wpid /\ q.parent = r.parent
      /\ q.tracer = r.tracer /\ q.pid = r.pid
  BY <1>1 DEF Proc
<1>3. Becomes(Upd(State, p, q))
  BY DEF Setsid, Becomes, Upd, State
<1>4. "EXITING" \notin r.flags
  BY RunningFacts DEF Setsid
<1> HIDE DEF q
<1>5. Order(p, q)
  BY <1>1, <1>2 DEF Order
<1>6. \A arg, w : /\ arg.kind # "grp" /\ May(arg, w, r) => May(arg, w, q)
                  /\ ~Dead(w, q)
  BY <1>1, <1>2, <1>4 DEF May, RightChild, Dead, Order
<1>7. Served(Upd(State, p, q), NO_SLOT)
  BY <1>1, <1>2, <1>5, <1>6, ChangeServed
<1> QED
  BY <1>3, <1>7, BecomesServed

\* ptrace(T_ATTACH)
LEMMA AttachWaits ==
    ASSUME FInv, WInv, NEW t \in Slots, NEW c \in Slots, NEW tracefork \in TraceForks,
           Attach(t, c, tracefork)
    PROVE  WInv'
<1> DEFINE r == mproc[c]
           q1 == [r EXCEPT !.tracer = t]
           q == [q1 EXCEPT !.tracefork = tracefork]
           T == [State EXCEPT !.mproc[c].tracer = t, !.mproc[c].tracefork = tracefork]
<1>1. State \in StateT /\ State.mproc = mproc /\ r \in Proc /\ Served(State, NO_SLOT)
      /\ Order(c, r) /\ tracefork \in BOOLEAN
  BY WInvFacts, SwitchAssumption
<1>2. /\ Becomes(sig_proc(T, c, SIGSTOP)) /\ "EXITING" \notin r.flags /\ r.tracer = NO_SLOT
      /\ Running(t)
  BY <1>1 DEF Attach, Live, Has
<1>3. /\ q1 \in Proc /\ q \in Proc /\ q.flags = r.flags /\ q.wpid = r.wpid
      /\ q.parent = r.parent /\ q.tracer = t /\ q.pid = r.pid /\ q.grp = r.grp
  BY <1>1 DEF Proc
<1>4. T = Upd(Upd(State, c, q1), c, q)
  <2>1. Upd(State, c, q1) = [State EXCEPT !.mproc[c].tracer = t]
    BY DEF Upd, State
  <2>2. Upd(State, c, q1).mproc[c] = q1
    BY <1>1, <1>3, UpdFacts
  <2>3. T = [Upd(State, c, q1) EXCEPT !.mproc[c].tracefork = tracefork]
    BY <2>1
  <2> QED
    BY <2>2, <2>3 DEF Upd
<1> HIDE DEF T, q, q1
<1>5. T = Upd(State, c, q)
  BY <1>1, <1>3, <1>4, UpdTwice
<1>6. "WAITING" \notin mproc[t].flags
  BY <1>2, RunningFacts
<1>7. Order(c, q)
  BY <1>1, <1>3 DEF Order
<1>8. \A w \in Slots : "WAITING" \in mproc[w].flags => \A arg : /\ May(arg, w, r) => May(arg, w, q)
                                                                /\ ~Dead(w, q)
  BY <1>1, <1>2, <1>3, <1>6 DEF May, RightChild, Dead, Order, NO_SLOT, Slots
<1>9. Served(T, NO_SLOT)
  BY <1>1, <1>3, <1>5, <1>7, <1>8, ChangeServed
<1>10. T \in StateT /\ SIGSTOP \in Signals
  BY <1>9 DEF Served, Signals
<1>11. Served(sig_proc(T, c, SIGSTOP), NO_SLOT)
  BY <1>9, <1>10, SigProcEasy, EasyServed
<1> QED
  BY <1>2, <1>11, BecomesServed

\* ptrace(T_RESUME)
LEMMA ResumeWaits ==
    ASSUME WInv, NEW t \in Slots, NEW c \in Slots, Resume(t, c)
    PROVE  WInv'
<1>1. State \in StateT /\ {"TRACE_STOPPED"} \in SUBSET Minor
  BY WInvFacts DEF Minor
<1>2. Easy(State, Clear(State, c, {"TRACE_STOPPED"}))
  BY <1>1, FlagsEasy
<1> QED
  BY <1>2, BecomesEasy DEF Resume

\* ptrace(T_EXIT)
LEMMA TraceExitWaits ==
    ASSUME WInv, NEW t \in Slots, NEW c \in Slots, TraceExit(t, c)
    PROVE  WInv'
<1> DEFINE U == Set(State, c, {"TRACE_EXIT"})
           S == [U EXCEPT !.mproc[t].user = "ptrace"]
<1>1. /\ Live(State, c)
      /\ \/ Becomes(S)
         \/ S.mproc[c].vfs = "none" /\ Becomes(exit_proc(S, c, FALSE))
  BY DEF TraceExit, VfsBusy
<1>2. State \in StateT /\ {"TRACE_EXIT"} \in SUBSET Minor
  BY WInvFacts DEF Minor
<1>3. Easy(State, U)
  BY <1>2, FlagsEasy
<1> HIDE DEF U
<1>4. U \in StateT
  BY <1>3 DEF Easy
<1>5. Easy(U, S)
  BY <1>4, FieldsEasy DEF UserStates
<1>6. Served(S, NO_SLOT)
  BY <1>3, <1>5, EasyServed, WInvFacts
<1>7. "EXITING" \in S.mproc[c].flags => "EXITING" \in State.mproc[c].flags
  <2>1. S.mproc[c].flags = U.mproc[c].flags
    <3>1. U.mproc[c] \in Proc
      BY <1>4, SlotFacts
    <3> QED
      BY <1>4, <3>1 DEF StateT, Proc
  <2>2. U.mproc[c].flags = State.mproc[c].flags \cup {"TRACE_EXIT"}
    <3>1. {"TRACE_EXIT"} \in SUBSET Flags
      BY DEF Flags
    <3> DEFINE q == [State.mproc[c] EXCEPT !.flags = State.mproc[c].flags \cup {"TRACE_EXIT"}]
    <3>2. /\ U = Upd(State, c, q) /\ q \in Proc
          /\ q.flags = State.mproc[c].flags \cup {"TRACE_EXIT"}
      BY <1>2, <3>1, SetIs DEF U
    <3> HIDE DEF q
    <3>3. U.mproc[c] = q
      BY <1>2, <3>2, UpdFacts
    <3> QED
      BY <3>2, <3>3
  <2> QED
    BY <2>1, <2>2
<1> HIDE DEF S
<1>8. "IN_USE" \in S.mproc[c].flags <=> "IN_USE" \in State.mproc[c].flags
  BY <1>3, <1>5, EasyTrans DEF Easy, Mild
<1>9. Live(S, c)
  BY <1>1, <1>7, <1>8 DEF Live, Has
<1>10. S.mproc[c].vfs = "none" => Served(exit_proc(S, c, FALSE), NO_SLOT)
  BY <1>6, <1>9, ExitProcServed
<1> QED
  BY <1>1, <1>6, <1>10, BecomesServed

\* waitpid: the caller is told at once, or waits for somebody who lives.
LEMMA WaitpidWaits ==
    ASSUME FInv, WInv, NEW p \in Slots, NEW arg \in WaitArgs, arg.kind \in WaitKinds,
           do_waitpid(p, arg)
    PROVE  WInv'
<1> DEFINE S == [State EXCEPT !.mproc[p].user = "wait"]
           c == Least(Collectable(p, arg))
           sigs == mproc[c].sigtrace \ {Least(mproc[c].sigtrace)}
           Ta == check_parent(tell_tracer(S, c), c, TRUE)
           Tb == [State EXCEPT !.mproc[c].sigtrace = sigs]
           Tc == IF VfsBusy(S, c) THEN tell_parent(S, c) ELSE cleanup(tell_parent(S, c), c)
           Td == [Set(S, p, {"WAITING"}) EXCEPT !.mproc[p].wpid = arg]
<1>1. State \in StateT /\ State.mproc = mproc /\ \A s \in Slots : mproc[s] \in Proc
  BY WInvFacts
<1>2. Easy(State, S)
  BY <1>1, FieldsEasy DEF UserStates
<1>3. \A s \in Slots : /\ S.mproc[s].flags = mproc[s].flags
                       /\ S.mproc[s].parent = mproc[s].parent
                       /\ S.mproc[s].tracer = mproc[s].tracer
                       /\ S.mproc[s].pid = mproc[s].pid /\ S.mproc[s].grp = mproc[s].grp
                       /\ S.mproc[s].wpid = mproc[s].wpid
  BY <1>1 DEF StateT, Proc
<1>4. Served(S, NO_SLOT) /\ S \in StateT
  BY <1>2, EasyServed, WInvFacts DEF Served
<1>5. "EXITING" \notin mproc[p].flags /\ p # PM_PROC_NR
  BY RunningFacts DEF do_waitpid
<1>6. CASE Collectable(p, arg) # {}
  <2>1. Collectable(p, arg) \in SUBSET Nat
    BY NrProcsAssumption DEF Collectable, Acceptable, Slots
  <2>2. c \in Collectable(p, arg)
    BY <1>6, <2>1, LeastOfNats
  <2>3. c \in Slots /\ (DeadToTracer(p, c) \/ StoppedForTracer(p, c) \/ DeadToParent(p, c))
    BY <2>2 DEF Collectable, Acceptable
  <2>4. \/ DeadToTracer(p, c) /\ Becomes(Ta)
        \/ Becomes(Tb)
        \/ DeadToParent(p, c) /\ Becomes(Tc)
    BY <1>6, <2>3 DEF do_waitpid, State
  <2> HIDE DEF c
  <2>5. Served(S, c)
    BY <1>4, <2>3, ServedExempt
  <2>6. CASE DeadToTracer(p, c) /\ Becomes(Ta)
    <3>1. "TRACE_ZOMBIE" \in S.mproc[c].flags /\ S.mproc[c].tracer = p
      BY <1>3, <2>3, <2>6 DEF DeadToTracer
    <3> HIDE DEF S
    <3>2. LET T == tell_tracer(S, c) IN Served(T, c) /\ "ZOMBIE" \in T.mproc[c].flags
      BY <1>5, <2>3, <2>5, <3>1, TellTracerServed
    <3>3. Served(Ta, NO_SLOT)
      BY <2>3, <3>2, CheckParentServed
    <3> HIDE DEF Ta
    <3> QED
      BY <2>6, <3>3, BecomesServed
  <2>7. CASE Becomes(Tb)
    <3>1. sigs \in SUBSET Signals
      BY <1>1, <2>3 DEF Proc
    <3> HIDE DEF sigs
    <3>2. Easy(State, Tb)
      BY <1>1, <2>3, <3>1, FieldsEasy
    <3> HIDE DEF Tb
    <3> QED
      BY <2>7, <3>2, BecomesEasy
  <2>8. CASE DeadToParent(p, c) /\ Becomes(Tc)
    <3>1. "ZOMBIE" \in S.mproc[c].flags /\ S.mproc[c].parent = p
      BY <1>3, <2>3, <2>8 DEF DeadToParent
    <3> HIDE DEF S
    <3>2. LET T == tell_parent(S, c) IN Served(T, NO_SLOT) /\ "TOLD_PARENT" \in T.mproc[c].flags
      BY <1>5, <2>3, <2>5, <3>1, TellParentServed
    <3>3. Served(Tc, NO_SLOT)
      BY <2>3, <3>2, CleanupServed
    <3> HIDE DEF Tc
    <3> QED
      BY <2>8, <3>3, BecomesServed
  <2> QED
    BY <2>4, <2>6, <2>7, <2>8
<1>7. CASE Collectable(p, arg) = {}
  <2> DEFINE r == S.mproc[p]
             q1 == [r EXCEPT !.flags = r.flags \cup {"WAITING"}]
             q == [q1 EXCEPT !.wpid = arg]
             m == S.mproc
             n == Td.mproc
  <2>1. Becomes(Td) /\ Acceptable(p, arg) # {}
    BY <1>7 DEF do_waitpid
  <2>2. r \in Proc /\ {"WAITING"} \in SUBSET Flags
    BY <1>4, SlotFacts DEF Flags
  <2>3. Set(S, p, {"WAITING"}) = Upd(S, p, q1) /\ q1 \in Proc
    <3> HIDE DEF S
    <3> QED
      BY <1>4, <2>2, SetIs
  <2>4. /\ q \in Proc /\ q.flags = r.flags \cup {"WAITING"} /\ q.wpid = arg
        /\ q.parent = r.parent /\ q.tracer = r.tracer /\ q.pid = r.pid /\ q.grp = r.grp
    BY <2>2 DEF Proc
  <2> HIDE DEF S
  <2>5. Td = Upd(S, p, q)
    <3>1. Upd(S, p, q1).mproc[p] = q1
      BY <1>4, <2>3, UpdFacts
    <3> HIDE DEF r, q1
    <3>2. Td = Upd(Upd(S, p, q1), p, q)
      BY <2>3, <3>1 DEF Upd
    <3> HIDE DEF q, Td
    <3> QED
      BY <1>4, <2>3, <2>4, <3>2, UpdTwice
  <2> HIDE DEF q, q1, Td
  <2>6. Td \in StateT /\ n[p] = q /\ \A s \in Slots : s # p => n[s] = m[s]
    BY <1>4, <2>4, <2>5, UpdFacts
  <2>7. \A s \in Slots : Order(s, n[s])
    <3>1. \A s \in Slots : Order(s, m[s])
      BY <1>4 DEF Served
    <3>2. Order(p, q)
      BY <1>3, <1>5, <2>4, <3>1 DEF Order
    <3> QED
      BY <2>6, <3>1, <3>2
  <2>8. \A a, w : \A d \in Slots : /\ May(a, w, n[d]) <=> May(a, w, m[d])
                                   /\ Dead(w, n[d]) <=> Dead(w, m[d])
    BY <2>4, <2>6 DEF May, Dead, RightChild
  <2>9. \A d \in Slots : /\ May(arg, p, m[d]) <=> d \in Acceptable(p, arg)
                         /\ Dead(p, m[d]) <=> DeadToParent(p, d) \/ DeadToTracer(p, d)
    BY <1>3 DEF May, Dead, Acceptable, DeadToParent, DeadToTracer, RightChild
  <2>10. Heard(n, p, NO_SLOT)
    <3>1. \A d \in Slots : May(arg, p, n[d]) => ~Dead(p, n[d])
      BY <1>7, <2>8, <2>9 DEF Collectable
    <3>2. \E d \in Slots : May(arg, p, n[d])
      BY <2>1, <2>8, <2>9 DEF Acceptable
    <3> QED
      BY <2>4, <2>6, <3>1, <3>2 DEF Heard
  <2>11. ASSUME NEW w \in Slots, "WAITING" \in n[w].flags, w # p PROVE Heard(n, w, NO_SLOT)
    <3>1. n[w] = m[w] /\ Heard(m, w, NO_SLOT)
      BY <1>4, <2>6, <2>11 DEF Served
    <3> QED
      BY <2>8, <3>1 DEF Heard
  <2>12. Served(Td, NO_SLOT)
    BY <2>6, <2>7, <2>10, <2>11 DEF Served
  <2> QED
    BY <2>1, <2>12, BecomesServed
<1> QED
  BY <1>6, <1>7

\* VFS answers.
LEMMA VfsReplyWaits ==
    ASSUME FInv, WInv, NEW s \in Slots, VfsReply(s)
    PROVE  WInv'
<1> DEFINE r == mproc[s]
           call == r.vfs
           newParent == "NEW_PARENT" \in r.flags
           S1 == [Clear(State, s, {"NEW_PARENT"}) EXCEPT !.mproc[s].vfs = "none"]
           S2 == IF call = "fork" THEN Reply(S1, s, "born") ELSE S1
           S3 == IF call = "fork" /\ ~newParent
                 THEN Reply(S2, S2.mproc[s].parent, "fork") ELSE S2
           S4 == [S3 EXCEPT !.mproc[s].sigs = {}]
           doomed == PendingKill(S3, s)
           b == doomed = {SIGSEGV}
           d == call = "core"
<1>1. \/ call \in {"exit", "core"} /\ Becomes(exit_restart(S1, s, d))
      \/ call \notin {"exit", "core"} /\ call # "none" /\ Becomes(exit_proc(S4, s, b))
      \/ Becomes(S4)
  BY DEF VfsReply
<1>2. State \in StateT /\ State.mproc = mproc /\ r \in Proc /\ Served(State, NO_SLOT)
  BY WInvFacts
<1>3. SlotOk(s, r)
  BY FInvFacts
<1>4. S1 = Upd(State, s, Answered(r))
  BY <1>2, AnswerIs
<1>5. /\ Answered(r) \in Proc /\ Answered(r).flags = r.flags \ {"NEW_PARENT"}
      /\ Answered(r).vfs = "none" /\ Answered(r).parent = r.parent
      /\ Answered(r).tracer = r.tracer
  BY <1>2, AnsweredFacts
<1>6. /\ Answered(r).pid = r.pid /\ Answered(r).grp = r.grp /\ Answered(r).wpid = r.wpid
  BY <1>2 DEF Answered, Proc
<1>7. Mild(r, Answered(r))
  BY <1>5, <1>6 DEF Mild
<1> HIDE DEF S1
<1>8. Served(S1, NO_SLOT) /\ S1 \in StateT /\ S1.mproc[s] = Answered(r)
  <2>1. Easy(State, S1)
    BY <1>2, <1>4, <1>5, <1>7, EasyUpd
  <2>2. Served(S1, NO_SLOT) /\ S1 \in StateT
    BY <1>2, <2>1, EasyServed DEF Served
  <2>3. S1.mproc[s] = Answered(r)
    BY <1>2, <1>4, <1>5, UpdFacts
  <2> QED
    BY <2>2, <2>3
<1>9. S1.mproc[s].flags = r.flags \ {"NEW_PARENT"} /\ S1.mproc[s].vfs = "none"
  BY <1>5, <1>8
<1>10. CASE call \in {"exit", "core"} /\ Becomes(exit_restart(S1, s, d))
  <2>1. d \in BOOLEAN /\ (d => r.vfs = "core")
    OBVIOUS
  <2>2. "EXITING" \in r.flags
    BY <1>3, <1>10 DEF SlotOk
  <2>3. d => {"ZOMBIE", "TRACE_ZOMBIE", "TOLD_PARENT"} \cap r.flags = {}
    BY <1>3, <2>1 DEF SlotOk
  <2> HIDE DEF d, call
  <2>4. Served(exit_restart(S1, s, d), NO_SLOT)
    BY <1>8, <1>9, <2>1, <2>2, <2>3, ExitRestartServed
  <2> QED
    BY <1>10, <2>4, BecomesServed
<1>11. Served(S2, NO_SLOT) /\ S2 \in StateT /\ S2.mproc[s].flags = S1.mproc[s].flags
       /\ S2.mproc[s].vfs = "none"
  <2> DEFINE R == Reply(S1, s, "born")
  <2>1. Easy(S1, R) /\ R.mproc[s].flags = S1.mproc[s].flags /\ R.mproc[s].vfs = S1.mproc[s].vfs
    BY <1>8, ReplyEasy
  <2> HIDE DEF R
  <2>2. Served(R, NO_SLOT) /\ R \in StateT
    BY <1>8, <2>1, EasyServed DEF Served
  <2> QED
    BY <1>8, <1>9, <2>1, <2>2 DEF R
<1> HIDE DEF S2
<1>12. Served(S3, NO_SLOT) /\ S3 \in StateT /\ S3.mproc[s].flags = S1.mproc[s].flags
       /\ S3.mproc[s].vfs = "none"
  <2> DEFINE t == S2.mproc[s].parent
             R == Reply(S2, t, "fork")
  <2>1. t \in Slots
    BY <1>11, SlotFacts
  <2> HIDE DEF t
  <2>2. Easy(S2, R) /\ R.mproc[s].flags = S2.mproc[s].flags /\ R.mproc[s].vfs = S2.mproc[s].vfs
    BY <1>11, <2>1, ReplyEasy
  <2> HIDE DEF R
  <2>3. Served(R, NO_SLOT) /\ R \in StateT
    BY <1>11, <2>2, EasyServed DEF Served
  <2> QED
    BY <1>11, <2>2, <2>3 DEF R, t
<1> HIDE DEF S3
<1>13. Served(S4, NO_SLOT) /\ S4.mproc[s].flags = S1.mproc[s].flags /\ S4.mproc[s].vfs = "none"
  <2>1. Easy(S3, S4)
    BY <1>12, FieldsEasy
  <2>2. S3.mproc[s] \in Proc
    BY <1>12, SlotFacts
  <2>3. S4.mproc[s].flags = S3.mproc[s].flags /\ S4.mproc[s].vfs = S3.mproc[s].vfs
    BY <1>12, <2>2 DEF StateT, Proc
  <2> HIDE DEF S4
  <2> QED
    BY <1>12, <2>1, <2>3, EasyServed
<1> HIDE DEF S4
<1>14. CASE Becomes(S4)
  BY <1>13, <1>14, BecomesServed
<1>15. CASE call \notin {"exit", "core"} /\ call # "none" /\ Becomes(exit_proc(S4, s, b))
  <2>1. b \in BOOLEAN /\ r.vfs \in {"fork", "srv_fork"}
    BY <1>2, <1>15 DEF Proc, VfsCalls
  <2>2. "IN_USE" \in r.flags /\ "EXITING" \notin r.flags
    BY <1>3, <2>1 DEF SlotOk, FreeSlot
  <2>3. Live(S4, s)
    BY <1>9, <1>13, <2>2 DEF Live, Has
  <2> HIDE DEF b, call
  <2>4. Served(exit_proc(S4, s, b), NO_SLOT)
    BY <1>13, <2>1, <2>3, ExitProcServed
  <2> QED
    BY <1>15, <2>4, BecomesServed
<1> QED
  BY <1>1, <1>10, <1>14, <1>15

\* A child is born: nobody waits for a slot that is free, and the child lives.
LEMMA BornServed ==
    ASSUME NEW S, Served(S, NO_SLOT), NEW c \in Slots, "IN_USE" \notin S.mproc[c].flags,
           NEW q \in Proc, q.flags \in SUBSET {"IN_USE", "PRIV_PROC"}
    PROVE  Served(Upd(S, c, q), NO_SLOT)
<1>1. Order(c, q) /\ "WAITING" \notin q.flags
  BY DEF Order
<1>2. \A arg, w : ~May(arg, w, S.mproc[c]) /\ ~Dead(w, q)
  BY DEF May, Dead
<1> QED
  BY <1>1, <1>2, ChangeServed

\* The slot count, and the caller's state, while a child is made.
LEMMA CountedServed ==
    ASSUME WInv, NEW p \in Slots, NEW u \in UserStates
    PROVE  LET T == Upd(Counted(State), p, Doing(mproc[p], u))
           IN  Served(T, NO_SLOT) /\ \A s \in Slots : T.mproc[s].flags = mproc[s].flags
<1> DEFINE V == Counted(State)
           r == mproc[p]
           q == Doing(r, u)
<1>1. State \in StateT /\ State.mproc = mproc /\ r \in Proc /\ Served(State, NO_SLOT)
  BY WInvFacts
<1>2. V \in StateT /\ V.mproc = mproc
  BY <1>1 DEF Counted, StateT
<1>3. /\ q \in Proc /\ q.flags = r.flags /\ q.wpid = r.wpid /\ q.parent = r.parent
      /\ q.tracer = r.tracer /\ q.pid = r.pid /\ q.grp = r.grp
  BY <1>1 DEF Doing, Proc
<1> HIDE DEF q, V
<1>4. Easy(State, V)
  BY <1>1, <1>2 DEF Easy, Mild
<1>5. Easy(V, Upd(V, p, q))
  BY <1>2, <1>3, FieldEasy
<1>6. Served(Upd(V, p, q), NO_SLOT)
  BY <1>1, <1>4, <1>5, EasyServed
<1>7. /\ Upd(V, p, q).mproc[p] = q
      /\ \A s \in Slots : s # p => Upd(V, p, q).mproc[s] = V.mproc[s]
  BY <1>2, <1>3, UpdFacts
<1>8. \A s \in Slots : Upd(V, p, q).mproc[s].flags = mproc[s].flags
  BY <1>2, <1>3, <1>7
<1> QED
  BY <1>6, <1>8 DEF V, q

\* A child is made, and stopped if it is traced.
LEMMA ForkedServed ==
    ASSUME WInv, NEW p \in Slots, NEW c \in Slots, p # c, "IN_USE" \notin mproc[c].flags,
           NEW slot \in Proc, slot.vfs = "none", slot.flags \in SUBSET {"IN_USE", "PRIV_PROC"},
           NEW call \in VfsCalls, NEW u \in UserStates
    PROVE  Served(Forked(p, c, slot, call, u), NO_SLOT)
<1> DEFINE W == Upd(Counted(State), p, Doing(mproc[p], u))
           q == Asked(slot, call)
           T == Upd(W, c, q)
<1>1. State \in StateT
  BY WInvFacts
<1>2. Forked(p, c, slot, call, u) = IF slot.tracer # NO_SLOT THEN sig_proc(T, c, SIGSTOP) ELSE T
  BY <1>1, ForkedIs
<1>3. Served(W, NO_SLOT) /\ \A s \in Slots : W.mproc[s].flags = mproc[s].flags
  BY CountedServed
<1>4. q \in Proc /\ q.flags = slot.flags
  BY DEF Asked, Proc
<1> HIDE DEF W, q
<1>5. Served(T, NO_SLOT)
  BY <1>3, <1>4, BornServed
<1> HIDE DEF T
<1>6. T \in StateT /\ SIGSTOP \in Signals
  BY <1>5 DEF Served, Signals
<1>7. Served(sig_proc(T, c, SIGSTOP), NO_SLOT)
  BY <1>5, <1>6, SigProcEasy, EasyServed
<1> QED
  BY <1>2, <1>5, <1>7

\* fork.
LEMMA ForkWaits ==
    ASSUME IInv, FInv, WInv, NEW p \in Slots, do_fork(p)
    PROVE  WInv'
<1> DEFINE slot == ForkedSlot(p, {"IN_USE"})
<1>1. State \in StateT /\ State.mproc = mproc /\ Running(p)
  BY WInvFacts DEF do_fork
<1>2. CASE Becomes(Fail(State, "panic"))
  <2>1. Easy(State, Fail(State, "panic"))
    BY <1>1, FailEasy DEF Faults
  <2> QED
    BY <1>2, <2>1, BecomesEasy
<1>3. ASSUME NEW c \in FreeSlots, Becomes(Forked(p, c, slot, "fork", "fork"))
      PROVE  WInv'
  <2>1. c \in Slots /\ "IN_USE" \notin mproc[c].flags
    BY DEF FreeSlots
  <2>2. "IN_USE" \in mproc[p].flags
    BY <1>1, RunningFacts
  <2>3. p \in Used(State)
    BY <1>1, <2>2 DEF Used
  <2>4. slot \in Proc /\ slot.flags = mproc[p].flags \cap {"IN_USE"} /\ slot.vfs = "none"
    BY <2>3, ForkedSlotFields DEF Flags
  <2> HIDE DEF slot
  <2>5. Served(Forked(p, c, slot, "fork", "fork"), NO_SLOT)
    BY <2>1, <2>2, <2>4, ForkedServed DEF VfsCalls, UserStates
  <2> QED
    BY <1>3, <2>5, BecomesServed
<1> QED
  BY <1>2, <1>3 DEF do_fork

\* srv_fork.
LEMMA SrvForkWaits ==
    ASSUME IInv, FInv, WInv, NEW uid \in Uids, do_srv_fork(uid)
    PROVE  WInv'
<1> DEFINE p == RS_PROC_NR
           slot0 == ForkedSlot(p, {"IN_USE", "PRIV_PROC"})
           slot == [slot0 EXCEPT !.uid = uid]
<1>1. p \in Slots /\ State \in StateT /\ State.mproc = mproc /\ Running(p)
  BY WInvFacts, NrProcsAssumption DEF do_srv_fork, RS_PROC_NR, Slots
<1>2. CASE Becomes(Fail(State, "panic"))
  <2>1. Easy(State, Fail(State, "panic"))
    BY <1>1, FailEasy DEF Faults
  <2> QED
    BY <1>2, <2>1, BecomesEasy
<1>3. ASSUME NEW c \in FreeSlots, Becomes(Reply(Forked(p, c, slot, "srv_fork", "run"), c, "born"))
      PROVE  WInv'
  <2>1. c \in Slots /\ "IN_USE" \notin mproc[c].flags
    BY DEF FreeSlots
  <2>2. "IN_USE" \in mproc[p].flags
    BY <1>1, RunningFacts
  <2>3. p \in Used(State)
    BY <1>1, <2>2 DEF Used
  <2>4. slot0 \in Proc /\ slot0.flags = mproc[p].flags \cap {"IN_USE", "PRIV_PROC"}
        /\ slot0.vfs = "none"
    BY <2>3, ForkedSlotFields DEF Flags
  <2> HIDE DEF p, slot0
  <2>5. slot \in Proc /\ slot.flags \in SUBSET {"IN_USE", "PRIV_PROC"} /\ slot.vfs = "none"
    BY <2>4 DEF Proc
  <2> HIDE DEF slot
  <2> DEFINE F == Forked(p, c, slot, "srv_fork", "run")
  <2>6. Served(F, NO_SLOT)
    BY <1>1, <2>1, <2>2, <2>5, ForkedServed DEF VfsCalls, UserStates
  <2> HIDE DEF F
  <2>7. Served(Reply(F, c, "born"), NO_SLOT)
    BY <2>1, <2>6, ReplyAnyEasy, EasyServed DEF Served
  <2> QED
    BY <1>3, <2>7, BecomesServed DEF F
<1> QED
  BY <1>2, <1>3 DEF do_srv_fork

-----------------------------------------------------------------------------
(* The loops of exit_proc: their process has stopped waiting.                *)

\* The process of the innermost frame does not wait.
LEMMA TopDoesNotWait ==
    ASSUME FInv, stack # <<>>
    PROVE  Top \in Frame /\ "WAITING" \notin mproc[Top.p].flags
<1>1. Top \in Frame /\ \E i \in DOMAIN stack : stack[i] = Top
  BY StackParts
<1>2. FramesOk(mproc, stack) /\ Top.p \in Slots
  BY <1>1, FInvFacts DEF Fine, Frame
<1>3. "EXITING" \in mproc[Top.p].flags
  BY <1>1, <1>2 DEF FramesOk
<1>4. SlotOk(Top.p, mproc[Top.p])
  BY <1>2, FInvFacts
<1> QED
  BY <1>1, <1>3, <1>4 DEF SlotOk

\* A tracee of a process that exits.
LEMMA LoopTracerDiedWaits ==
    ASSUME FInv, WInv, LoopTracerDied
    PROVE  WInv'
<1> DEFINE f == Top
           k == Least(Bereaved(f))
           S == tracer_died(State, k)
           stk == Append(Below, [f EXCEPT !.k = k])
<1>1. stack # <<>> /\ ~f.hup /\ Bereaved(f) # {} /\ mproc[k].tracer = f.p
  BY DEF LoopTracerDied
<1>2. f \in Frame /\ "WAITING" \notin mproc[f.p].flags
  BY <1>1, TopDoesNotWait
<1>3. k \in Slots /\ f.p \in Slots
  BY <1>1, <1>2, NextBereaved DEF Frame
<1>4. Becomes(S) \/ Signal(S, stk, k, SIGKILL, f.cg)
  BY DEF LoopTracerDied
<1>5. Served(State, NO_SLOT) /\ State.mproc = mproc
  BY WInvFacts
<1> HIDE DEF f, k, stk
<1>6. Served(S, NO_SLOT)
  BY <1>1, <1>2, <1>3, <1>5, TracerDiedServed
<1> HIDE DEF S
<1> QED
  BY <1>3, <1>4, <1>6, BecomesServed, SignalServed DEF Signals

\* A child of a process that exits.
LEMMA LoopDisinheritWaits ==
    ASSUME FInv, WInv, LoopDisinherit
    PROVE  WInv'
<1> DEFINE f == Top
           k == Least(Bereaved(f))
<1>1. /\ stack # <<>> /\ ~f.hup /\ Bereaved(f) # {} /\ mproc[k].tracer # f.p
      /\ Becomes(disinherit(State, k))
  BY DEF LoopDisinherit
<1>2. f \in Frame /\ "WAITING" \notin mproc[f.p].flags
  BY <1>1, TopDoesNotWait
<1>3. k \in Slots /\ (mproc[k].tracer = f.p \/ mproc[k].parent = f.p)
  BY <1>1, <1>2, NextBereaved
<1>4. Served(State, NO_SLOT) /\ State.mproc = mproc
  BY WInvFacts
<1> HIDE DEF f, k
<1>5. Served(disinherit(State, k), NO_SLOT)
  BY <1>1, <1>2, <1>3, <1>4, DisinheritServed
<1> QED
  BY <1>1, <1>5, BecomesServed

\* A step that leaves the table alone.
LEMMA TableKept ==
    ASSUME WInv, UNCHANGED <<mproc, procs_in_use, fault>>
    PROVE  WInv'
<1>1. Becomes(State) /\ Served(State, NO_SLOT)
  BY WInvFacts DEF Becomes, State
<1> QED
  BY <1>1, BecomesServed

\* Hanging up the group.
LEMMA LoopHangupWaits ==
    ASSUME FInv, WInv, LoopHangup
    PROVE  WInv'
<1> DEFINE f == Top
           k == Least(Members(f))
           stk == Append(Below, [f EXCEPT !.k = k + 1])
<1>1. CASE Members(f) = {}
  BY <1>1, TableKept DEF LoopHangup
<1>2. CASE Members(f) # {}
  <2>1. stack # <<>> /\ Signal(State, stk, k, SIGHUP, f.cg)
    BY <1>2 DEF LoopHangup
  <2>2. f.k \in Nat
    BY <2>1, TopDoesNotWait DEF Frame
  <2>3. Members(f) \in SUBSET Nat /\ Members(f) \in SUBSET Slots
    BY <2>2, NrProcsAssumption DEF Members, Slots
  <2>4. k \in Slots
    BY <1>2, <2>3, LeastOfNats
  <2> HIDE DEF k, stk, f
  <2> QED
    BY <2>1, <2>4, WInvFacts, SignalServed DEF Signals
<1> QED
  BY <1>1, <1>2

-----------------------------------------------------------------------------
(* The theorems.                                                             *)

\* Nobody waits at boot.
LEMMA InitWaits == Init => WInv
<1> SUFFICES ASSUME Init PROVE WInv
  OBVIOUS
<1>1. State \in StateT /\ State.mproc = mproc
  BY InitOk DEF IInv, Ok, State
<1>2. \A s \in Slots : SlotOk(s, mproc[s])
  BY InitFamily, FInvFacts
<1>3. \A s \in Slots : mproc[s] = IF s \in SystemSlots THEN Boot(s) ELSE FreeSlot
  BY DEF Init
<1>4. \A s \in Slots : mproc[s].user # "wait" /\ mproc[s].user # "dead"
  <2>1. \A s \in Slots : Boot(s).user = IF s = PM_PROC_NR THEN "none" ELSE "run"
    BY DEF Boot, FreeSlot
  <2>2. FreeSlot.user = "none"
    BY DEF FreeSlot
  <2> QED
    BY <1>3, <2>1, <2>2
<1>5. \A s \in Slots : "WAITING" \notin mproc[s].flags /\ "EXITING" \notin mproc[s].flags
  BY <1>2, <1>4 DEF SlotOk
<1>6. \A s \in Slots : Order(s, mproc[s])
  BY <1>2, <1>5 DEF Order, SlotOk
<1> QED
  BY <1>1, <1>5, <1>6 DEF WInv, Served

\* Every step of PM preserves the invariant.
LEMMA NextWaits ==
    ASSUME IInv, FInv, WInv, [Next]_vars
    PROVE  WInv'
<1>1. CASE Loop
  <2>1. CASE LoopEnd
    BY <2>1, TableKept DEF LoopEnd
  <2> QED
    BY <1>1, <2>1, LoopTracerDiedWaits, LoopDisinheritWaits, LoopHangupWaits DEF Loop
<1>2. ASSUME NEW p \in Slots,
             \/ do_fork(p) \/ do_exit(p) \/ KernelKill(p) \/ VfsReply(p)
             \/ \E arg \in WaitArgsOf(p) : do_waitpid(p, arg)
             \/ \E uid \in Uids : SetUid(p, uid)
             \/ Setsid(p)
      PROVE  WInv'
  <2>1. ASSUME NEW arg \in WaitArgsOf(p), do_waitpid(p, arg) PROVE WInv'
    <3>1. arg \in WaitArgs /\ arg.kind \in WaitKinds
      BY WaitArgsType DEF WaitArgsOf
    <3> QED
      BY <2>1, <3>1, WaitpidWaits
  <2> QED
    BY <1>2, <2>1, ForkWaits, ExitWaits, KernelKillWaits, VfsReplyWaits, SetUidWaits, SetsidWaits
<1>3. ASSUME NEW uid \in Uids, do_srv_fork(uid) PROVE WInv'
  BY <1>3, SrvForkWaits
<1>4. ASSUME NEW p \in Slots, NEW c \in Slots,
             \/ \E sig \in KillSignals : Kill(p, c, sig)
             \/ \E tracefork \in TraceForks : Attach(p, c, tracefork)
             \/ Resume(p, c)
             \/ TraceExit(p, c)
      PROVE  WInv'
  BY <1>4, KillWaits, AttachWaits, ResumeWaits, TraceExitWaits
<1>5. CASE UNCHANGED vars
  BY <1>5, TableKept DEF vars
<1> QED
  BY <1>1, <1>2, <1>3, <1>4, <1>5 DEF Next

\* The three invariants of the process manager together.
THEOREM WaitsInvariance == Spec => [](IInv /\ FInv /\ WInv)
<1>1. Init => IInv /\ FInv /\ WInv
  BY InitOk, InitFamily, InitWaits
<1>2. (IInv /\ FInv /\ WInv) /\ [Next]_vars => (IInv /\ FInv /\ WInv)'
  BY NextOk, NextFamily, NextWaits
<1> QED
  BY <1>1, <1>2, PTL DEF Spec

\* What the invariant says of one who waits.
LEMMA WaiterFacts ==
    ASSUME WInv, NEW p \in Slots, "WAITING" \in mproc[p].flags
    PROVE  /\ \A c \in Acceptable(p, mproc[p].wpid) : ~DeadToParent(p, c) /\ ~DeadToTracer(p, c)
           /\ "grp" \notin WaitKinds => Acceptable(p, mproc[p].wpid) # {}
<1>1. Heard(mproc, p, NO_SLOT)
  BY WInvFacts DEF Served
<1>2. \A c \in Slots : c \in Acceptable(p, mproc[p].wpid) <=> May(mproc[p].wpid, p, mproc[c])
  BY DEF Acceptable, May
<1>3. \A c \in Slots : c # NO_SLOT
  BY DEF Slots, NO_SLOT
<1>4. Acceptable(p, mproc[p].wpid) \in SUBSET Slots
  BY DEF Acceptable
<1> QED
  BY <1>1, <1>2, <1>3, <1>4 DEF Heard, Dead, DeadToParent, DeadToTracer

\* No death goes unreported, not even between the iterations of exit_proc's loop:
\* whoever is WAITING has no child and no tracee that qualifies and is dead, for all
\* three forms of waitpid, through tracers, core dumps and adoption by INIT.
THEOREM DeathsReported ==
    Spec => [](\A p \in InUse : "WAITING" \in mproc[p].flags =>
                 \A c \in Acceptable(p, mproc[p].wpid) :
                   ~DeadToParent(p, c) /\ ~DeadToTracer(p, c))
<1>1. WInv => \A p \in InUse : "WAITING" \in mproc[p].flags =>
                 \A c \in Acceptable(p, mproc[p].wpid) :
                   ~DeadToParent(p, c) /\ ~DeadToTracer(p, c)
  BY WaiterFacts DEF InUse
<1> QED
  BY <1>1, WaitsInvariance, PTL

\* No lost wakeup and no wait for nothing, unless processes wait for groups, which
\* their children may leave with setsid.
THEOREM NoWakeupLost == "grp" \notin WaitKinds => (Spec => []NoLostExit)
<1> SUFFICES ASSUME "grp" \notin WaitKinds PROVE Spec => []NoLostExit
  OBVIOUS
<1>1. WInv => NoLostExit
  BY WaiterFacts DEF NoLostExit, InUse
<1> QED
  BY <1>1, WaitsInvariance, PTL
=============================================================================
