------------------------------- MODULE GeoRep -------------------------------
(***************************************************************************)
(* The geo-replication dependency tracking of tx_context                  *)
(* (DB_TYPE_GEO_REP_OPTIMIZE): register_dependency, report_dependency and  *)
(* the posted decrement, dependency_commit and dlv_try_tx_(prepare_)commit,*)
(* beside the part of a context's life that they read: the phase-1        *)
(* decision and the WAL callback that makes it durable.                    *)
(*                                                                         *)
(* Each context runs on its own strand, and a call made on a strand blocks *)
(* it until the call returns: pc[c] is where c's strand is inside a        *)
(* dependency call, "idle" when it can run the next posted task.           *)
(* mtx[c] is c's mutex_: the strand that holds it and how many times.      *)
(* Whether mutex_ is recursive is declared in the header, which is not     *)
(* part of the source; Init leaves it open.                                *)
(***************************************************************************)
EXTENDS Naturals, FiniteSets

CONSTANTS
    Ctx,          \* the transaction contexts
    Dist,         \* the distributed ones (distributed_)
    Xid,          \* Xid[c]: the xid of c, distinct
    MaxCalls,     \* bound on register_dependency calls per context
    None

ASSUME Dist \subseteq Ctx /\ Xid \in [Ctx -> Nat] /\ MaxCalls \in Nat

VARIABLES
    st,           \* state_: "IDLE", "COMMITTING", "PREPARE_COMMITTING",
                  \*         "ABORTING", "PREPARE_ABORTING" or "ENDED"
    synced,       \* commit_log_synced_ / prepare_commit_log_synced_
    commits,      \* how often tx_committed / tx_prepare_committed ran
    depIn,        \* dep_in_set_ (keys: the contexts c depends on)
    depOut,       \* dep_out_set_ (the contexts depending on c)
    depInCount,   \* dep_in_count_
    depCommitted, \* dependency_committed_
    dlv,          \* dlv_commit_ / dlv_prepare_
    mtx,          \* mutex_: [owner, n]
    recursive,    \* whether mutex_ may be locked again by its owner
    pc,           \* where c's strand is inside a dependency call
    arg,          \* the other context of that call
    decTasks,     \* decrement lambdas posted to c's strand, by reporter
    dcTask,       \* dependency_commit posted to c's strand
    reported,     \* report_dependency has run for c
    calls         \* register_dependency calls made on c's strand

vars == <<st, synced, commits, depIn, depOut, depInCount, depCommitted, dlv,
          mtx, recursive, pc, arg, decTasks, dcTask, reported, calls>>
life == <<st, synced, commits>>
deps == <<depIn, depOut, depInCount, depCommitted, dlv>>
tasks == <<decTasks, dcTask>>

Free == [owner |-> None, n |-> 0]

\* state_ and the synced flags come from the constructor's initialiser list;
\* the dependency fields are not initialised there (they are declared in the
\* header, which is not in the source), and start empty, as their default
\* construction gives.
Init ==
    /\ st = [c \in Ctx |-> "IDLE"]
    /\ synced = [c \in Ctx |-> FALSE]
    /\ commits = [c \in Ctx |-> 0]
    /\ depIn = [c \in Ctx |-> {}]
    /\ depOut = [c \in Ctx |-> {}]
    /\ depInCount = [c \in Ctx |-> 0]
    /\ depCommitted = [c \in Ctx |-> FALSE]
    /\ dlv = [c \in Ctx |-> FALSE]
    /\ mtx = [c \in Ctx |-> Free]
    /\ recursive \in BOOLEAN
    /\ pc = [c \in Ctx |-> "idle"]
    /\ arg = [c \in Ctx |-> None]
    /\ decTasks = [c \in Ctx |-> {}]
    /\ dcTask = [c \in Ctx |-> FALSE]
    /\ reported = [c \in Ctx |-> FALSE]
    /\ calls = [c \in Ctx |-> 0]

\* s's strand may take mutex m now: it is free, or s holds it and it is
\* recursive.  A std::mutex locked again by its owner never returns.
CanLock(s, m) ==
    \/ mtx[m].owner = None
    \/ mtx[m].owner = s /\ recursive
Locked(s, m) == [owner |-> s, n |-> mtx[m].n + 1]

Idle(c) == pc[c] = "idle"

-----------------------------------------------------------------------------
(* The part of the context's life that the dependency code reads.          *)

\* handle_finish_tx_phase1_commit / prepare_commit_tx: the decision and the
\* forced log record.
Phase1Commit(c) ==
    /\ Idle(c)
    /\ st[c] = "IDLE"
    /\ st' = [st EXCEPT ![c] = IF c \in Dist THEN "PREPARE_COMMITTING"
                                            ELSE "COMMITTING"]
    /\ UNCHANGED <<synced, commits, deps, mtx, recursive, pc, arg, tasks,
                   reported, calls>>

\* abort_tx_1p, or prepare_abort_tx for a distributed context, on an
\* operation error.
Phase1Abort(c) ==
    /\ Idle(c)
    /\ st[c] = "IDLE"
    /\ st' = [st EXCEPT ![c] = IF c \in Dist THEN "PREPARE_ABORTING"
                                            ELSE "ABORTING"]
    /\ UNCHANGED <<synced, commits, deps, mtx, recursive, pc, arg, tasks,
                   reported, calls>>

\* on_log_entry_commit.  This file is compiled only with
\* DB_TYPE_NON_DETERMINISTIC, so on_committed_log_commit and
\* on_prepare_committed_log_commit call tx_committed / tx_prepare_committed
\* at once; tx_committed of a local context answers and ends it.
LogEntryCommit(c) ==
    /\ Idle(c)
    /\ \/ /\ st[c] \in {"COMMITTING", "PREPARE_COMMITTING"}
          /\ ~synced[c]
          /\ synced' = [synced EXCEPT ![c] = TRUE]
          /\ commits' = [commits EXCEPT ![c] = @ + 1]
          /\ st' = IF st[c] = "COMMITTING" THEN [st EXCEPT ![c] = "ENDED"]
                                           ELSE st
       \/ /\ st[c] = "ABORTING"
          /\ st' = [st EXCEPT ![c] = "ENDED"]
          /\ UNCHANGED <<synced, commits>>
    /\ UNCHANGED <<deps, mtx, recursive, pc, arg, tasks, reported, calls>>

-----------------------------------------------------------------------------
(* register_dependency(out), called on c's strand with out # c.           *)

\* The mutex taken at the k-th lock of the call: xid order first (981-985),
\* then the same two again in the other order (1003-1009).
RegOrder(c, o) ==
    IF Xid[c] < Xid[o] THEN <<c, o, o, c>> ELSE <<o, c, c, o>>
RegStep == [reg1 |-> 1, reg2 |-> 2, rel1 |-> 3, rel2 |-> 4]
RegNext == [reg1 |-> "reg2", reg2 |-> "body", rel1 |-> "rel2", rel2 |-> "idle"]

RegisterDependency(c, o) ==
    /\ Idle(c)
    /\ o # c
    /\ calls[c] < MaxCalls
    /\ pc' = [pc EXCEPT ![c] = "reg1"]
    /\ arg' = [arg EXCEPT ![c] = o]
    /\ calls' = [calls EXCEPT ![c] = @ + 1]
    /\ UNCHANGED <<life, deps, mtx, recursive, tasks, reported>>

\* One of the four lock calls; the call returns after the fourth.
RegLock(c) ==
    /\ pc[c] \in DOMAIN RegStep
    /\ LET m == RegOrder(c, arg[c])[RegStep[pc[c]]]
       IN  /\ CanLock(c, m)
           /\ mtx' = [mtx EXCEPT ![m] = Locked(c, m)]
    /\ pc' = [pc EXCEPT ![c] = RegNext[pc[c]]]
    /\ arg' = IF pc[c] = "rel2" THEN [arg EXCEPT ![c] = None] ELSE arg
    /\ UNCHANGED <<life, deps, recursive, tasks, reported, calls>>

\* The body between the locks (987-1001): no edge from or to a context
\* that is committing or aborting, and at most one edge per pair.
RegBody(c) ==
    LET o == arg[c] IN
    /\ pc[c] = "body"
    /\ IF \/ st[o] \in {"ABORTING", "COMMITTING"}
          \/ st[c] \in {"COMMITTING", "ABORTING"}
          \/ o \in depOut[c]
       THEN UNCHANGED <<depIn, depOut, depInCount>>
       ELSE /\ depInCount' = [depInCount EXCEPT ![o] = @ + 1]
            /\ depOut' = [depOut EXCEPT ![c] = @ \cup {o}]
            /\ depIn' = [depIn EXCEPT ![o] = @ \cup {c}]
    /\ pc' = [pc EXCEPT ![c] = "rel1"]
    /\ UNCHANGED <<life, depCommitted, dlv, mtx, recursive, arg, tasks,
                   reported, calls>>

-----------------------------------------------------------------------------
(* report_dependency, and the lambda it posts to each dependent.  Its      *)
(* caller is not in the source; the spec releases a context's inbound      *)
(* dependencies once its decision is durable, so it runs once, after the   *)
(* log callback.                                                           *)

ReportDependency(c) ==
    /\ Idle(c)
    /\ synced[c]
    /\ ~reported[c]
    /\ pc' = [pc EXCEPT ![c] = "report"]
    /\ reported' = [reported EXCEPT ![c] = TRUE]
    /\ UNCHANGED <<life, deps, mtx, recursive, arg, tasks, calls>>

\* mutex_.lock(), post the lambda to every dependent's strand, unlock.
ReportLocked(c) ==
    /\ pc[c] = "report"
    /\ CanLock(c, c)
    /\ decTasks' = [o \in Ctx |-> IF o \in depOut[c] THEN decTasks[o] \cup {c}
                                                    ELSE decTasks[o]]
    /\ pc' = [pc EXCEPT ![c] = "idle"]
    /\ UNCHANGED <<life, deps, mtx, recursive, arg, dcTask, reported, calls>>

\* The strand of dependent c starts the lambda posted by reporter d.
RunDecrement(c, d) ==
    /\ Idle(c)
    /\ d \in decTasks[c]
    /\ decTasks' = [decTasks EXCEPT ![c] = @ \ {d}]
    /\ pc' = [pc EXCEPT ![c] = "dec"]
    /\ arg' = [arg EXCEPT ![c] = d]
    /\ UNCHANGED <<life, deps, mtx, recursive, dcTask, reported, calls>>

\* ctx->mutex_.lock(); the decrement; post dependency_commit at zero;
\* unlock.  dep_in_set_ is never erased, so only the count limits it.
DecrementLocked(c) ==
    /\ pc[c] = "dec"
    /\ CanLock(c, c)
    /\ IF arg[c] \in depIn[c] /\ depInCount[c] > 0
       THEN /\ depInCount' = [depInCount EXCEPT ![c] = @ - 1]
            /\ dcTask' = [dcTask EXCEPT ![c] = @ \/ depInCount[c] = 1]
       ELSE UNCHANGED <<depInCount, dcTask>>
    /\ pc' = [pc EXCEPT ![c] = "idle"]
    /\ arg' = [arg EXCEPT ![c] = None]
    /\ UNCHANGED <<life, depIn, depOut, depCommitted, dlv, mtx, recursive,
                   decTasks, reported, calls>>

RunDependencyCommit(c) ==
    /\ Idle(c)
    /\ dcTask[c]
    /\ dcTask' = [dcTask EXCEPT ![c] = FALSE]
    /\ pc' = [pc EXCEPT ![c] = "dc"]
    /\ UNCHANGED <<life, deps, mtx, recursive, arg, decTasks, reported, calls>>

\* dependency_commit under scoped_lock(mutex_), with dlv_try_tx_commit or
\* dlv_try_tx_prepare_commit: once the count is zero and the record is
\* durable, tx_committed / tx_prepare_committed runs (again).
DependencyCommit(c) ==
    /\ pc[c] = "dc"
    /\ CanLock(c, c)
    /\ depCommitted' = [depCommitted EXCEPT ![c] = TRUE]
    /\ IF depInCount[c] = 0 /\ synced[c] /\ ~dlv[c]
       THEN /\ dlv' = [dlv EXCEPT ![c] = TRUE]
            /\ commits' = [commits EXCEPT ![c] = @ + 1]
            /\ st' = IF c \in Dist THEN st ELSE [st EXCEPT ![c] = "ENDED"]
       ELSE UNCHANGED <<dlv, commits, st>>
    /\ pc' = [pc EXCEPT ![c] = "idle"]
    /\ UNCHANGED <<synced, depIn, depOut, depInCount, mtx, recursive, arg,
                   tasks, reported, calls>>

-----------------------------------------------------------------------------
\* Every strand is idle with nothing posted and no call left to make.
Terminating ==
    /\ \A c \in Ctx : Idle(c) /\ decTasks[c] = {} /\ ~dcTask[c]
    /\ UNCHANGED vars

Next ==
    \/ Terminating
    \/ \E c \in Ctx :
          \/ Phase1Commit(c) \/ Phase1Abort(c) \/ LogEntryCommit(c)
          \/ \E o \in Ctx : RegisterDependency(c, o)
          \/ RegLock(c) \/ RegBody(c)
          \/ ReportDependency(c) \/ ReportLocked(c)
          \/ \E d \in Ctx : RunDecrement(c, d)
          \/ DecrementLocked(c)
          \/ RunDependencyCommit(c) \/ DependencyCommit(c)

\* A strand runs what is posted to it, and a lock call returns whenever the
\* mutex is available infinitely often.  The calls into the dependency code
\* are not promised.
Fairness ==
    \A c \in Ctx :
        /\ WF_vars(Phase1Commit(c) \/ Phase1Abort(c))
        /\ WF_vars(LogEntryCommit(c))
        /\ WF_vars(RegBody(c))
        /\ SF_vars(RegLock(c))
        /\ SF_vars(ReportLocked(c))
        /\ WF_vars(\E d \in Ctx : RunDecrement(c, d))
        /\ SF_vars(DecrementLocked(c))
        /\ WF_vars(RunDependencyCommit(c))
        /\ SF_vars(DependencyCommit(c))

Spec == Init /\ [][Next]_vars /\ Fairness

-----------------------------------------------------------------------------
GRTypeOK ==
    /\ st \in [Ctx -> {"IDLE", "COMMITTING", "PREPARE_COMMITTING", "PREPARE_ABORTING",
                       "ABORTING", "ENDED"}]
    /\ synced \in [Ctx -> BOOLEAN]
    /\ commits \in [Ctx -> Nat]
    /\ depIn \in [Ctx -> SUBSET Ctx] /\ depOut \in [Ctx -> SUBSET Ctx]
    /\ depInCount \in [Ctx -> Nat]
    /\ mtx \in [Ctx -> [owner : Ctx \cup {None}, n : Nat]]
    /\ pc \in [Ctx -> {"idle", "reg1", "reg2", "body", "rel1", "rel2",
                       "report", "dec", "dc"}]

\* Spec section 3: an edge A -> B means B's prepare or commit waits on A's.
\* A context is committed (or votes commit) only while no dependency it
\* registered is outstanding, as dlv_try_tx_commit's own guard intends.
CommitWaitsForDependencies ==
    [][\A c \in Ctx : commits'[c] > commits[c] => depInCount[c] = 0]_vars

\* Every call into the dependency code returns: register_dependency, the
\* report and the posted lambdas do not leave a strand blocked on a mutex.
EveryCallReturns == \A c \in Ctx : ~Idle(c) ~> Idle(c)

=============================================================================
