----------------------------- MODULE TxContext -----------------------------
(***************************************************************************)
(* The resource-manager transaction context (tx_context.cpp) of the        *)
(* non-deterministic path, together with the collaborators it drives: the  *)
(* lock manager (LockMgr), the access-manager cache, the data storage      *)
(* broker (DSB), the write-ahead log and the deadlock detector.            *)
(*                                                                         *)
(* Each tx_context runs on its own strand.  Every callback the code posts  *)
(* to the strand (lock notification, op_done, DSB response, WAL durability *)
(* callback, coordinator decision) is one action, so the model explores    *)
(* every order in which callbacks of different sources reach the strand.   *)
(* A field of rm[c] that holds a stored continuation (lock_acquire_,       *)
(* ds_read_handler_[oid]) records the operation the continuation finishes. *)
(***************************************************************************)
EXTENDS Integers, Sequences, SequencesExt, FiniteSets, Relation, LockMgr

CONSTANTS
    Ctx,          \* transaction contexts (one per transaction on this RM)
    Keys,         \* rows (table, shard, tuple id) the workload touches
    Req,          \* Req[c]: the CLIENT_TX_REQ of c: [ops, distributed, read_only]
    Xid,          \* Xid[c]: transaction id; the deadlock victim is the largest
    DsbRows,      \* rows the data storage broker holds
    MaxTimeouts,  \* bound on calls of timeout_clean_up in one behaviour
    MaxDsbLoss,   \* bound on DSB read requests lost in one behaviour
    None          \* model value: an empty slot (nullptr, no posted task)

VARIABLES
    rm,        \* rm[c]: the fields of tx_context c
    slots,     \* slots[k]: lock slot of row k in the lock manager
    cache,     \* rows cached in the access manager (access_)
    walDisk,   \* walDisk[c]: records of c made durable by the WAL, in order
    toTM,      \* messages from RMs to the coordinator (prepare, ack, victim)
    toRM,      \* decisions from the coordinator to RMs (TM_COMMIT, TM_ABORT)
    timeouts,  \* contexts whose timer has fired
    dsbLost    \* DSB read requests lost so far

vars == <<rm, slots, cache, walDisk, toTM, toRM, timeouts, dsbLost>>

-----------------------------------------------------------------------------
EC == {"OK", "NOT_FOUND", "DUPLICATION", "TX_ABORT", "VICTIM"}
OpType == {"READ", "READ_FOR_WRITE", "UPDATE", "INSERT", "REMOVE"}
Op == [type : OpType, key : Keys]
RmState == {"IDLE", "COMMITTING", "ABORTING", "PREPARE_COMMITTING",
            "PREPARE_ABORTING", "ENDED"}
\* "NONE" is the type of a log entry that append_operation created and no
\* set_tx_cmd_type has typed yet.
LogType == {"RM_COMMIT", "RM_ABORT", "RM_PREPARE_COMMIT", "RM_PREPARE_ABORT", "NONE"}

MaxOps == LET lens == {Len(Req[c].ops) : c \in Ctx}
          IN CHOOSE n \in lens : \A m \in lens : m <= n
Oid == 1 .. MaxOps + 1
Cont == [type : OpType, key : Keys, oid : Oid]
LockItem == [oid : Oid, key : Keys, mode : Modes]
LogEntry == [type : LogType, ops : SUBSET Oid]
ToTMMsg == [type : {"PREPARE", "ACK"}, ctx : Ctx, commit : BOOLEAN]
           \cup [type : {"VICTIM"}, ctx : Ctx]
ToRMMsg == [type : {"TM_COMMIT", "TM_ABORT"}, ctx : Ctx]

Dist(c) == Req[c].distributed
RO(c) == Req[c].read_only

\* The tx_context constructor; the request has not been processed yet.
InitRM == [started |-> FALSE, state |-> "IDLE", ops |-> <<>>, oid |-> 1,
           ec |-> "OK", locks |-> {}, lockAcq |-> None, lockNtf |-> None,
           dsb |-> None, opDone |-> None, log |-> <<>>, walq |-> <<>>,
           resp |-> None]

-----------------------------------------------------------------------------
(* Updates of one context's fields, as functions of its record r.          *)

\* set_tx_cmd_type: type the last staged log entry, creating it if needed.
SetTxCmdType(r, t) ==
    [r EXCEPT !.log = IF @ = <<>> THEN <<[type |-> t, ops |-> {}]>>
                      ELSE <<[@[1] EXCEPT !.type = t]>>]

\* append_operation: add the write operation oid to the staged log entry.
AppendOperation(r, oid) ==
    [r EXCEPT !.log = IF @ = <<>> THEN <<[type |-> "NONE", ops |-> {oid}]>>
                      ELSE <<[@[1] EXCEPT !.ops = @ \cup {oid}]>>]

\* async_force_log: hand the staged entries to the WAL and clear them.
AsyncForceLog(r) == [r EXCEPT !.walq = @ \o r.log, !.log = <<>>]

\* send_tx_response: at most one response, carrying error_code_.
SendTxResponse(r) == IF r.resp # None THEN r ELSE [r EXCEPT !.resp = r.ec]

\* invoke_done: post op_done(ec) to the strand.
InvokeDone(r, ec) == [r EXCEPT !.opDone = ec]

\* The done-callbacks of handle_operation: read_done, update_done and
\* insert_done; the last two log the operation before posting op_done.
OpFinished(r, cont, ec) ==
    IF cont.type \in {"UPDATE", "INSERT"}
    THEN InvokeDone(AppendOperation(r, cont.oid), ec)
    ELSE InvokeDone(r, ec)

\* The lock_acquire_ continuations of async_read, async_update and
\* async_insert: on a grant, serve from the access manager or ask the DSB.
LockContinuation(r, cont, ec) ==
    IF ec # "OK" THEN OpFinished(r, cont, ec)
    ELSE IF cont.key \notin cache THEN [r EXCEPT !.dsb = cont]
    ELSE OpFinished(r, cont, IF cont.type = "INSERT" THEN "DUPLICATION" ELSE "OK")

\* The fn_read_done handlers stored in ds_read_handler_: an insert must
\* not find the row, the other operations must.
DsbContinuation(r, cont, ec) ==
    OpFinished(r, cont,
               IF cont.type # "INSERT" THEN ec
               ELSE CASE ec = "OK"        -> "DUPLICATION"
                      [] ec = "NOT_FOUND" -> "OK"
                      [] OTHER            -> ec)

\* Variant of abort_tx_1p that logs a second abort record when called again
\* while ABORTING.
AbortTx1pRelog(r) ==
    IF r.state \in {"IDLE", "ABORTING"}
    THEN AsyncForceLog(SetTxCmdType([r EXCEPT !.state = "ABORTING"], "RM_ABORT"))
    ELSE r

\* abort_tx_1p
AbortTx1p(r) ==
    CASE r.state = "IDLE" ->
            AsyncForceLog(SetTxCmdType([r EXCEPT !.state = "ABORTING"], "RM_ABORT"))
      [] r.state = "ABORTING" -> SendTxResponse(r)
      [] OTHER -> r                      \* BOOST_ASSERT(false), compiled out

\* prepare_commit_tx and prepare_abort_tx
PrepareCommitTx(r) ==
    IF r.state = "IDLE"
    THEN SetTxCmdType([r EXCEPT !.state = "PREPARE_COMMITTING"], "RM_PREPARE_COMMIT")
    ELSE r
PrepareAbortTx(r) ==
    SetTxCmdType([r EXCEPT !.state = "PREPARE_ABORTING"], "RM_PREPARE_ABORT")

-----------------------------------------------------------------------------
(* Steps of one context that also touch the lock manager or the network.   *)

\* Context c takes record r; the contexts in promoted were granted a queued
\* lock, so notify_lock_acquire(OK) is posted to their strands.
Apply(c, r, newSlots, promoted) ==
    /\ rm' = [d \in Ctx |-> LET base == IF d = c THEN r ELSE rm[d]
                            IN IF d \in promoted
                               THEN [base EXCEPT !.lockNtf = "OK"] ELSE base]
    /\ slots' = newSlots

Settle(c, r) == rm' = [rm EXCEPT ![c] = r] /\ UNCHANGED <<slots, toTM>>

Send(m) == toTM' = toTM \cup {m}

\* Variant of release_lock that unlocks only the write locks.
ReleaseLockWritesOnly(c, r) ==
    LET held == IF RO(c) THEN {} ELSE {l.key : l \in {i \in r.locks : i.mode = "WRITE"}}
        after == [k \in Keys |-> IF k \in held THEN Release(slots[k], c) ELSE slots[k]]
        promoted == UNION {PromotedBy(Unlocked(slots[k], c), after[k]) : k \in held}
    IN Apply(c, [r EXCEPT !.state = "ENDED", !.locks = {}], after, promoted)

\* release_lock: unlock every lock item (a read-only context took none),
\* then tx_ended.
ReleaseLock(c, r) ==
    LET held == IF RO(c) THEN {} ELSE {l.key : l \in r.locks}
        after == [k \in Keys |-> IF k \in held THEN Release(slots[k], c) ELSE slots[k]]
        promoted == UNION {PromotedBy(Unlocked(slots[k], c), after[k]) : k \in held}
    IN Apply(c, [r EXCEPT !.state = "ENDED", !.locks = {}], after, promoted)

\* Variant of tx_aborted that acknowledges to a coordinator whether or not
\* the transaction is distributed.
TxAbortedAlwaysAcks(c, r) ==
    ReleaseLock(c, r) /\ Send([type |-> "ACK", ctx |-> c, commit |-> FALSE])

\* Variant of tx_aborted that releases a local transaction without
\* answering its client.
TxAbortedNoResponse(c, r) ==
    IF ~Dist(c)
    THEN ReleaseLock(c, r) /\ UNCHANGED toTM
    ELSE ReleaseLock(c, r) /\ Send([type |-> "ACK", ctx |-> c, commit |-> FALSE])

\* tx_committed and tx_aborted
TxCommitted(c, r) ==
    IF ~Dist(c)
    THEN ReleaseLock(c, SendTxResponse(r)) /\ UNCHANGED toTM
    ELSE ReleaseLock(c, r) /\ Send([type |-> "ACK", ctx |-> c, commit |-> TRUE])
TxAborted(c, r) ==
    IF ~Dist(c)
    THEN ReleaseLock(c, SendTxResponse(IF r.ec = "OK" THEN [r EXCEPT !.ec = "TX_ABORT"]
                                                       ELSE r))
         /\ UNCHANGED toTM
    ELSE ReleaseLock(c, r) /\ Send([type |-> "ACK", ctx |-> c, commit |-> FALSE])

\* Variant of handle_finish_tx_phase1_commit that skips the log for every
\* transaction, as if all were read-only.
Phase1CommitNoLog(c, r) ==
    TxCommitted(c, SetTxCmdType([r EXCEPT !.state = "COMMITTING"], "RM_COMMIT"))

\* handle_finish_tx_phase1_commit, reached from handle_next_operation in IDLE;
\* a read-only transaction commits without a log record.
Phase1Commit(c, r) ==
    LET r1 == SetTxCmdType([r EXCEPT !.state = "COMMITTING"], "RM_COMMIT")
    IN IF RO(c) THEN TxCommitted(c, r1) ELSE Settle(c, AsyncForceLog(r1))

\* handle_operation with async_read / async_update / async_insert: record
\* the lock item, install the continuation, request the row lock.  A
\* read-only read runs the continuation at once without locking.  REMOVE
\* reaches the default branch: nothing happens and op_done is never posted.
HandleOperation(c, r, op) ==
    IF op.type = "REMOVE" THEN Settle(c, r)
    ELSE
    LET mode == IF op.type = "READ" THEN "READ" ELSE "WRITE"
        cont == [type |-> op.type, key |-> op.key, oid |-> r.oid]
        r1 == [r EXCEPT !.oid = @ + 1, !.lockAcq = cont,
                        !.locks = @ \cup {[oid |-> r.oid, key |-> op.key, mode |-> mode]}]
        req == <<c, mode>>
    IN IF RO(c) /\ op.type \in {"READ", "READ_FOR_WRITE"}
       THEN Settle(c, LockContinuation([r1 EXCEPT !.lockAcq = None], cont, "OK"))
       ELSE /\ Apply(c, r1, [slots EXCEPT ![op.key] = Acquire(@, req)],
                     IF CanGrant(slots[op.key], req) THEN {c} ELSE {})
            /\ UNCHANGED toTM

\* handle_next_operation
HandleNextOperation(c, r) ==
    CASE r.state # "IDLE"               -> Settle(c, r)
      [] r.ec = "OK" /\ r.ops # <<>>     -> HandleOperation(c, r, Head(r.ops))
      [] r.ec = "OK" /\ ~Dist(c)         -> Phase1Commit(c, r)
      [] r.ec = "OK"                     -> Settle(c, AsyncForceLog(PrepareCommitTx(r)))
      [] ~Dist(c)                        -> Settle(c, AbortTx1p(r))
      [] OTHER                           -> Settle(c, AsyncForceLog(PrepareAbortTx(r)))

\* abort_tx_2p
AbortTx2p(c, r) ==
    CASE r.state \in {"IDLE", "PREPARE_ABORTING", "PREPARE_COMMITTING"} ->
            Settle(c, AsyncForceLog(SetTxCmdType([r EXCEPT !.state = "ABORTING"],
                                                 "RM_ABORT")))
      [] r.state \in {"ABORTING", "ENDED"} ->
            /\ Send([type |-> "ACK", ctx |-> c, commit |-> FALSE])
            /\ UNCHANGED <<rm, slots>>
      [] OTHER -> Settle(c, r)           \* BOOST_ASSERT_MSG, compiled out

\* Variant of handle_finish_tx_phase2_commit that moves to COMMITTING
\* without forcing the commit record to the log.
Phase2CommitNoForce(c, r) ==
    CASE r.state = "PREPARE_COMMITTING" ->
            Settle(c, SetTxCmdType([r EXCEPT !.state = "COMMITTING"], "RM_COMMIT"))
      [] r.state = "COMMITTING" ->
            /\ Send([type |-> "ACK", ctx |-> c, commit |-> TRUE])
            /\ UNCHANGED <<rm, slots>>
      [] OTHER -> Settle(c, r)

\* handle_finish_tx_phase2_commit
Phase2Commit(c, r) ==
    CASE r.state = "PREPARE_COMMITTING" ->
            Settle(c, AsyncForceLog(SetTxCmdType([r EXCEPT !.state = "COMMITTING"],
                                                 "RM_COMMIT")))
      [] r.state = "COMMITTING" ->
            /\ Send([type |-> "ACK", ctx |-> c, commit |-> TRUE])
            /\ UNCHANGED <<rm, slots>>
      [] OTHER -> Settle(c, r)           \* BOOST_ASSERT(false), compiled out

-----------------------------------------------------------------------------
(* Actions.                                                                *)

Init ==
    /\ rm = [c \in Ctx |-> InitRM]
    /\ slots = [k \in Keys |-> EmptySlot]
    /\ cache = {}
    /\ walDisk = [c \in Ctx |-> <<>>]
    /\ toTM = {}
    /\ toRM = {}
    /\ timeouts = {}
    /\ dsbLost = 0

\* process_tx_request for a oneshot request: queue its operations, start.
ProcessTxRequest(c) ==
    /\ ~rm[c].started
    /\ HandleNextOperation(c, [rm[c] EXCEPT !.started = TRUE, !.ops = Req[c].ops])
    /\ UNCHANGED <<cache, walDisk, toRM, timeouts, dsbLost>>

\* The task notify_lock_acquire posted: run and clear lock_acquire_.
LockNotified(c) ==
    /\ rm[c].lockNtf # None
    /\ LET r == [rm[c] EXCEPT !.lockNtf = None, !.lockAcq = None]
       IN IF rm[c].lockAcq = None THEN Settle(c, r)   \* BOOST_ASSERT(false)
          ELSE Settle(c, LockContinuation(r, rm[c].lockAcq, rm[c].lockNtf))
    /\ UNCHANGED <<cache, walDisk, toRM, timeouts, dsbLost>>

\* Variant of read_data_from_dsb_response that caches the row even when the
\* DSB did not return it.
DsbResponseCachesMiss(c) ==
    /\ rm[c].dsb # None
    /\ LET cont == rm[c].dsb
           ec == IF cont.key \in DsbRows THEN "OK" ELSE "NOT_FOUND"
       IN /\ rm' = [rm EXCEPT ![c] = DsbContinuation([@ EXCEPT !.dsb = None], cont, ec)]
          /\ cache' = cache \cup {cont.key}
    /\ UNCHANGED <<slots, walDisk, toTM, toRM, timeouts, dsbLost>>

\* read_data_from_dsb_response: the DSB answers with the row or NOT_FOUND;
\* the handler runs first, then a found row is cached.
DsbResponse(c) ==
    /\ rm[c].dsb # None
    /\ LET cont == rm[c].dsb
           ec == IF cont.key \in DsbRows THEN "OK" ELSE "NOT_FOUND"
       IN /\ rm' = [rm EXCEPT ![c] = DsbContinuation([@ EXCEPT !.dsb = None], cont, ec)]
          /\ cache' = IF ec = "OK" THEN cache \cup {cont.key} ELSE cache
    /\ UNCHANGED <<slots, walDisk, toTM, toRM, timeouts, dsbLost>>

\* op_done: pop the operation, record its error (NOT_FOUND is tolerated by
\* a read-only transaction), continue with the next one.
OpDone(c) ==
    /\ rm[c].opDone # None
    /\ LET ec == rm[c].opDone
       IN HandleNextOperation(c,
            [rm[c] EXCEPT !.opDone = None, !.ops = Tail(@),
                          !.ec = IF RO(c) /\ ec = "NOT_FOUND" THEN "OK" ELSE ec])
    /\ UNCHANGED <<cache, walDisk, toRM, timeouts, dsbLost>>

\* The WAL makes the oldest appended entry of c durable and delivers
\* on_log_entry_commit(type) on c's strand.
LogEntryCommit(c) ==
    /\ rm[c].walq # <<>>
    /\ LET e == Head(rm[c].walq)
           r == [rm[c] EXCEPT !.walq = Tail(@), !.log = <<>>]
       IN /\ walDisk' = [walDisk EXCEPT ![c] = Append(@, e)]
          /\ CASE e.type = "RM_COMMIT" -> TxCommitted(c, r)
               [] e.type = "RM_ABORT"  -> TxAborted(c, r)
               [] e.type = "RM_PREPARE_COMMIT" ->
                     /\ rm' = [rm EXCEPT ![c] = r] /\ UNCHANGED slots
                     /\ Send([type |-> "PREPARE", ctx |-> c, commit |-> TRUE])
               [] e.type = "RM_PREPARE_ABORT" ->
                     /\ rm' = [rm EXCEPT ![c] = r] /\ UNCHANGED slots
                     /\ Send([type |-> "PREPARE", ctx |-> c, commit |-> FALSE])
               [] OTHER -> Settle(c, r)
    /\ UNCHANGED <<cache, toRM, timeouts, dsbLost>>

\* The wait-for graph of the detector and the transitive closure of it.
WaitFor == [p \in Ctx \X Ctx |-> \E k \in Keys : WaitsOn(slots[k], p[1], p[2])]

\* The deadlock detector finds v on a wait-for cycle and v has the largest
\* xid of its cycle: abort(VICTIM) on v, then the lock manager fails v's
\* pending request with VICTIM.
DeadlockVictim(v) ==
    LET tc == TransitiveClosure(WaitFor, Ctx)
        cycle == {d \in Ctx : tc[<<v, d>>] /\ tc[<<d, v>>]}
        r == rm[v]
        aborted == IF ~Dist(v) /\ r.state = "IDLE"
                   THEN AbortTx1p([r EXCEPT !.ec = "VICTIM"]) ELSE r
        after == [k \in Keys |-> FailWaiter(slots[k], v)]
        promoted == UNION {PromotedBy(Dequeued(slots[k], v), after[k]) : k \in Keys}
    IN /\ tc[<<v, v>>]
       /\ \A d \in cycle : Xid[d] <= Xid[v]
       /\ Apply(v, [aborted EXCEPT !.lockNtf = "VICTIM"], after, promoted)
       /\ IF Dist(v) THEN Send([type |-> "VICTIM", ctx |-> v]) ELSE UNCHANGED toTM
       /\ UNCHANGED <<cache, walDisk, toRM, timeouts, dsbLost>>

\* timeout_clean_up is called, at most once per context.  Its caller is not
\* in src/: the only timer begin arms (69-105) exists under TX_TRACE, runs
\* on the strand and only logs.  Spec 4.5 has a timer armed at begin call it.
TimerFires(c) ==
    /\ rm[c].started
    /\ c \notin timeouts
    /\ Cardinality(timeouts) < MaxTimeouts
    /\ timeouts' = timeouts \cup {c}

Decided(r) == r.state \in {"PREPARE_COMMITTING", "COMMITTING"}

\* The abort of timeout_clean_up on record r: abort_tx_1p followed by
\* send_tx_response, or abort_tx_2p.
TimeoutAbort(c, r) ==
    IF ~Dist(c) THEN Settle(c, SendTxResponse(AbortTx1p(r))) ELSE AbortTx2p(c, r)

\* Variant of timeout_clean_up that aborts in every state.
TimeoutAnyState(c) ==
    /\ TimerFires(c)
    /\ TimeoutAbort(c, rm[c])
    /\ UNCHANGED <<cache, walDisk, toRM, dsbLost>>

\* timeout_clean_up, run on the context's strand (spec section 5 posts every
\* callback there, and begin's timer is built on get_strand()): nothing once
\* the decision point is passed, otherwise the abort.
Timeout(c) ==
    /\ TimerFires(c)
    /\ IF Decided(rm[c]) THEN Settle(c, rm[c]) ELSE TimeoutAbort(c, rm[c])
    /\ UNCHANGED <<cache, walDisk, toRM, dsbLost>>

\* The C2D_READ_DATA_REQ of a pending DSB read is lost, or its send
\* failed: the handler stays registered and no response comes.
DsbLost(c) ==
    /\ rm[c].dsb # None
    /\ dsbLost < MaxDsbLoss
    /\ rm' = [rm EXCEPT ![c].dsb = None]
    /\ dsbLost' = dsbLost + 1
    /\ UNCHANGED <<slots, cache, walDisk, toTM, toRM, timeouts>>

\* handle_tx_tm_commit / handle_tx_tm_abort on receipt of a decision.
RecvTmCommit(c) ==
    /\ [type |-> "TM_COMMIT", ctx |-> c] \in toRM
    /\ toRM' = toRM \ {[type |-> "TM_COMMIT", ctx |-> c]}
    /\ Phase2Commit(c, rm[c])
    /\ UNCHANGED <<cache, walDisk, timeouts, dsbLost>>
RecvTmAbort(c) ==
    /\ [type |-> "TM_ABORT", ctx |-> c] \in toRM
    /\ toRM' = toRM \ {[type |-> "TM_ABORT", ctx |-> c]}
    /\ AbortTx2p(c, rm[c])
    /\ UNCHANGED <<cache, walDisk, timeouts, dsbLost>>

\* Every context has ended: the node has nothing left to do for them.
Terminating == (\A c \in Ctx : rm[c].state = "ENDED") /\ UNCHANGED vars

\* The RM's steps; the coordinator's decisions (RecvTmCommit, RecvTmAbort)
\* are added where the coordinator is composed in (TwoPC).
RMNext ==
    \/ Terminating
    \/ \E c \in Ctx :
           \/ ProcessTxRequest(c)
           \/ LockNotified(c)
           \/ DsbResponse(c)
           \/ OpDone(c)
           \/ LogEntryCommit(c)
           \/ DeadlockVictim(c)
           \/ Timeout(c)
           \/ DsbLost(c)

\* Posted strand tasks run, the DSB answers a request it received, the WAL
\* syncs and the detector scans periodically.  Requests, decisions and
\* timeout_clean_up are not promised: nothing in src/ calls timeout_clean_up.
RMFairness ==
    \A c \in Ctx :
        /\ WF_vars(LockNotified(c))
        /\ WF_vars(DsbResponse(c))
        /\ WF_vars(OpDone(c))
        /\ WF_vars(LogEntryCommit(c))
        /\ WF_vars(DeadlockVictim(c))

Spec == Init /\ [][RMNext]_vars /\ RMFairness

-----------------------------------------------------------------------------
(* Properties.                                                             *)

TypeOK ==
    /\ rm \in [Ctx -> [started : BOOLEAN, state : RmState, ops : Seq(Op),
                       oid : Oid, ec : EC, locks : SUBSET LockItem,
                       lockAcq : Cont \cup {None}, lockNtf : EC \cup {None},
                       dsb : Cont \cup {None}, opDone : EC \cup {None},
                       log : Seq(LogEntry), walq : Seq(LogEntry),
                       resp : EC \cup {None}]]
    /\ slots \in [Keys -> [granted : SUBSET (Ctx \X Modes),
                           queue : Seq(Ctx \X Modes)]]
    /\ cache \subseteq DsbRows
    /\ walDisk \in [Ctx -> Seq(LogEntry)]
    /\ toTM \subseteq ToTMMsg
    /\ toRM \subseteq ToRMMsg
    /\ timeouts \subseteq Ctx
    /\ dsbLost \in 0 .. MaxDsbLoss

\* Spec invariant 2: once release_lock has ended a context, the lock manager
\* holds neither a grant nor a queued request of it, even when the context
\* ended while one of its lock requests was still waiting or being notified.
EndedHoldsNoLocks ==
    \A c \in Ctx : rm[c].state = "ENDED" =>
        \A k \in Keys : /\ \A g \in slots[k].granted : g[1] # c
                        /\ \A q \in ToSet(slots[k].queue) : q[1] # c

TypesOf(c) == {walDisk[c][i].type : i \in DOMAIN walDisk[c]}

\* Spec invariant 3, stated on what the client sees: a local transaction is
\* answered OK only if it committed (an RM_COMMIT record is durable, or it is
\* read-only and needs none) and never aborted; any other answer is given
\* only to a transaction that wrote no RM_COMMIT record.
ClientSeesOutcome ==
    \A c \in Ctx : ~Dist(c) /\ rm[c].resp # None =>
        IF rm[c].resp = "OK"
        THEN /\ RO(c) \/ "RM_COMMIT" \in TypesOf(c)
             /\ "RM_ABORT" \notin TypesOf(c) /\ rm[c].state # "ABORTING"
        ELSE "RM_COMMIT" \notin TypesOf(c)

\* The durable decision records of a transaction follow one of the shapes
\* of the one- and two-phase protocols: one decision, reached at most after
\* a single prepare record, never both a commit and an abort.
LegalLogHistories ==
    \A c \in Ctx :
        [i \in DOMAIN walDisk[c] |-> walDisk[c][i].type] \in
            {<<>>, <<"RM_COMMIT">>, <<"RM_ABORT">>,
             <<"RM_PREPARE_COMMIT">>, <<"RM_PREPARE_COMMIT", "RM_COMMIT">>,
             <<"RM_PREPARE_COMMIT", "RM_ABORT">>,
             <<"RM_PREPARE_ABORT">>, <<"RM_PREPARE_ABORT", "RM_ABORT">>}

\* Every local transaction whose request arrived is eventually answered and
\* ended: no lock wait, DSB read or WAL sync strands it, and deadlocks are
\* broken by the detector.
EveryTxEnds ==
    \A c \in Ctx : ~Dist(c) =>
        (rm[c].started ~> (rm[c].state = "ENDED" /\ rm[c].resp # None))

=============================================================================
