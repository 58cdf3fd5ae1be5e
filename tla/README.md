# TLA+ models of the tddb resource-manager transaction context

This directory holds TLA+ models of `tx_context`, the resource-manager (RM)
side of a transaction in tddb's non-deterministic, shared-nothing build. It
also models the collaborators that `tx_context` drives. The models are checked
with TLC. `PROJECT.json` lists the components, runs, mutants, the map from
every definition to the source lines it translates, the findings and the
hazards.

All source line numbers refer to `src/unnamed/part_000`. That file holds the
library's CMake list first and `tx_context.cpp` after it.

## 1. The system

### Components

| component | source | state the models keep |
|---|---|---|
| `tx_context` | part_000 69-1138 | `state_`, `ops_`, `oid_`, `error_code_`, `locks_`, the stored continuations `lock_acquire_` and `ds_read_handler_`, `log_entry_`, `has_respond_` |
| lock manager (`lock_mgr_global`, `lock_slot`) | not in src/ (spec 4.1) | one slot per row: the granted requests and a FIFO wait queue |
| deadlock detector (`deadlock`) | not in src/ (spec 4.3) | the wait-for graph, computed from the slots |
| write-ahead log (`write_ahead_log`) | not in src/ | the entries appended and not yet durable, and the durable records |
| access manager and DSB | called from part_000 312-396 | the cached rows; the rows the DSB holds |
| coordinator (`tx_coordinator`) | not in src/ (spec 4.6) | the votes, the decision, the ACKs, and the messages in flight |
| geo-replication dependency tracking | part_000 975-1066 | `dep_in_set_`, `dep_out_set_`, `dep_in_count_`, `dependency_committed_`, `dlv_commit_`, `mutex_` |
| Calvin path, `portal` | see section 6 | not modelled |

### How the parts interact

A `tx_context` runs on its own strand. `process_tx_request` queues the
operations. `handle_next_operation` then runs them one at a time:
- `handle_operation` records a lock item, stores a continuation in
  `lock_acquire_` and calls `lock_row`.
- The grant comes back through `notify_lock_acquire`, posted to the strand. It
  may come at once, or later when another transaction's release promotes the
  request.
- The continuation serves the row from the access manager, or asks the DSB.
  `read_data_from_dsb_response` runs the stored handler, then caches a row
  that was found.
- The done callback logs writes (`append_operation`) and posts `op_done`.
  `op_done` pops the operation, records its error and continues.

When the operations are done:
- A local transaction forces `RM_COMMIT`, or `RM_ABORT` if an operation
  failed, to the WAL.
- A distributed transaction forces `RM_PREPARE_COMMIT` or `RM_PREPARE_ABORT`.
  Once that record is durable (`on_log_entry_commit`), it sends its vote.
  When the coordinator's `TM_COMMIT` or `TM_ABORT` arrives, it forces
  `RM_COMMIT` or `RM_ABORT`.
- Once the final record is durable, `tx_committed` or `tx_aborted` answers the
  client (local) or acknowledges to the coordinator (distributed). Then
  `release_lock` unlocks every item and ends the context.

Two things start outside the strand:
- The deadlock detector picks the transaction with the highest xid on a
  wait-for cycle. It signals `abort(EC_VICTIM)`, and the lock manager fails
  the victim's pending request. Spec section 5 says every callback to a
  context is posted to its strand, so the model runs `abort` as one strand
  step together with the detector's choice.
- `timeout_clean_up` aborts any transaction that has not reached
  `RM_PREPARE_COMMITTING` or `RM_COMMITTING`. Its guard `ms + 1000 < start_`
  never holds, so it acts on the first call. Nothing in `src/` calls it. The
  only timer that `begin` arms (69-105) exists only under TX_TRACE, is built
  on the strand and only logs. Spec 4.5 says a timer armed at `begin` calls
  it. The model runs it as one strand step, like every other callback (spec
  section 5). `dependency_commit`, a strand task, also takes `mutex_`, so the
  lock does not point to another thread. No fairness is assumed for it,
  because the code does not promise that it is ever called.

### What makes it hard

- Callbacks from four sources interleave on one strand: the lock manager, the
  DSB, the WAL and the coordinator. A timeout or a victim abort can land
  between any two of them.
- A lock request may still be queued, or its grant notification still posted,
  when the context ends.
- Decisions and acknowledgements can be lost, and the coordinator re-sends a
  decision that is not acknowledged. A participant can therefore see a
  decision twice, in any state.
- The answer to the client, or the ACK to the coordinator, must not run ahead
  of the durable log.

## 2. Modules

| module | models | kind |
|---|---|---|
| `LockMgr` | one row-lock slot: `Acquire` (grant or queue, no barging), `Release`, `Promote` (recursive, FIFO), the victim's `FailWaiter`, the wait-for edge `WaitsOn` | pure operators, from the spec |
| `TxContext` | `tx_context` with the lock manager, cache, DSB, WAL, detector and the network stubs to the coordinator | state machine |
| `TwoPC` | `TxContext` composed with the coordinator and a lossy network | state machine |
| `AtomicCommit` | what two-phase commit promises: participants go working → prepared → the decision, or abort before preparing; commit only once all are prepared | abstract specification |
| `GeoRep` | the geo-replication dependency tracking, with each strand's position inside a call and the two mutexes | state machine |
| `MC_TxContext`, `MC_TwoPC`, `MC_GeoRep` | model values and workloads for TLC | instantiation |

### How TxContext corresponds to the code

`rm[c]` is the record of the fields of context `c`. A stored continuation is
recorded as the operation it will finish (`lockAcq`, `dsb`). A posted task is
recorded as its argument (`lockNtf`, `opDone`).

Each strand callback is one action. The action includes every call the
callback makes, down to `release_lock`:

| action | callback | lines |
|---|---|---|
| `ProcessTxRequest` | `process_tx_request` | 398-419 |
| `LockNotified` | the task `notify_lock_acquire` posts | 107-128 |
| `DsbResponse` | `read_data_from_dsb_response` | 342-396 |
| `OpDone` | the `op_done` lambda | 428-438 |
| `LogEntryCommit` | `on_log_entry_commit`, dispatching to `tx_committed`, `tx_aborted` or the prepare callbacks | 604-644 |
| `DeadlockVictim` | detector, then `abort(EC_VICTIM)` | 788-812 |
| `Timeout` | `timeout_clean_up`, run on the strand | 1114-1138 |
| `DsbLost` | the `async_send` of a DSB read request fails (only logged) or the request is lost; the stored handler is never called | 334-338 |
| `RecvTmCommit`, `RecvTmAbort` | `handle_tx_tm_commit`, `handle_tx_tm_abort` | 938-951 |

The helpers are functions from a context record to a record. They include
`HandleNextOperation`, `HandleOperation`, `AbortTx1p`, `AbortTx2p`,
`Phase1Commit`, `Phase2Commit`, `TxCommitted`, `TxAborted`, `ReleaseLock`,
`SetTxCmdType`, `AppendOperation`, `AsyncForceLog` and `SendTxResponse`.
Each one translates the function of the same name.

Timeouts: `timeouts` is the set of contexts for which `timeout_clean_up`
has been called. It is called at most once per context, and at most
`MaxTimeouts` times in a run.
`dsbLost` counts lost DSB requests, up to `MaxDsbLoss`.

A `BOOST_ASSERT(false)` branch leaves the state unchanged, because asserts are
compiled out of a release build.

Data is abstracted:
- A row is a model value, and a tuple is absent or present.
- A log entry is its type plus the set of operation ids it carries.
- Latency tracing, TX_TRACE and logging are left out.

### Refinement: TwoPC implements AtomicCommit

`TwoPC` instantiates `AtomicCommit` with a refinement mapping:
- A participant's abstract state is read off its durable WAL records
  (`ACState`): RM_COMMIT gives committed; RM_ABORT or RM_PREPARE_ABORT gives
  aborted; RM_PREPARE_COMMIT gives prepared; anything else gives working.
- The coordinator's "collecting" state maps to "init".

`ImplementsAtomicCommit == AC!ACSpec` is checked as a temporal property. Every
step of the composed system must therefore be a step of AtomicCommit or leave
the mapped state unchanged. It is stronger than the agreement invariant it
replaces: it also says that a participant never un-prepares, and that a
participant never records RM_COMMIT before the coordinator decided commit.

### How GeoRep corresponds to the code

The dependency tracking is compiled with `DB_TYPE_GEO_REP_OPTIMIZE`. Its
callers are not in the source, so any context may call `register_dependency`
on its strand, once per run (`MaxCalls`). `report_dependency` runs once, after
the context's decision record is durable; spec section 1 releases inbound
dependencies once durable.

A call on a strand blocks the strand until it returns. `pc[c]` records where
c's strand is inside a call, and only an idle strand runs its next posted
task. `mtx[c]` is `mutex_`: the strand that holds it and how many times. The
header that declares `mutex_` is not in the source, so `Init` leaves open
whether it is recursive.

| action | code | lines |
|---|---|---|
| `RegisterDependency`, `RegLock` (×4), `RegBody` | `register_dependency`: two locks in xid order, the edge, two more locks | 975-1009 |
| `ReportDependency`, `ReportLocked` | `report_dependency`: lock, post a lambda to each dependent, unlock | 1012-1036 |
| `RunDecrement`, `DecrementLocked` | the posted lambda: lock the dependent's mutex, decrement, post `dependency_commit` at zero | 1016-1033 |
| `RunDependencyCommit`, `DependencyCommit` | `dependency_commit` with `dlv_try_tx_commit` / `dlv_try_tx_prepare_commit` | 1038-1066 |
| `Phase1Commit`, `Phase1Abort`, `LogEntryCommit` | the context's decision and its log callback, which commits at once (607-609) | 588-644, 764-784 |

Lock steps have strong fairness, so the runs blame only a mutex that is never
released, not an unlucky schedule.

## 3. Runs

The local runs use rows `{k1, k2}`, contexts `c1` and `c2` (xids 1 and 2),
and in some runs a read-only `c3`. There are 4 passing runs and 7 violation
runs. The two GeoRep runs use contexts `a` and `b` with xids 1 and 2.

| run | checks | result | what it shows |
|---|---|---|---|
| MC_Insert | TypeOK, ClientSeesOutcome | pass | Inserts, duplicate inserts and reads, with one DSB request lost. A local client is answered OK only if the transaction's RM_COMMIT is durable and it did not abort. |
| MC_Timeout | EndedHoldsNoLocks, LegalLogHistories, EveryTxEnds | pass | c1 and c2 lock k1 and k2 in opposite orders beside a reader. One `timeout_clean_up` may run between any two callbacks. An ended context leaves no grant or queued request behind. Durable records follow one of the protocol's shapes. Every local transaction ends and is answered. |
| MC_TwoPC | TPTypeOK, ImplementsAtomicCommit, EveryParticipantEnds | pass | Participant c1 and a local c3 (older xid) lock k1 and k2 in opposite orders, so c1 becomes the victim and reports to the coordinator. One message may be lost and one timeout may fire; decisions are re-sent. The system implements AtomicCommit, and every participant ends. |
| MC_TwoPCTwoParts | ImplementsAtomicCommit | pass | Participants c1 and c2, with the local c3 as above. c1 becomes the victim. c2 has no operation at this node and votes commit at once. There is no loss and no timeout. The coordinator commits only when every participant has voted commit, and the outcomes of both participants implement AtomicCommit. With a single participant, agreement between participants is vacuous. The mutant that commits on the first commit vote passes MC_TwoPC and fails here. |
| MC_TimeoutResponse | ClientSeesOutcome | violation | See finding 1. |
| MC_LockLeak | EndedHoldsNoLocks | violation | See finding 2. |
| MC_2PCAckEarly | AckCommitAfterDurable | violation | See finding 3. |
| MC_2PCReAck | TmEventuallyAcked | violation | See finding 4. |
| MC_DsbLoss | EveryTxEnds | violation | See finding 5. |
| MC_GeoRelock | EveryCallReturns | violation | See finding 6. |
| MC_GeoCommitOrder | CommitWaitsForDependencies | violation | See finding 7. |

Each property of a passing run has a mutant in `PROJECT.json`: a variant of a
mapped definition that mimics a plausible bug, which TLC must catch. Examples:
- an abort that never answers the client;
- a timeout without the prepare-commit exemption (this breaks
  ImplementsAtomicCommit);
- a phase-2 commit that does not force the log;
- a coordinator that commits on the first commit vote (this breaks
  ImplementsAtomicCommit with two participants, but not with one).

### Findings

1. **`timeout_clean_up` (1127-1128) tells the client OK while aborting.**
   It calls `abort_tx_1p`, which only starts the abort, and then
   `send_tx_response` while `error_code_` is still EC_OK.
2. **Unlock of a queued request (713) is a spec gap.** Under the spec's
   release, which removes grants only, a request still queued when the
   transaction ends is later granted to the ended transaction. The code
   depends on `unlock` also cancelling the queued request, and the spec does
   not say it does. The passing runs assume it does (`CancelOnRelease`).
3. **A re-sent TM_COMMIT is acknowledged too early (964).** In COMMITTING, the
   ACK goes out before RM_COMMIT is durable.
4. **A re-sent TM_COMMIT is never acknowledged in ENDED (967).** The
   coordinator never completes after a lost ACK, unlike the abort path, which
   re-acknowledges.
5. **A lost DSB read request stalls its transaction forever (336, 69).** A
   failed send of C2D_READ_DATA_REQ (335-339) is only logged, and the stored
   handler is never called. Spec 4.5 says a timer armed at `begin` aborts the
   transaction through `timeout_clean_up`. In `src/`, `begin`'s timer exists
   only under TX_TRACE and only logs, and nothing calls `timeout_clean_up`.
   Without a promise that it is called, the transaction never ends, never
   releases its locks and never answers.
6. **`register_dependency` leaves both mutexes locked (1003-1009).** The
   second pair of lock calls is not preceded by any unlock.
   - With a `std::mutex`, the calling strand blocks inside the call.
   - With a recursive mutex, the call returns holding both mutexes twice.
     The other context's strand then blocks at its next lock of either
     mutex.

   Either way, a strand never returns. Spec section 9 raises the second
   acquisition as an open question.
7. **A dependent commits before its dependency (607).** The file is compiled
   only with `DB_TYPE_NON_DETERMINISTIC` (line 23). So `on_committed_log_commit`
   calls `tx_committed` as soon as the RM_COMMIT record is durable, whatever
   `dep_in_count_` is. The guard in `dlv_try_tx_commit` never holds a commit
   back. Spec section 3 says B's commit waits on A's.

Four more divergences have no run, because a single unit test reaches each
of them directly:
- A read after the transaction's own insert misses the row (386). An insert
  never puts the row into the access manager, so the read asks the DSB and
  gets NOT_FOUND. Scenario S2 of the spec says the read finds it.
- A deadlock victim's client is answered VICTIM, because `tx_aborted` (677)
  replaces only EC_OK by TX_ABORT. Scenario S4 says TX_ABORT.
- `handle_operation` has no REMOVE case (541). A REMOVE operation never posts
  `op_done`, so the transaction never finishes.
- `release_lock` skips every unlock when the request's `read_only` flag is
  set (710). A request flagged read-only that updates a row keeps its write
  lock. The spec does not say the flag excludes writes.

### Bounds

- **Operations:** two per context, and one or two rows each. That is enough
  for a lock cycle, a promotion chain (a writer waiting behind a reader), a
  duplicate insert and a read after an insert.
- **Contexts:** three contexts give every pair of them a conflicting request.
- **Timeouts:** one call of `timeout_clean_up` reaches every state it can
  hit. In MC_DsbLoss every context may time out (`MaxTimeouts` = number of
  contexts). The run is still violated, because the call is allowed but
  never promised.
- **Lost DSB requests:** one. MC_Insert allows one and checks only safety.
  A context whose request is lost really stops there (finding 5), so
  MC_Insert sets `CHECK_DEADLOCK FALSE`. The other passing runs keep the
  deadlock check.
- **Dependency tracking:** two contexts and one `register_dependency` call
  each. That covers an edge in either xid order, two calls racing for the
  same pair of mutexes, and a report or decrement behind a held mutex.
- **Lost messages:** one lost message loses a vote, a decision or an ACK.
- **Participants:** MC_TwoPC has one participant and runs with loss and a
  timeout. MC_TwoPCTwoParts has two participants with loss and timeouts off.
  Its second participant has no rows at this node. Two participants with one
  lost message take about 4.5 minutes, too close to the time bound. A
  second participant with a row of its own takes over 4 minutes even
  without loss.
- **Re-sends:** the coordinator re-sends only while the decision is not in
  flight, so the set of messages stays finite without a retry counter.

## 4. Fairness

`RMFairness` and `TPFairness` assume weak fairness for:
- posted strand tasks (a strand runs what is posted to it);
- DSB answers;
- WAL syncs;
- the detector's periodic scan;
- on the coordinator side, its message handling, its timeout and its re-send.

There is no fairness on request arrival, message loss, DSB loss, or
`timeout_clean_up`. Nothing in `src/` calls `timeout_clean_up`: `begin`'s
timer only logs, and only under TX_TRACE. A run that needs a timeout to end
a transaction therefore fails (finding 5). The passing liveness runs end
without one. In 2PC, the coordinator's timeout and re-send, from spec 4.6,
drive every participant to an end.

`Terminating` is a stutter step once every context has ended, so the normal
end of a workload is not reported as a deadlock.

## 5. Plan

1. **LockMgr standalone**, refined to an abstract reader/writer lock, with the
   queue order as a property.
2. **GeoRep composed with TxContext**, so that the dependency code runs
   beside the real operation pipeline, and with distributed contexts.
3. **Two participants with loss and timeouts**, once a smaller encoding of
   the message sets brings it under the time bound.

## 6. Not modelled

- **Calvin deterministic path:** only named in the CMake list, and its source
  is absent.
- **`portal` main:** sets a log filter and has no state.
- **Message encoding, latency tracers, logging and TX_TRACE:** they have no
  effect on control.
- **Predicate and table locks, and `make_violable`:** not modelled.
- **Crashes and WAL replication delay:** not modelled.
- **Parts of the geo-replication extension:**
  - `dlv_abort` is never called.
  - `dlv_make_violable` and `handle_tx_enable_violate` act on the lock
    manager's `make_violable`, which is not in the source.
  - `send_tx_enable_violate` only sends a message.
- **`abort(EC)` as a race with the strand:** not modelled. Spec section 5 has
  the detector's signal posted to the victim's strand, so the atomic model
  matches the spec.
