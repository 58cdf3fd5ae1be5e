---------------------------- MODULE AtomicCommit ----------------------------
(***************************************************************************)
(* What the two-phase commit of a distributed transaction promises, with   *)
(* no messages, logs or locks: each participant goes from working to       *)
(* prepared and then follows the coordinator's decision, or gives up on    *)
(* its own before preparing; the coordinator commits only once every       *)
(* participant is prepared.  TwoPC is shown to implement this module.      *)
(***************************************************************************)
CONSTANT RM          \* the participants

VARIABLES
    rmState,         \* rmState[r]: "working", "prepared", "committed", "aborted"
    tmState          \* the decision: "init", "committed" or "aborted"

ACTypeOK ==
    /\ rmState \in [RM -> {"working", "prepared", "committed", "aborted"}]
    /\ tmState \in {"init", "committed", "aborted"}

ACInit ==
    /\ rmState = [r \in RM |-> "working"]
    /\ tmState = "init"

\* A participant makes its commit vote durable.
Prepare(r) ==
    /\ rmState[r] = "working"
    /\ rmState' = [rmState EXCEPT ![r] = "prepared"]
    /\ UNCHANGED tmState

\* A participant that has not voted commit aborts on its own.
AbortUnprepared(r) ==
    /\ rmState[r] = "working"
    /\ rmState' = [rmState EXCEPT ![r] = "aborted"]
    /\ UNCHANGED tmState

\* The coordinator decides commit once all participants are prepared, or
\* abort at any time before deciding.
DecideCommit ==
    /\ tmState = "init"
    /\ \A r \in RM : rmState[r] = "prepared"
    /\ tmState' = "committed"
    /\ UNCHANGED rmState
DecideAbort ==
    /\ tmState = "init"
    /\ tmState' = "aborted"
    /\ UNCHANGED rmState

\* A participant follows the decision.
LearnCommit(r) ==
    /\ tmState = "committed"
    /\ rmState[r] = "prepared"
    /\ rmState' = [rmState EXCEPT ![r] = "committed"]
    /\ UNCHANGED tmState
LearnAbort(r) ==
    /\ tmState = "aborted"
    /\ rmState[r] \in {"working", "prepared"}
    /\ rmState' = [rmState EXCEPT ![r] = "aborted"]
    /\ UNCHANGED tmState

ACNext ==
    \/ DecideCommit
    \/ DecideAbort
    \/ \E r \in RM : \/ Prepare(r) \/ AbortUnprepared(r)
                     \/ LearnCommit(r) \/ LearnAbort(r)

ACSpec == ACInit /\ [][ACNext]_<<rmState, tmState>>

\* No participant commits while another aborts.
ACConsistent ==
    \A r1, r2 \in RM : ~(rmState[r1] = "committed" /\ rmState[r2] = "aborted")

=============================================================================
