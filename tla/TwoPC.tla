------------------------------- MODULE TwoPC -------------------------------
(***************************************************************************)
(* A distributed transaction: its participant contexts (TxContext, the RM  *)
(* side in tx_context.cpp) composed with the transaction coordinator (TM). *)
(* The coordinator's source (tx_coordinator) is not in src/; its actions   *)
(* are written from spec.md section 4.6.  Messages travel in sets; the     *)
(* network may lose up to MaxLoss of them, and the coordinator re-sends a  *)
(* decision that is not acknowledged and not in flight, so a participant  *)
(* can receive a decision twice.                                           *)
(***************************************************************************)
EXTENDS TxContext

CONSTANT MaxLoss   \* bound on messages the network loses

VARIABLES
    tmState,      \* "collecting", "committed" or "aborted"
    tmVotes,      \* participants whose PREPARE(commit) arrived
    tmAcked,      \* participants whose ACK arrived
    lost          \* messages lost so far

tmVars == <<tmState, tmVotes, tmAcked, lost>>
allVars == <<vars, tmVars>>

\* Variables only the participants' strands change.
rmLocal == <<rm, slots, cache, walDisk, timeouts, dsbLost>>

\* The participants of the distributed transaction.
Participants == {c \in Ctx : Dist(c)}

Decision == [committed |-> "TM_COMMIT", aborted |-> "TM_ABORT"]

Broadcast(type) == toRM' = toRM \cup {[type |-> type, ctx |-> c] : c \in Participants}

TMInit ==
    /\ tmState = "collecting"
    /\ tmVotes = {}
    /\ tmAcked = {}
    /\ lost = 0

\* A PREPARE vote arrives: a commit vote is counted, an abort vote makes the
\* coordinator decide abort; votes after the decision are dropped.
TMRecvPrepare(m) ==
    /\ m \in toTM /\ m.type = "PREPARE"
    /\ toTM' = toTM \ {m}
    /\ IF tmState # "collecting" THEN UNCHANGED <<tmState, tmVotes, toRM>>
       ELSE IF m.commit THEN tmVotes' = tmVotes \cup {m.ctx} /\ UNCHANGED <<tmState, toRM>>
       ELSE tmState' = "aborted" /\ Broadcast("TM_ABORT") /\ UNCHANGED tmVotes
    /\ UNCHANGED <<tmAcked, lost>> /\ UNCHANGED rmLocal

\* A participant reports it was chosen as a deadlock victim.
TMRecvVictim(m) ==
    /\ m \in toTM /\ m.type = "VICTIM"
    /\ toTM' = toTM \ {m}
    /\ IF tmState = "collecting"
       THEN tmState' = "aborted" /\ Broadcast("TM_ABORT")
       ELSE UNCHANGED <<tmState, toRM>>
    /\ UNCHANGED <<tmVotes, tmAcked, lost>> /\ UNCHANGED rmLocal

\* Mutant of TMCommit: the coordinator commits on the first commit vote,
\* without waiting for the other participants' votes.
TMCommitOnFirstVote ==
    /\ tmState = "collecting"
    /\ tmVotes # {}
    /\ tmState' = "committed"
    /\ Broadcast("TM_COMMIT")
    /\ UNCHANGED <<toTM, tmVotes, tmAcked, lost>> /\ UNCHANGED rmLocal

\* All votes are commit: persist the decision, broadcast TM_COMMIT.
TMCommit ==
    /\ tmState = "collecting"
    /\ tmVotes = Participants
    /\ tmState' = "committed"
    /\ Broadcast("TM_COMMIT")
    /\ UNCHANGED <<toTM, tmVotes, tmAcked, lost>> /\ UNCHANGED rmLocal

\* The votes did not all arrive in time: decide abort.
TMTimeout ==
    /\ tmState = "collecting"
    /\ tmVotes # Participants
    /\ tmState' = "aborted"
    /\ Broadcast("TM_ABORT")
    /\ UNCHANGED <<toTM, tmVotes, tmAcked, lost>> /\ UNCHANGED rmLocal

TMRecvAck(m) ==
    /\ m \in toTM /\ m.type = "ACK"
    /\ toTM' = toTM \ {m}
    /\ tmAcked' = tmAcked \cup {m.ctx}
    /\ UNCHANGED <<toRM, tmState, tmVotes, lost>> /\ UNCHANGED rmLocal

\* Re-send the decision to a participant that has not acknowledged it.
TMRetry(c) ==
    /\ tmState # "collecting"
    /\ c \notin tmAcked
    /\ [type |-> Decision[tmState], ctx |-> c] \notin toRM
    /\ toRM' = toRM \cup {[type |-> Decision[tmState], ctx |-> c]}
    /\ UNCHANGED <<toTM, tmState, tmVotes, tmAcked, lost>> /\ UNCHANGED rmLocal

\* The network loses a message in either direction.
LoseToTM(m) ==
    /\ m \in toTM /\ lost < MaxLoss
    /\ toTM' = toTM \ {m} /\ lost' = lost + 1
    /\ UNCHANGED <<toRM, tmState, tmVotes, tmAcked>> /\ UNCHANGED rmLocal
LoseToRM(m) ==
    /\ m \in toRM /\ lost < MaxLoss
    /\ toRM' = toRM \ {m} /\ lost' = lost + 1
    /\ UNCHANGED <<toTM, tmState, tmVotes, tmAcked>> /\ UNCHANGED rmLocal

TMNext ==
    /\ \/ TMCommit
       \/ TMTimeout
       \/ \E m \in toTM : \/ TMRecvPrepare(m) \/ TMRecvVictim(m)
                          \/ TMRecvAck(m) \/ LoseToTM(m)
       \/ \E m \in toRM : LoseToRM(m)
       \/ \E c \in Participants : TMRetry(c)

\* The coordinator takes an incoming message.
TMReceive == \E m \in toTM : TMRecvPrepare(m) \/ TMRecvVictim(m) \/ TMRecvAck(m)

TPInit == Init /\ TMInit

TPNext ==
    \/ /\ \/ RMNext
          \/ \E c \in Ctx : RecvTmCommit(c) \/ RecvTmAbort(c)
       /\ UNCHANGED tmVars
    \/ TMNext

\* Besides the RM's callbacks: decisions reaching a participant are handled,
\* and the coordinator keeps handling messages, timing out and retrying.
\* A step of participant c's strand, leaving the coordinator alone.
RMStep(c) ==
    /\ \/ LockNotified(c) \/ DsbResponse(c) \/ OpDone(c) \/ LogEntryCommit(c)
       \/ RecvTmCommit(c) \/ RecvTmAbort(c)
    /\ UNCHANGED tmVars

TPFairness ==
    /\ \A c \in Ctx : /\ WF_allVars(RMStep(c))
                     /\ WF_allVars(DeadlockVictim(c) /\ UNCHANGED tmVars)
    /\ WF_allVars(TMCommit) /\ WF_allVars(TMTimeout)
    /\ \A c \in Participants : WF_allVars(TMRetry(c))
    /\ WF_allVars(TMReceive)

TPSpec == TPInit /\ [][TPNext]_allVars /\ TPFairness

-----------------------------------------------------------------------------
(* Properties.                                                             *)

TPTypeOK ==
    /\ TypeOK
    /\ tmState \in {"collecting", "committed", "aborted"}
    /\ tmVotes \subseteq Participants
    /\ tmAcked \subseteq Participants
    /\ lost \in 0 .. MaxLoss

(* Refinement.  A participant's abstract state is read off its durable   *)
(* records, the coordinator's decision off tmState: every step of the      *)
(* participants, the coordinator and the network is a step of AtomicCommit *)
(* or leaves that view unchanged.                                          *)
ACState(c) ==
    LET T == TypesOf(c)
    IN CASE "RM_COMMIT" \in T                                -> "committed"
         [] "RM_ABORT" \in T \/ "RM_PREPARE_ABORT" \in T    -> "aborted"
         [] "RM_PREPARE_COMMIT" \in T                        -> "prepared"
         [] OTHER                                            -> "working"

AC == INSTANCE AtomicCommit
        WITH RM <- Participants,
             rmState <- [c \in Participants |-> ACState(c)],
             tmState <- IF tmState = "collecting" THEN "init" ELSE tmState

\* Atomic commitment, as a refinement: a participant durably commits only
\* after the coordinator has committed, which it does only once every
\* participant's RM_PREPARE_COMMIT is durable; a prepared participant
\* durably aborts only after the coordinator has aborted.  Timeouts, victim
\* reports, lost and re-sent decisions all race with the votes.
ImplementsAtomicCommit == AC!ACSpec

\* A participant acknowledges a commit decision only after its RM_COMMIT
\* record is durable: once acknowledged, the coordinator may forget the
\* transaction, so the participant's log must already hold the outcome.
AckCommitAfterDurable ==
    \A m \in toTM : m.type = "ACK" /\ m.commit => "RM_COMMIT" \in TypesOf(m.ctx)

\* Every participant whose request arrived eventually ends.
EveryParticipantEnds ==
    \A c \in Participants : rm[c].started ~> rm[c].state = "ENDED"

\* Once the coordinator has decided, every participant eventually
\* acknowledges, even when an acknowledgement is lost and the decision is
\* re-sent (spec 4.5: a duplicate decision re-sends the ACK).
TmEventuallyAcked == tmState # "collecting" ~> tmAcked = Participants

=============================================================================
