----------------------------- MODULE MC_TwoPC ------------------------------
(* Participants of one distributed transaction, each on its own rows (in   *)
(* the system they sit on different nodes), and a local transaction that   *)
(* contends with a participant for rows.                                   *)
EXTENDS TwoPC

CONSTANTS c1, c2, c3, k1, k2, k3

Upd(k) == [type |-> "UPDATE", key |-> k]
Ins(k) == [type |-> "INSERT", key |-> k]
Part(ops) == [ops |-> ops, distributed |-> TRUE, read_only |-> FALSE]
Local(ops) == [ops |-> ops, distributed |-> FALSE, read_only |-> FALSE]

CtxPair == {c1, c2}
CtxWithLocal == {c1, c3}

\* The participants share the distributed transaction's xid; the local
\* transaction is older, so a participant on a cycle with it is the victim.
MCXid == [c \in {c1, c2, c3} |-> IF c = c3 THEN 10 ELSE 20]

\* One update per participant.
ReqUpdates == [c \in CtxPair |-> IF c = c1 THEN Part(<<Upd(k1)>>) ELSE Part(<<Upd(k2)>>)]

\* The participant c1 updates two rows in the opposite order to the local c3.
ReqContended ==
    [c \in CtxWithLocal |-> IF c = c1 THEN Part(<<Upd(k1), Upd(k2)>>)
                                      ELSE Local(<<Upd(k2), Upd(k1)>>)]

\* Two participants and the local c3: c1 contends with c3 as above, c2 is
\* a participant with no operation at this node (an empty operation list,
\* which handle_next_operation takes straight to the PREPARE vote).
CtxTwoWithLocal == {c1, c2, c3}
ReqTwoContended ==
    [c \in CtxTwoWithLocal |-> CASE c = c1 -> Part(<<Upd(k1), Upd(k2)>>)
                                 [] c = c2 -> Part(<<>>)
                                 [] c = c3 -> Local(<<Upd(k2), Upd(k1)>>)]
=============================================================================
