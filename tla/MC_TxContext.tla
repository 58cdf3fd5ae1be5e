--------------------------- MODULE MC_TxContext ----------------------------
(* Workloads for checking TxContext with TLC.  Contexts and rows are model *)
(* values; a workload is the request each context serves.                 *)
EXTENDS TxContext

CONSTANTS c1, c2, c3, k1, k2

Rd(k)  == [type |-> "READ", key |-> k]
RfW(k) == [type |-> "READ_FOR_WRITE", key |-> k]
Upd(k) == [type |-> "UPDATE", key |-> k]
Ins(k) == [type |-> "INSERT", key |-> k]
Rem(k) == [type |-> "REMOVE", key |-> k]
Local(ops) == [ops |-> ops, distributed |-> FALSE, read_only |-> FALSE]
LocalRO(ops) == [ops |-> ops, distributed |-> FALSE, read_only |-> TRUE]

MCXid == [c \in {c1, c2, c3} |-> CASE c = c1 -> 1 [] c = c2 -> 2 [] c = c3 -> 3]

\* Two writers that take k1 and k2 in opposite orders: they may run one
\* after the other, wait on each other's lock, or deadlock.  A read-only
\* reader of k2 shares the access-manager cache with them.
CtxTriple == {c1, c2, c3}
ReqDeadlock == [c \in CtxTriple |->
                  CASE c = c1 -> Local(<<Upd(k1), RfW(k2)>>)
                    [] c = c2 -> Local(<<Rd(k2), Upd(k1)>>)
                    [] c = c3 -> LocalRO(<<Rd(k2)>>)]

\* Inserts of a new and of an existing row, and a read-only reader that
\* tolerates a missing row; the DSB holds only k1.
ReqInsert == [c \in CtxTriple |->
                CASE c = c1 -> Local(<<Ins(k2), Rd(k1)>>)
                  [] c = c2 -> Local(<<Ins(k1)>>)
                  [] c = c3 -> LocalRO(<<Rd(k2), Rd(k1)>>)]

\* Two writers of the same row, then a read of another; every row is
\* fetched from the DSB, whose requests can be lost.
CtxPair == {c1, c2}
ReqSameRow == [c \in CtxPair |-> Local(<<Upd(k1), Rd(k2)>>)]

=============================================================================
