------------------------------ MODULE LockMgr ------------------------------
(***************************************************************************)
(* One row-lock slot of the per-shard lock manager (lock_slot, lock_mgr)   *)
(* and the wait-for relation the deadlock detector scans.  Their source is *)
(* not part of src/; every operator here is written from spec.md section   *)
(* 4.1 and 4.3 (spec_modelled in PROJECT.json).                            *)
(*                                                                         *)
(* A request is a pair <<owner, mode>>.  A slot holds the set of granted   *)
(* requests and the FIFO wait queue.  Operators are pure functions on a    *)
(* slot so that the transaction-context module can apply them inside its   *)
(* own actions, exactly where tx_context calls lock_row and unlock.        *)
(***************************************************************************)
EXTENDS Sequences, SequencesExt, FiniteSets

CONSTANT CancelOnRelease   \* does unlock() also drop a still-queued request?

Modes == {"READ", "WRITE"}

\* READ is compatible with READ; WRITE is exclusive.
Compatible(m1, m2) == m1 = "READ" /\ m2 = "READ"

EmptySlot == [granted |-> {}, queue |-> <<>>]

\* Request r conflicts with none of the requests in S held by other owners.
\* A transaction never conflicts with itself (scenario S2 of the spec reads a
\* row it has just write-locked).
NoConflict(r, S) == \A g \in S : g[1] = r[1] \/ Compatible(g[2], r[2])

\* acquire: grant at once when compatible with the grants and with every
\* waiter already queued (no barging), otherwise append to the wait queue.
CanGrant(slot, r) == NoConflict(r, slot.granted) /\ NoConflict(r, ToSet(slot.queue))

Acquire(slot, r) ==
    IF CanGrant(slot, r)
    THEN [slot EXCEPT !.granted = @ \cup {r}]
    ELSE [slot EXCEPT !.queue = Append(@, r)]

\* Grant waiters from the head of the queue while each is compatible with
\* everything granted so far; stop at the first incompatible one (FIFO).
RECURSIVE Promote(_)
Promote(slot) ==
    IF slot.queue # <<>> /\ NoConflict(Head(slot.queue), slot.granted)
    THEN Promote([granted |-> slot.granted \cup {Head(slot.queue)},
                  queue   |-> Tail(slot.queue)])
    ELSE slot

\* The slot after owner o's grants are removed (and, when CancelOnRelease,
\* its queued requests), before promotion.
Unlocked(slot, o) ==
    [granted |-> {g \in slot.granted : g[1] # o},
     queue   |-> IF CancelOnRelease
                 THEN SelectSeq(slot.queue, LAMBDA q : q[1] # o)
                 ELSE slot.queue]

\* release: remove o from the slot, then promote the head of the queue.
Release(slot, o) == Promote(Unlocked(slot, o))

\* Owners whose queued request a promotion granted (to be notified).
PromotedBy(before, after) ==
    {before.queue[i][1] : i \in 1 .. (Len(before.queue) - Len(after.queue))}

\* The deadlock detector fails the victim's pending request (Dequeued); the
\* slot then promotes whoever the removed request was blocking.
Dequeued(slot, o) == [slot EXCEPT !.queue = SelectSeq(@, LAMBDA q : q[1] # o)]

FailWaiter(slot, o) == Promote(Dequeued(slot, o))

\* Wait-for edge: a queued request of a waits on a conflicting grant of b.
WaitsOn(slot, a, b) ==
    a # b /\ \E q \in ToSet(slot.queue), g \in slot.granted :
                q[1] = a /\ g[1] = b /\ ~Compatible(q[2], g[2])

=============================================================================
