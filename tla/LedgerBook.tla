----------------------------- MODULE LedgerBook -----------------------------
(***************************************************************************)
(* What the ledger promises its callers, without requests, lookups or      *)
(* failures: a book to which balanced events are added one at a time, that *)
(* never loses or changes an event, that holds an idempotency key at most  *)
(* once, and in which every reversal is the exact negation of an event of  *)
(* the same tenant.  LedgerPosting and Contributions implement it.         *)
(***************************************************************************)
EXTENDS LedgerTable

CONSTANT EventId

VARIABLE events

Init == events = [e \in EventId |-> NoEvent]

\* A posting: non-empty, balanced, under a key that no row has.
IsPosting(row) ==
    /\ row.reverses = NoEvent
    /\ row.lines # <<>>
    /\ Balanced(row.lines)
    /\ KeyFree(events, row.key)

\* A reversal of an event that is in the book.
IsReversal(row) ==
    /\ row.reverses \in Ids(events)
    /\ row.key = NoKey
    /\ row.tenant = events[row.reverses].tenant
    /\ row.lines = Negate(events[row.reverses].lines)

Enter(e) ==
    /\ events[e] = NoEvent
    /\ events'[e] \in EventRow(EventId)
    /\ IsPosting(events'[e]) \/ IsReversal(events'[e])
    /\ events' = [events EXCEPT ![e] = events'[e]]

Next == \E e \in EventId : Enter(e)

Spec == Init /\ [][Next]_events
=============================================================================
