----------------------------- MODULE RedlockLease -----------------------------
(***************************************************************************)
(* Redlock with the history of who relied on the resource, and the lease   *)
(* it implements.                                                          *)
(***************************************************************************)
EXTENDS Redlock

VARIABLES
  last,  \* history: the lock that was valid last, or NoLock
  past   \* history: locks that were followed by another one

Holder ==
  IF \E a \in Locks : Holds(a) THEN CHOOSE a \in Locks : Holds(a) ELSE NoLock

HInit == Init /\ last = NoLock /\ past = {}

HNext ==
  /\ Next
  /\ last' = IF Holder' = NoLock THEN last ELSE Holder'
  /\ past' = IF Holder' \in {NoLock, Holder} THEN past
             ELSE (past \union {last}) \ {Holder', NoLock}

hvars == <<vars, last, past>>

HSpec == HInit /\ [][HNext]_hvars /\ Fairness

L == INSTANCE Lease WITH holder <- Holder, last <- last, past <- past

\* With one node and no retries, which is how the cron manager uses it, the
\* lock is a lease: it is granted only while nobody holds it, and a lock that
\* was followed by another one is never valid again, whatever extension of
\* it is still in flight.
LeaseSpec == L!Spec

=============================================================================
