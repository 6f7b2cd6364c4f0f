-------------------------------- MODULE Lease --------------------------------
(***************************************************************************)
(* What a lease on one resource promises: one holder at a time, and a      *)
(* holder that has been followed by another never holds the resource       *)
(* again.  It may lose the lease and get it back only while nobody else    *)
(* held it in between.                                                     *)
(***************************************************************************)
CONSTANTS Locks, NoLock

VARIABLES
  holder,  \* the lock that may rely on the resource, or NoLock
  last,    \* the lock that relied on it last, or NoLock
  past     \* locks that were followed by another one

Init ==
  /\ holder = NoLock
  /\ last = NoLock
  /\ past = {}

Grant(a) ==
  /\ holder = NoLock
  /\ a \notin past
  /\ holder' = a
  /\ last' = a
  /\ past' = (past \union {last}) \ {a, NoLock}

Lapse ==
  /\ holder # NoLock
  /\ holder' = NoLock
  /\ UNCHANGED <<last, past>>

Next == Lapse \/ \E a \in Locks : Grant(a)

Spec == Init /\ [][Next]_<<holder, last, past>>

=============================================================================
