CONSTANTS
  Leases = {l1}
  Clients = {c1, c2}
  MaxAttempts = 2
  MaxRequests = 2
  MaxCrashes = 2
SPECIFICATION FairSpec
INVARIANTS TypeOK RowOutlivesCredential LeaseWatched MailDeserved
PROPERTIES LeaseEnds
CHECK_DEADLOCK FALSE
