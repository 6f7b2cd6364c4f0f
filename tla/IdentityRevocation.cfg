CONSTANTS
  Reqs = {r1, r2}
  Admins = {a1}
  MaxOps = 2
  MaxFaults = 1
SPECIFICATION FairSpec
INVARIANTS TypeOK RevokedIsDenied ReopenedIsAllowed
PROPERTIES VerdictsSettle
