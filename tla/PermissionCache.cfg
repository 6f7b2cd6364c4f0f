\* One replica, two lookups at a time, two changes, one failing call.
CONSTANTS
  Requests = {q1, q2}
  Replicas = {r1}
  NoBlob = NoBlob
  MaxCommits = 2
  MaxFaults = 1
SPECIFICATION Spec
SYMMETRY Symmetry
INVARIANTS TypeOK ValidatedIsFresh NothingOlder
