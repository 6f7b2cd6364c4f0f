---------------------------- MODULE PermissionCache ----------------------------
(***************************************************************************)
(* The cache of one actor's permissions in one project: withCacheFingerprint *)
(* (backend/src/lib/cache/with-cache.ts) as the permission service uses it. *)
(*                                                                         *)
(* The data is three parts of Postgres: memberships and roles, folder      *)
(* grants, and the paths of the granted folders.  A fingerprint stands for *)
(* them: a hash over the memberships, and a counter that whoever changes a *)
(* grant or a path increments.  The data is kept in Redis for ten minutes  *)
(* with the fingerprint it was fetched under; a marker that lives for ten  *)
(* seconds says that it was compared lately.                               *)
(*                                                                         *)
(* Postgres is the sequence of its committed states, of which a replica    *)
(* has applied a prefix.  A part of the data is the number of its changes. *)
(***************************************************************************)
EXTENDS Integers, Sequences, FiniteSets

CONSTANTS
  Requests,    \* lookups that may be under way at a time
  Replicas,    \* read replicas of Postgres
  NoBlob,      \* an absent data key
  MaxCommits,  \* bound: changes in Postgres
  MaxFaults    \* bound: failing calls of Redis and failing fingerprints

VARIABLES
  log,       \* committed states of Postgres
  at,        \* replica: the last state it has applied
  lapsed,    \* counter rows of this many increments have expired
  owed,      \* renames committed whose increment is still to come
  data,      \* Redis: the data key
  marker,    \* Redis: the marker key exists
  pc,        \* request: where withCacheFingerprint is
  vouched,   \* request: the marker it read
  seen,      \* request: the data it read
  stamp,     \* request: the fingerprint it computes
  got,       \* request: the data it fetched or answers with
  begin,     \* history: the state every replica had when the request began
  base,      \* history: the same of the last moment at which the cache was quiet
  unwritten, \* history: a data write has failed since then
  revived,   \* history: data was taken for that of a later row of the counter
  faults     \* counter for the bound

dbVars == <<log, at, lapsed, owed>>
reqVars == <<pc, vouched, seen, stamp, got, begin>>
vars == <<dbVars, data, marker, reqVars, base, unwritten, revived, faults>>

-----------------------------------------------------------------------------
(* Types *)

Count == 0 .. MaxCommits
Unread == -1

\* A state of Postgres: the parts, the counter, and for the history the number
\* of increments and the paths that the last one announced.
State == [member : Count, grants : Count, paths : Count, version : Count,
          bumps : Count, told : Count]

Stamp == [member : Count \union {Unread}, version : Count \union {Unread},
          bumps : Count \union {Unread}]
Data == [member : Count, grants : Count, paths : Count]
Blob == [stamp : Stamp, payload : Data]

NoStamp == [member |-> Unread, version |-> Unread, bumps |-> Unread]
NoData == [member |-> 0, grants |-> 0, paths |-> 0]

\* "data" and "marker" wait for the second of the two reads.  "hit" is an answer
\* that only the marker vouches for, "crossed" one whose data was no longer under
\* its key when the marker was read.
Phases == {"idle", "data", "marker", "print", "validate", "members", "grants", "paths",
           "write", "mark", "answer", "hit", "crossed"}

ASSUME PermissionCacheAssumption ==
  /\ MaxCommits \in Nat
  /\ MaxFaults \in Nat
  /\ NoBlob \notin Blob
  /\ IsFiniteSet(Replicas) /\ Replicas # {}

TypeOK ==
  /\ log \in Seq(State) /\ Len(log) \in 1 .. MaxCommits + 1
  /\ at \in [Replicas -> 1 .. Len(log)]
  /\ lapsed \in Count
  /\ owed \in Count
  /\ data \in Blob \union {NoBlob}
  /\ marker \in BOOLEAN
  /\ pc \in [Requests -> Phases]
  /\ vouched \in [Requests -> BOOLEAN]
  /\ seen \in [Requests -> Blob \union {NoBlob}]
  /\ stamp \in [Requests -> Stamp]
  /\ got \in [Requests -> Data]
  /\ begin \in [Requests -> 1 .. Len(log)]
  /\ base \in 1 .. Len(log)
  /\ unwritten \in BOOLEAN
  /\ revived \in BOOLEAN
  /\ faults \in 0 .. MaxFaults

Init ==
  /\ log = <<[member |-> 0, grants |-> 0, paths |-> 0, version |-> 0, bumps |-> 0, told |-> 0]>>
  /\ at = [r \in Replicas |-> 1]
  /\ lapsed = 0
  /\ owed = 0
  /\ data = NoBlob
  /\ marker = FALSE
  /\ pc = [q \in Requests |-> "idle"]
  /\ vouched = [q \in Requests |-> FALSE]
  /\ seen = [q \in Requests |-> NoBlob]
  /\ stamp = [q \in Requests |-> NoStamp]
  /\ got = [q \in Requests |-> NoData]
  /\ begin = [q \in Requests |-> 1]
  /\ base = 1
  /\ unwritten = FALSE
  /\ revived = FALSE
  /\ faults = 0

-----------------------------------------------------------------------------
(* Postgres *)

Now == log[Len(log)]

\* What every replica has applied.
Applied == CHOOSE i \in {at[r] : r \in Replicas} : \A r \in Replicas : i <= at[r]

\* An expired row of the counter reads as if there were none.
Version(s) == IF s.bumps <= lapsed THEN 0 ELSE s.version

\* pgIncrementBy: the row is inserted with 1, or incremented, expired or not.
Bumped(s) == [s EXCEPT !.version = @ + 1, !.bumps = @ + 1, !.told = s.paths]

Commit(s) ==
  /\ Len(log) <= MaxCommits
  /\ log' = Append(log, s)

\* A membership, a role or a privilege of the actor changes.
ChangeMember ==
  /\ Commit([Now EXCEPT !.member = @ + 1])
  /\ UNCHANGED <<at, lapsed, owed, data, marker, reqVars, revived, faults>>

\* A grant changes in the transaction that increments.
ChangeGrant ==
  /\ Commit(Bumped([Now EXCEPT !.grants = @ + 1]))
  /\ UNCHANGED <<at, lapsed, owed, data, marker, reqVars, revived, faults>>

\* An environment is renamed or deleted, likewise.
ChangeEnvironment ==
  /\ Commit(Bumped([Now EXCEPT !.paths = @ + 1]))
  /\ UNCHANGED <<at, lapsed, owed, data, marker, reqVars, revived, faults>>

\* A folder is renamed, moved or deleted; the increment follows the commit.
Rename ==
  /\ Commit([Now EXCEPT !.paths = @ + 1])
  /\ owed' = owed + 1
  /\ UNCHANGED <<at, lapsed, data, marker, reqVars, revived, faults>>

\* Seeded fault: the increment is made again without a rename.
BumpAgain ==
  /\ owed' = owed - 1
  /\ Commit(Bumped(Now))
  /\ UNCHANGED <<at, lapsed, data, marker, reqVars, revived, faults>>

BumpAfter ==
  /\ owed > 0
  /\ owed' = owed - 1
  /\ Commit(Bumped(Now))
  /\ UNCHANGED <<at, lapsed, data, marker, reqVars, revived, faults>>

\* What is older than the last increment is gone after two days: replicas have
\* seen it, data has expired, requests are over.
LongAgo ==
  /\ \A r \in Replicas : log[at[r]].bumps = Now.bumps
  /\ data # NoBlob => data.stamp.bumps = Now.bumps
  /\ \A q \in Requests : pc[q] # "idle" =>
       /\ log[begin[q]].bumps = Now.bumps
       /\ seen[q] # NoBlob => seen[q].stamp.bumps = Now.bumps

\* The counter's row expires.
Lapse ==
  /\ lapsed < Now.bumps
  /\ LongAgo
  /\ lapsed' = Now.bumps
  /\ UNCHANGED <<log, at, owed, data, marker, reqVars, revived, faults>>

\* pruneExpiredKeys, from a daily cron job.
Prune ==
  /\ Now.version # 0 /\ Now.bumps <= lapsed
  /\ Commit([Now EXCEPT !.version = 0])
  /\ UNCHANGED <<at, lapsed, owed, data, marker, reqVars, revived, faults>>

Replicate(r) ==
  /\ at[r] < Len(log)
  /\ at' = [at EXCEPT ![r] = @ + 1]
  /\ UNCHANGED <<log, lapsed, owed, data, marker, reqVars, revived, faults>>

-----------------------------------------------------------------------------
(* Redis *)

DataExpires ==
  /\ data # NoBlob
  /\ data' = NoBlob
  /\ UNCHANGED <<dbVars, marker, reqVars, revived, faults>>

MarkerExpires ==
  /\ marker
  /\ marker' = FALSE
  /\ UNCHANGED <<dbVars, data, reqVars, revived, faults>>

\* A call succeeds, or fails and is logged.
Fault == faults < MaxFaults /\ faults' = faults + 1

-----------------------------------------------------------------------------
(* withCacheFingerprint *)

Goto(q, phase) == pc' = [pc EXCEPT ![q] = phase]

\* The request is over and its locals are gone.
Finish(q) ==
  /\ Goto(q, "idle")
  /\ vouched' = [vouched EXCEPT ![q] = FALSE]
  /\ seen' = [seen EXCEPT ![q] = NoBlob]
  /\ stamp' = [stamp EXCEPT ![q] = NoStamp]
  /\ got' = [got EXCEPT ![q] = NoData]
  /\ begin' = [begin EXCEPT ![q] = 1]
  /\ UNCHANGED <<dbVars, data, marker, revived, faults>>

\* A request asks for marker and data at once.  One connection answers in that
\* order, but the nodes of a Redis Cluster, which keep them apart, in any.  An
\* error is a miss.

\* The marker is read first.
ReadMarker(q) ==
  /\ pc[q] = "idle"
  /\ Goto(q, "data")
  /\ begin' = [begin EXCEPT ![q] = Applied]
  /\ \/ vouched' = [vouched EXCEPT ![q] = marker] /\ UNCHANGED faults
     \/ UNCHANGED vouched /\ Fault
  /\ UNCHANGED <<dbVars, data, marker, seen, stamp, got, revived>>

\* The data is read after it: with a marker that is the answer.
ReadData(q) ==
  /\ pc[q] = "data"
  /\ vouched' = [vouched EXCEPT ![q] = FALSE]
  /\ \/ /\ vouched[q] /\ data # NoBlob
        /\ Goto(q, "hit")
        /\ got' = [got EXCEPT ![q] = data.payload]
        /\ UNCHANGED <<seen, faults>>
     \/ /\ ~vouched[q] \/ data = NoBlob
        /\ Goto(q, "print")
        /\ seen' = [seen EXCEPT ![q] = data]
        /\ UNCHANGED <<got, faults>>
     \/ /\ Fault
        /\ Goto(q, "print")
        /\ UNCHANGED <<seen, got>>
  /\ UNCHANGED <<dbVars, data, marker, stamp, begin, revived>>

\* The data is read first.
ReadDataFirst(q) ==
  /\ pc[q] = "idle"
  /\ Goto(q, "marker")
  /\ begin' = [begin EXCEPT ![q] = Applied]
  /\ \/ seen' = [seen EXCEPT ![q] = data] /\ UNCHANGED faults
     \/ UNCHANGED seen /\ Fault
  /\ UNCHANGED <<dbVars, data, marker, vouched, stamp, got, revived>>

\* The marker is read after it, and vouches for whatever was read.
ReadMarkerLast(q) ==
  /\ pc[q] = "marker"
  /\ \/ /\ marker /\ seen[q] # NoBlob
        /\ Goto(q, IF data = seen[q] THEN "hit" ELSE "crossed")
        /\ got' = [got EXCEPT ![q] = seen[q].payload]
        /\ seen' = [seen EXCEPT ![q] = NoBlob]
        /\ UNCHANGED faults
     \/ /\ ~marker \/ seen[q] = NoBlob
        /\ Goto(q, "print")
        /\ UNCHANGED <<seen, got, faults>>
     \/ /\ Fault
        /\ Goto(q, "print")
        /\ UNCHANGED <<seen, got>>
  /\ UNCHANGED <<dbVars, data, marker, vouched, stamp, begin, revived>>

Complete(s) == s.member # Unread /\ s.version # Unread

\* Seeded fault: the counter is left out of the fingerprint.
MatchesMembership(s, t) == s.member = t.member

\* The fingerprints are equal; bumps is history and not part of them.
Matches(s, t) == s.member = t.member /\ s.version = t.version

\* The counter agrees, but counts since its row was inserted anew.
Revives(s, t) == s.version = t.version /\ s.bumps # t.bumps

\* One of the two queries of fingerprintFetcher, each at a replica of its own;
\* after the second the fingerprint is compared with that of the data read.
Printed(q, s) ==
  LET match == seen[q] # NoBlob /\ Matches(s, seen[q].stamp)
  IN IF ~Complete(s)
     THEN stamp' = [stamp EXCEPT ![q] = s] /\ UNCHANGED <<pc, seen, got, revived>>
     ELSE /\ seen' = [seen EXCEPT ![q] = NoBlob]
          /\ IF match
             THEN /\ Goto(q, "validate")
                  /\ stamp' = [stamp EXCEPT ![q] = NoStamp]
                  /\ got' = [got EXCEPT ![q] = seen[q].payload]
                  /\ revived' = (revived \/ Revives(s, seen[q].stamp))
             ELSE /\ Goto(q, "members")
                  /\ stamp' = [stamp EXCEPT ![q] = s]
                  /\ UNCHANGED <<got, revived>>

ReadMembership(q) ==
  /\ pc[q] = "print" /\ stamp[q].member = Unread
  /\ \E r \in Replicas : Printed(q, [stamp[q] EXCEPT !.member = log[at[r]].member])
  /\ UNCHANGED <<dbVars, data, marker, vouched, begin, faults>>

ReadVersion(q) ==
  /\ pc[q] = "print" /\ stamp[q].version = Unread
  /\ \E r \in Replicas : Printed(q, [stamp[q] EXCEPT !.version = Version(log[at[r]]),
                                                     !.bumps = log[at[r]].bumps])
  /\ UNCHANGED <<dbVars, data, marker, vouched, begin, faults>>

\* fingerprintFetcher throws: the data is fetched and not cached.
PrintFails(q) ==
  /\ pc[q] = "print"
  /\ Fault
  /\ Goto(q, "members")
  /\ seen' = [seen EXCEPT ![q] = NoBlob]
  /\ stamp' = [stamp EXCEPT ![q] = NoStamp]
  /\ UNCHANGED <<dbVars, data, marker, vouched, got, begin, revived>>

\* dataFetcher: memberships, grants and paths one after the other, the grants
\* from the primary.
FetchMembers(q) ==
  /\ pc[q] = "members"
  /\ Goto(q, "grants")
  /\ \E r \in Replicas : got' = [got EXCEPT ![q] = [NoData EXCEPT !.member = log[at[r]].member]]
  /\ UNCHANGED <<dbVars, data, marker, vouched, seen, stamp, begin, revived, faults>>

FetchGrants(q) ==
  /\ pc[q] = "grants"
  /\ Goto(q, "paths")
  /\ got' = [got EXCEPT ![q].grants = Now.grants]
  /\ UNCHANGED <<dbVars, data, marker, vouched, seen, stamp, begin, revived, faults>>

\* Seeded fault: the marker is written while the data is still to be.
FetchPathsMarked(q) ==
  /\ pc[q] = "paths"
  /\ Goto(q, IF Complete(stamp[q]) THEN "write" ELSE "answer")
  /\ \E r \in Replicas : got' = [got EXCEPT ![q].paths = log[at[r]].paths]
  /\ marker' = TRUE
  /\ UNCHANGED <<dbVars, data, vouched, seen, stamp, begin, revived, faults>>

FetchPaths(q) ==
  /\ pc[q] = "paths"
  /\ Goto(q, IF Complete(stamp[q]) THEN "write" ELSE "answer")
  /\ \E r \in Replicas : got' = [got EXCEPT ![q].paths = log[at[r]].paths]
  /\ UNCHANGED <<dbVars, data, marker, vouched, seen, stamp, begin, revived, faults>>

\* dataFetcher throws, as it does for an actor that is not a member.
FetchFails(q) ==
  /\ pc[q] \in {"members", "grants", "paths"}
  /\ Finish(q)

\* cacheSet of the data; an error is swallowed.
WriteData(q) ==
  /\ pc[q] = "write"
  /\ Goto(q, "mark")
  /\ stamp' = [stamp EXCEPT ![q] = NoStamp]
  /\ \/ data' = [stamp |-> stamp[q], payload |-> got[q]] /\ UNCHANGED faults
     \/ UNCHANGED data /\ Fault
  /\ UNCHANGED <<dbVars, marker, vouched, seen, got, begin, revived>>

\* cacheSet of the marker, after a comparison or a write; an error is swallowed.
WriteMarker(q) ==
  /\ pc[q] \in {"validate", "mark"}
  /\ Goto(q, "answer")
  /\ \/ marker' = TRUE /\ UNCHANGED faults
     \/ UNCHANGED marker /\ Fault
  /\ UNCHANGED <<dbVars, data, vouched, seen, stamp, got, begin, revived>>

Return(q) ==
  /\ pc[q] \in {"answer", "hit", "crossed"}
  /\ Finish(q)

-----------------------------------------------------------------------------

DatabaseStep ==
  \/ ChangeMember \/ ChangeGrant \/ ChangeEnvironment \/ Rename \/ BumpAfter
  \/ Lapse \/ Prune \/ \E r \in Replicas : Replicate(r)

LookupStep(q) ==
  \/ ReadMarker(q) \/ ReadData(q) \/ ReadDataFirst(q) \/ ReadMarkerLast(q)
  \/ ReadMembership(q) \/ ReadVersion(q) \/ PrintFails(q)
  \/ FetchMembers(q) \/ FetchGrants(q) \/ FetchPaths(q) \/ FetchFails(q)
  \/ WriteData(q) \/ WriteMarker(q) \/ Return(q)

\* No request is under way and the marker has run out.
Quiet == ~marker /\ \A q \in Requests : pc[q] = "idle"

History ==
  /\ base' = IF Quiet' THEN Applied' ELSE base
  /\ unwritten' = (~Quiet' /\ (unwritten \/ \E q \in Requests :
                                 pc[q] = "write" /\ pc'[q] = "mark" /\ faults' # faults))

Next ==
  /\ \/ DatabaseStep
     \/ DataExpires \/ MarkerExpires
     \/ \E q \in Requests : LookupStep(q)
  /\ History

Spec == Init /\ [][Next]_vars

-----------------------------------------------------------------------------
(* Properties *)

Single == Cardinality(Replicas) = 1

\* The data has every change of a state of Postgres, as far as it was announced.
\* Among several replicas only the grants, read at the primary, are bound to the
\* fingerprint they are found under: the rest may be of a slower replica.
Reflects(d, s) ==
  /\ d.grants >= s.grants
  /\ Single => d.member >= s.member /\ d.paths >= s.told

\* A request that asked Postgres for a fingerprint answers with data that has
\* every change all replicas had applied when the request began, whether the
\* data was fetched or found to carry that fingerprint, and whatever was
\* written under the same key meanwhile.
ValidatedIsFresh ==
  \A q \in Requests : pc[q] = "answer" /\ ~revived =>
    Reflects(got[q], log[begin[q]])

\* Once the marker has run out while no request was under way, neither the data
\* that a marker vouches for nor any answer lacks a change that was applied then:
\* a slow request cannot bring older data back under a fresh marker, in whichever
\* order requests read the two.  Excepted are a data write that failed, until the
\* cache is quiet again, and the one answer of a request whose data was replaced
\* before it read the marker.
NothingOlder ==
  ~revived /\ ~unwritten =>
    /\ marker /\ data # NoBlob => Reflects(data.payload, log[base])
    /\ \A q \in Requests : pc[q] \in {"answer", "hit"} => Reflects(got[q], log[base])

=============================================================================
