----------------------- MODULE IdentityRevocationProofs -----------------------
(***************************************************************************)
(* Safety of the cached verdicts, for any number of requests, of calls     *)
(* that revoke and restore, and of faults.                                 *)
(*                                                                         *)
(* A stamp is old when no request that reads the version from now on can   *)
(* find it live.  A bump makes every stamp old; while a revocation is      *)
(* settled no request makes a new allow, and while access is open no       *)
(* request makes a new membership deny, so what is about stays old.        *)
(***************************************************************************)
EXTENDS IdentityRevocation, TLAPS

\* The version will never be s again.
Old(s) == s < version \/ (version = 0 /\ s < clock)

\* Requests that have read a deny reason and are about to cache it.
Filling(r, reason) == pc[r] \in {"membership", "write"} /\ deny[r] = reason

\* The stamps of the verdicts of one kind: cached, read, or about to be cached.
Stamps(kind, reason) ==
  {s \in Nat :
    \/ verdict.kind = kind /\ verdict.v = s
    \/ \E r \in Reqs : seen[r].kind = kind /\ seen[r].v = s
    \/ \E r \in Reqs : Filling(r, reason) /\ stamp[r] = s}

Allows == Stamps("allow", "none")
OrgDenies == Stamps("orgDeny", "org")

\* Stamps are versions of the past.
StampsBounded ==
  /\ verdict.v <= clock /\ (version # 0 => verdict.v <= version)
  /\ \A r \in Reqs :
       /\ seen[r].v <= clock /\ (version # 0 => seen[r].v <= version)
       /\ stamp[r] <= clock /\ (version # 0 => stamp[r] <= version)

\* The version is read with the request under way, the membership without a marker.
ReadsUnderWay == \A r \in Reqs :
  /\ got[r] = "version" => pc[r] = "reading"
  /\ pc[r] = "membership" => deny[r] = "none"

\* What is revoked is marked; what is due is settled.
RevokedMarked ==
  /\ revoked = marks
  /\ settled \subseteq revoked
  /\ \A r \in Reqs : due[r] \subseteq settled

\* A settled revocation leaves no allow that could stand.
AllowsOld ==
  /\ settled # {} => \A s \in Allows : Old(s)
  /\ \A r \in Reqs : due[r] # {} /\ got[r] = "version" =>
       \A s \in Allows : s < stamp[r] \/ stamp[r] = 0

\* A request that is to be denied finds a marker.
DueDenied == \A r \in Reqs : due[r] # {} =>
  pc[r] # "membership" /\ (pc[r] = "write" => deny[r] # "none")

\* A deny that needs no stamp comes from a marker that is never taken back.
DeniesMarked ==
  /\ verdict.kind = "deny" => "perm" \in marks
  /\ \A r \in Reqs : seen[r].kind = "deny" \/ deny[r] = "perm" => "perm" \in marks

\* Access that is open is seen to be.
OpenSeen ==
  /\ reopened => Open
  /\ \A r \in Reqs : open[r] =>
       /\ reopened
       /\ replica = Len(members)
       /\ pc[r] = "write" => deny[r] = "none"

\* Open access leaves no membership deny that could stand.
OrgDeniesOld ==
  /\ reopened => \A s \in OrgDenies : Old(s)
  /\ \A r \in Reqs : open[r] /\ got[r] = "version" =>
       \A s \in OrgDenies : s < stamp[r] \/ stamp[r] = 0

IInv ==
  /\ TypeOK /\ StampsBounded /\ ReadsUnderWay /\ RevokedMarked /\ AllowsOld /\ DueDenied
  /\ DeniesMarked /\ OpenSeen /\ OrgDeniesOld /\ RevokedIsDenied /\ ReopenedIsAllowed

-----------------------------------------------------------------------------
(* Types *)

LEMMA InitIInv == Init => IInv
<1> SUFFICES ASSUME Init PROVE IInv
  OBVIOUS
<1>1. TypeOK
  <2>1. <<TRUE>> \in Seq(BOOLEAN) /\ Len(<<TRUE>>) = 1
    OBVIOUS
  <2> QED BY <2>1, RevocationAssumption DEF Init, TypeOK, NoVerdict, Verdicts, Marks
<1>2. Allows = {} /\ OrgDenies = {}
  BY DEF Init, Allows, OrgDenies, Stamps, Filling, NoVerdict
<1>3. Open
  BY DEF Init, Open, Member
<1> QED
  BY <1>1, <1>2, <1>3 DEF Init, IInv, StampsBounded, ReadsUnderWay, RevokedMarked, AllowsOld, DueDenied,
    DeniesMarked, OpenSeen, OrgDeniesOld, RevokedIsDenied, ReopenedIsAllowed, NoVerdict

\* What a request that has done its reads does next is of the right type.
LEMMA JudgeTypeOK ==
  ASSUME TypeOK, NEW r \in Reqs, NEW d, NEW v \in Nat, Judge(r, d, v)
  PROVE  /\ pc' \in [Reqs -> {"idle", "reading", "seed", "readback", "markers", "membership",
                              "write", "allowed", "denied"}]
         /\ got' \in [Reqs -> {"none", "version", "verdict"}]
         /\ seen' \in [Reqs -> Verdicts]
         /\ stamp' \in [Reqs -> Nat]
<1>1. NoVerdict \in Verdicts
  BY DEF NoVerdict, Verdicts
<1> QED BY <1>1 DEF Judge, Goto, TypeOK

LEMMA StepTypeOK ==
  ASSUME TypeOK, NEW r \in Reqs, Step(r)
  PROVE  TypeOK'
<1> USE DEF TypeOK, dbVars, redisVars, reqVars, history, Goto
<1>1. CASE Begin(r)
  BY <1>1 DEF Begin
<1>2. CASE ReadVersion(r)
  <2>1. CASE got[r] = "verdict" /\ Judge(r, seen[r], version)
    <3>1. version \in Nat
      OBVIOUS
    <3> HIDE DEF TypeOK
    <3>2. /\ pc' \in [Reqs -> {"idle", "reading", "seed", "readback", "markers", "membership",
                              "write", "allowed", "denied"}]
          /\ got' \in [Reqs -> {"none", "version", "verdict"}]
          /\ seen' \in [Reqs -> Verdicts]
          /\ stamp' \in [Reqs -> Nat]
      BY <2>1, <3>1, JudgeTypeOK
    <3> QED BY <1>2, <3>2 DEF ReadVersion, TypeOK
  <2>2. CASE got[r] = "none"
    <3> HIDE DEF TypeOK
    <3>1. /\ got' = [got EXCEPT ![r] = "version"]
          /\ stamp' = [stamp EXCEPT ![r] = version]
          /\ UNCHANGED <<pc, seen, dbVars, redisVars, pending, usable, deny, history, ops, faults>>
      BY <1>2, <2>2 DEF ReadVersion
    <3> QED BY <3>1 DEF TypeOK
  <2> QED BY <1>2, <2>1, <2>2 DEF ReadVersion
<1>3. CASE ReadVerdict(r)
  <2>1. CASE got[r] = "version" /\ Judge(r, verdict, stamp[r])
    <3>1. stamp[r] \in Nat
      OBVIOUS
    <3> HIDE DEF TypeOK
    <3>2. /\ pc' \in [Reqs -> {"idle", "reading", "seed", "readback", "markers", "membership",
                              "write", "allowed", "denied"}]
          /\ got' \in [Reqs -> {"none", "version", "verdict"}]
          /\ seen' \in [Reqs -> Verdicts]
          /\ stamp' \in [Reqs -> Nat]
      BY <2>1, <3>1, JudgeTypeOK
    <3> QED BY <1>3, <3>2 DEF ReadVerdict, TypeOK
  <2>2. CASE got[r] = "none"
    <3> HIDE DEF TypeOK
    <3>1. /\ got' = [got EXCEPT ![r] = "verdict"]
          /\ seen' = [seen EXCEPT ![r] = verdict]
          /\ UNCHANGED <<pc, stamp, dbVars, redisVars, pending, usable, deny, history, ops, faults>>
      BY <1>3, <2>2 DEF ReadVerdict
    <3> QED BY <3>1 DEF TypeOK
  <2> QED BY <1>3, <2>1, <2>2 DEF ReadVerdict
<1>4. CASE Seed(r)
  BY <1>4 DEF Seed
<1>5. CASE ReadBack(r)
  BY <1>5 DEF ReadBack
<1>6. CASE CacheDown(r)
  BY <1>6, RevocationAssumption DEF CacheDown, Fault, NoVerdict, Verdicts
<1>7. CASE ReadMarkers(r)
  BY <1>7 DEF ReadMarkers, Marks
<1>8. CASE ReadMembership(r)
  BY <1>8 DEF ReadMembership
<1>9. CASE Write(r)
  <2>1. Filled(r) \in Verdicts
    BY DEF Filled, Verdicts
  <2> QED BY <1>9, <2>1 DEF Write, Drop, Outcome
<1>10. CASE WriteFails(r)
  BY <1>10, RevocationAssumption DEF WriteFails, Drop, Outcome, Fault
<1>11. CASE Return(r)
  BY <1>11 DEF Return
<1> QED
  BY <1>1, <1>2, <1>3, <1>4, <1>5, <1>6, <1>7, <1>8, <1>9, <1>10, <1>11 DEF Step

\* Every call that revokes or restores commits so.
LEMMA CommitTypeOK ==
  ASSUME TypeOK, NEW a \in Admins, NEW newMarks \in SUBSET Marks, NEW member \in BOOLEAN,
         NEW stillRevoked \in SUBSET Marks, Commit(a, newMarks, member, stillRevoked)
  PROVE  TypeOK'
<1>1. /\ members' \in Seq(BOOLEAN)
      /\ Len(members') >= Len(members)
  <2>1. /\ Append(members, member) \in Seq(BOOLEAN)
        /\ Len(Append(members, member)) = Len(members) + 1
    BY DEF TypeOK
  <2>2. members' = members \/ members' = Append(members, member)
    BY DEF Commit
  <2>3. Len(members) \in Nat /\ members \in Seq(BOOLEAN)
    BY DEF TypeOK
  <2> QED BY <2>1, <2>2, <2>3
<1>2. /\ settled' \in SUBSET Marks
      /\ due' \in [Reqs -> SUBSET Marks]
      /\ pending' \in SUBSET Admins
  BY DEF Commit, TypeOK
<1>4. ops' \in 0 .. MaxOps
  BY RevocationAssumption DEF Commit, TypeOK
<1>5. open' \in [Reqs -> BOOLEAN] /\ reopened' \in BOOLEAN
  BY Zenon DEF Commit
<1>3. replica' \in 1 .. Len(members')
  BY <1>1 DEF Commit, TypeOK
<1> QED
  BY <1>1, <1>2, <1>3, <1>4, <1>5 DEF Commit, TypeOK, redisVars, reqVars

\* The calls differ in what they commit.
Change(a) == Revoke(a) \/ Remove(a) \/ Restore(a) \/ LeaveGroup(a) \/ JoinGroup(a)

LEMMA ChangeCommits ==
  ASSUME TypeOK, RevokedMarked, NEW a \in Admins, Change(a)
  PROVE  \E newMarks \in SUBSET Marks, member \in BOOLEAN :
           /\ Commit(a, newMarks, member, newMarks)
           /\ "perm" \in marks => "perm" \in newMarks
<1>1. Member \in BOOLEAN
  BY DEF Member, TypeOK
<1>2. marks \in SUBSET Marks /\ revoked = marks
  BY DEF TypeOK, RevokedMarked
<1>3. CASE Revoke(a)
  <2>1. Commit(a, marks \union {"perm"}, Member, marks \union {"perm"})
    BY <1>2, <1>3 DEF Revoke
  <2> QED BY <1>1, <1>2, <2>1 DEF Marks
<1>4. CASE Remove(a)
  <2>1. Commit(a, marks \union {"org"}, FALSE, marks \union {"org"})
    BY <1>2, <1>4 DEF Remove
  <2> QED BY <1>2, <2>1 DEF Marks
<1>5. CASE Restore(a)
  <2>1. Commit(a, marks \ {"org"}, TRUE, marks \ {"org"})
    BY <1>2, <1>5 DEF Restore
  <2> QED BY <1>2, <2>1 DEF Marks
<1>6. CASE LeaveGroup(a)
  BY <1>2, <1>6 DEF LeaveGroup
<1>7. CASE JoinGroup(a)
  BY <1>2, <1>7 DEF JoinGroup
<1> QED BY <1>3, <1>4, <1>5, <1>6, <1>7 DEF Change

LEMMA NextTypeOK ==
  ASSUME TypeOK, RevokedMarked, [Next]_vars
  PROVE  TypeOK'
<1> USE DEF TypeOK, dbVars, redisVars, reqVars, history
<1>1. CASE \E r \in Reqs : Step(r)
  BY <1>1, StepTypeOK
<1>2. CASE \E a \in Admins : Change(a)
  BY <1>2, ChangeCommits, CommitTypeOK
<1>3. CASE \E a \in Admins : Bump(a)
  <2>1. reopened' \in BOOLEAN
    BY <1>3, Zenon DEF Bump
  <2> QED BY <1>3, <2>1 DEF Bump, Bumped
<1>4. CASE \E a \in Admins : BumpFails(a)
  BY <1>4, RevocationAssumption DEF BumpFails, Fault
<1>5. CASE Replicate
  BY <1>5 DEF Replicate
<1>6. CASE VerdictExpires
  BY <1>6 DEF VerdictExpires, NoVerdict, Verdicts
<1>7. CASE VersionLost
  BY <1>7, RevocationAssumption DEF VersionLost, Fault
<1>8. CASE UNCHANGED vars
  BY <1>8 DEF vars
<1> QED
  BY <1>1, <1>2, <1>3, <1>4, <1>5, <1>6, <1>7, <1>8 DEF Next, Change

-----------------------------------------------------------------------------
(* Versions and stamps *)

LEMMA VersionMoves ==
  ASSUME [Next]_vars
  PROVE  \/ UNCHANGED <<version, clock>>
         \/ version' = Bumped /\ clock' = clock + 1
         \/ version = 0 /\ version' = clock /\ clock' = clock
         \/ version # 0 /\ version' = 0 /\ clock' = clock + 1
<1> USE DEF dbVars, redisVars, reqVars, history
<1>1. CASE \E r \in Reqs : Step(r)
  BY <1>1 DEF Step, Begin, ReadVersion, ReadVerdict, Seed, ReadBack, CacheDown, ReadMarkers,
    ReadMembership, Write, WriteFails, Return
<1>2. CASE \E a \in Admins : Change(a)
  BY <1>2 DEF Change, Revoke, Remove, Restore, LeaveGroup, JoinGroup, Commit
<1>3. CASE \E a \in Admins : Bump(a)
  BY <1>3 DEF Bump
<1>4. CASE \E a \in Admins : BumpFails(a)
  BY <1>4 DEF BumpFails
<1>5. CASE Replicate \/ VerdictExpires
  BY <1>5 DEF Replicate, VerdictExpires
<1>6. CASE VersionLost
  BY <1>6 DEF VersionLost
<1>7. CASE UNCHANGED vars
  BY <1>7 DEF vars
<1> QED
  BY <1>1, <1>2, <1>3, <1>4, <1>5, <1>6, <1>7 DEF Next, Change

\* What is old stays old.
LEMMA OldStays ==
  ASSUME TypeOK, [Next]_vars, NEW s \in Nat, Old(s)
  PROVE  Old(s)'
<1>1. version \in Nat /\ clock \in Nat /\ version <= clock
  BY DEF TypeOK
<1> QED BY <1>1, VersionMoves DEF Old, Bumped

\* What a version of the past can be.
Past(s) == s \in Nat /\ s <= clock /\ (version # 0 => s <= version)

LEMMA PastStays ==
  ASSUME TypeOK, [Next]_vars, NEW s, Past(s)
  PROVE  Past(s)'
<1>1. version \in Nat /\ clock \in Nat /\ version <= clock
  BY DEF TypeOK
<1> QED BY <1>1, VersionMoves DEF Past, Bumped

\* A bump makes the versions of the past old.
LEMMA BumpMakesOld ==
  ASSUME TypeOK, NEW s, Past(s), NEW a \in Admins, Bump(a)
  PROVE  Old(s)'
<1>1. version \in Nat /\ clock \in Nat /\ version <= clock
  BY DEF TypeOK
<1> QED BY <1>1 DEF Past, Old, Bump, Bumped

LEMMA StampsPast ==
  ASSUME TypeOK
  PROVE  StampsBounded <=>
           Past(verdict.v) /\ \A r \in Reqs : Past(seen[r].v) /\ Past(stamp[r])
<1>1. verdict.v \in Nat /\ \A r \in Reqs : seen[r].v \in Nat /\ stamp[r] \in Nat
  BY DEF TypeOK, Verdicts
<1> QED BY <1>1 DEF StampsBounded, Past

\* Where a request's stamps come from.
LEMMA StampsCopied ==
  ASSUME TypeOK, [Next]_vars
  PROVE  /\ verdict'.v \in {0, verdict.v} \union {stamp[r] : r \in Reqs}
         /\ \A r \in Reqs : seen'[r].v \in {0, seen[r].v, verdict.v}
         /\ \A r \in Reqs : stamp'[r] \in {0, stamp[r], version}
<1> USE DEF dbVars, redisVars, reqVars, history
<1>1. ASSUME NEW r \in Reqs, Step(r)
      PROVE  /\ verdict'.v \in {0, verdict.v} \union {stamp[q] : q \in Reqs}
             /\ \A q \in Reqs : seen'[q].v \in {0, seen[q].v, verdict.v}
             /\ \A q \in Reqs : stamp'[q] \in {0, stamp[q], version}
  <2>0. seen \in [Reqs -> Verdicts] /\ stamp \in [Reqs -> Nat] /\ got \in [Reqs -> {"none", "version", "verdict"}]
    BY DEF TypeOK
  <2>1. CASE Begin(r) \/ Return(r) \/ ReadMarkers(r) \/ ReadMembership(r)
    BY <2>1 DEF Begin, Return, ReadMarkers, ReadMembership
  <2>2. CASE ReadVersion(r)
    BY <2>0, <2>2 DEF ReadVersion, Judge, NoVerdict
  <2>3. CASE ReadVerdict(r)
    BY <2>0, <2>3 DEF ReadVerdict, Judge, NoVerdict
  <2>4. CASE Seed(r) \/ ReadBack(r) \/ CacheDown(r)
    BY <2>0, <2>4 DEF Seed, ReadBack, CacheDown, NoVerdict
  <2>5. CASE Write(r) \/ WriteFails(r)
    BY <2>0, <2>5 DEF Write, WriteFails, Drop, Filled
  <2> QED BY <1>1, <2>1, <2>2, <2>3, <2>4, <2>5 DEF Step
<1>2. CASE \E a \in Admins : Change(a) \/ Bump(a) \/ BumpFails(a)
  BY <1>2 DEF Change, Revoke, Remove, Restore, LeaveGroup, JoinGroup, Commit, Bump, BumpFails
<1>3. CASE Replicate \/ VerdictExpires \/ VersionLost
  BY <1>3 DEF Replicate, VerdictExpires, VersionLost, NoVerdict
<1>4. CASE UNCHANGED vars
  BY <1>4 DEF vars
<1> QED
  BY <1>1, <1>2, <1>3, <1>4 DEF Next, Change

LEMMA NextStampsBounded ==
  ASSUME TypeOK, TypeOK', StampsBounded, [Next]_vars
  PROVE  StampsBounded'
<1>1. Past(0) /\ Past(version)
  BY DEF TypeOK, Past
<1>2. Past(verdict.v) /\ \A r \in Reqs : Past(seen[r].v) /\ Past(stamp[r])
  BY StampsPast
<1>3. Past(verdict'.v) /\ \A r \in Reqs : Past(seen'[r].v) /\ Past(stamp'[r])
  BY <1>1, <1>2, StampsCopied
<1>4. ASSUME NEW s, Past(s)
      PROVE  s <= clock' /\ (version' # 0 => s <= version')
  BY <1>4, PastStays DEF Past
<1> QED BY <1>3, <1>4 DEF StampsBounded

-----------------------------------------------------------------------------
(* Marks and membership *)

LEMMA NextReadsUnderWay ==
  ASSUME TypeOK, ReadsUnderWay, [Next]_vars
  PROVE  ReadsUnderWay'
<1> USE DEF ReadsUnderWay, dbVars, redisVars, reqVars, history, Goto
<1>0. pc \in [Reqs -> {"idle", "reading", "seed", "readback", "markers", "membership", "write",
                       "allowed", "denied"}] /\ got \in [Reqs -> {"none", "version", "verdict"}]
  /\ deny \in [Reqs -> {"none", "perm", "org"}] /\ marks \in SUBSET {"perm", "org"}
  BY DEF TypeOK, Marks
<1>1. ASSUME NEW r \in Reqs, Step(r)
      PROVE  ReadsUnderWay'
  <2>1. CASE ReadVersion(r) \/ ReadVerdict(r)
    BY <1>0, <2>1 DEF ReadVersion, ReadVerdict, Judge
  <2>2. CASE Begin(r) \/ Seed(r) \/ ReadBack(r) \/ CacheDown(r)
    BY <1>0, <2>2 DEF Begin, Seed, ReadBack, CacheDown
  <2>3. CASE ReadMarkers(r) \/ ReadMembership(r)
    BY <1>0, <2>3 DEF ReadMarkers, ReadMembership
  <2>4. CASE Write(r) \/ WriteFails(r) \/ Return(r)
    BY <1>0, <2>4 DEF Write, WriteFails, Return, Drop, Outcome
  <2> QED BY <1>1, <2>1, <2>2, <2>3, <2>4 DEF Step
<1>2. CASE \E a \in Admins : Change(a) \/ Bump(a) \/ BumpFails(a)
  BY <1>2 DEF Change, Revoke, Remove, Restore, LeaveGroup, JoinGroup, Commit, Bump, BumpFails
<1>3. CASE Replicate \/ VerdictExpires \/ VersionLost
  BY <1>3 DEF Replicate, VerdictExpires, VersionLost
<1>4. CASE UNCHANGED vars
  BY <1>4 DEF vars
<1> QED BY <1>1, <1>2, <1>3, <1>4 DEF Next, Change

\* What a request is due changes when it begins, and shrinks otherwise.
LEMMA DueMoves ==
  ASSUME TypeOK, [Next]_vars, NEW r \in Reqs
  PROVE  due'[r] \subseteq due[r] \/ (Begin(r) /\ due'[r] = settled)
<1> USE DEF dbVars, redisVars, reqVars, history
<1>0. due \in [Reqs -> SUBSET Marks]
  BY DEF TypeOK
<1>1. ASSUME NEW q \in Reqs, Step(q)
      PROVE  due'[r] \subseteq due[r] \/ (Begin(r) /\ due'[r] = settled)
  BY <1>0, <1>1 DEF Step, Begin, ReadVersion, ReadVerdict, Seed, ReadBack, CacheDown, ReadMarkers,
    ReadMembership, Write, WriteFails, Return
<1>2. CASE \E a \in Admins : Change(a) \/ Bump(a) \/ BumpFails(a)
  BY <1>2 DEF Change, Revoke, Remove, Restore, LeaveGroup, JoinGroup, Commit, Bump, BumpFails
<1>3. CASE Replicate \/ VerdictExpires \/ VersionLost
  BY <1>3 DEF Replicate, VerdictExpires, VersionLost
<1>4. CASE UNCHANGED vars
  BY <1>4 DEF vars
<1> QED BY <1>1, <1>2, <1>3, <1>4 DEF Next, Change

LEMMA NextRevokedMarked ==
  ASSUME TypeOK, RevokedMarked, [Next]_vars
  PROVE  RevokedMarked'
<1> USE DEF RevokedMarked, dbVars, redisVars, reqVars, history
<1>0. due \in [Reqs -> SUBSET Marks]
  BY DEF TypeOK
<1>1. ASSUME NEW r \in Reqs, Step(r)
      PROVE  RevokedMarked'
  <2>1. UNCHANGED <<marks, revoked, settled>>
    BY <1>1 DEF Step, Begin, ReadVersion, ReadVerdict, Seed, ReadBack, CacheDown, ReadMarkers,
    ReadMembership, Write, WriteFails, Return
  <2> QED BY <1>0, <2>1, DueMoves
<1>2. CASE \E a \in Admins : Change(a)
  <2>1. PICK a \in Admins, newMarks \in SUBSET Marks, member \in BOOLEAN :
          Commit(a, newMarks, member, newMarks)
    BY <1>2, ChangeCommits
  <2> QED BY <1>0, <2>1 DEF Commit
<1>3. CASE \E a \in Admins : Bump(a)
  BY <1>0, <1>3 DEF Bump
<1>4. CASE \E a \in Admins : BumpFails(a)
  BY <1>4 DEF BumpFails
<1>5. CASE Replicate \/ VerdictExpires \/ VersionLost
  BY <1>5 DEF Replicate, VerdictExpires, VersionLost
<1>6. CASE UNCHANGED vars
  BY <1>6 DEF vars
<1> QED BY <1>1, <1>2, <1>3, <1>4, <1>5, <1>6 DEF Next, Change

\* Where a request that revokes or restores nothing leaves the requests.
LEMMA OthersKeepRequests ==
  ASSUME [Next]_vars, \A r \in Reqs : ~Step(r)
  PROVE  UNCHANGED reqVars
<1> USE DEF dbVars, redisVars, reqVars, history
<1>2. CASE \E a \in Admins : Change(a) \/ Bump(a) \/ BumpFails(a)
  BY <1>2 DEF Change, Revoke, Remove, Restore, LeaveGroup, JoinGroup, Commit, Bump, BumpFails
<1>3. CASE Replicate \/ VerdictExpires \/ VersionLost
  BY <1>3 DEF Replicate, VerdictExpires, VersionLost
<1>4. CASE UNCHANGED vars
  BY <1>4 DEF vars
<1> QED BY <1>2, <1>3, <1>4 DEF Next, Change

LEMMA NextDueDenied ==
  ASSUME TypeOK, RevokedMarked, DueDenied, [Next]_vars
  PROVE  DueDenied'
<1> SUFFICES ASSUME NEW q \in Reqs, due'[q] # {}
             PROVE  pc'[q] # "membership" /\ (pc'[q] = "write" => deny'[q] # "none")
  BY DEF DueDenied
<1> USE DEF dbVars, redisVars, reqVars, history, Goto
<1>0. /\ pc \in [Reqs -> {"idle", "reading", "seed", "readback", "markers", "membership", "write",
                          "allowed", "denied"}]
      /\ deny \in [Reqs -> {"none", "perm", "org"}]
      /\ marks \in SUBSET {"perm", "org"}
  BY DEF TypeOK, Marks
<1>1. CASE Begin(q)
  BY <1>0, <1>1 DEF Begin
<1>2. CASE ~Begin(q)
  <2>1. due[q] # {} /\ marks # {}
    BY <1>2, DueMoves DEF RevokedMarked
  <2>2. pc[q] # "membership" /\ (pc[q] = "write" => deny[q] # "none")
    BY <2>1 DEF DueDenied
  <2>3. ASSUME NEW r \in Reqs, Step(r)
        PROVE  pc'[q] # "membership" /\ (pc'[q] = "write" => deny'[q] # "none")
    <3>1. CASE ReadVersion(r) \/ ReadVerdict(r)
      BY <1>0, <2>2, <3>1 DEF ReadVersion, ReadVerdict, Judge
    <3>2. CASE Begin(r) \/ Seed(r) \/ ReadBack(r) \/ CacheDown(r)
      BY <1>0, <2>2, <3>2 DEF Begin, Seed, ReadBack, CacheDown
    <3>3. CASE ReadMarkers(r)
      BY <1>0, <2>1, <2>2, <3>3 DEF ReadMarkers
    <3>4. CASE ReadMembership(r)
      BY <1>0, <2>2, <3>4 DEF ReadMembership
    <3>5. CASE Write(r) \/ WriteFails(r) \/ Return(r)
      BY <1>0, <2>2, <3>5 DEF Write, WriteFails, Drop, Return, Outcome
    <3> QED BY <2>3, <3>1, <3>2, <3>3, <3>4, <3>5 DEF Step
  <2> QED BY <2>2, <2>3, OthersKeepRequests
<1> QED BY <1>1, <1>2

\* A permanent marker stays.
LEMMA PermStays ==
  ASSUME TypeOK, RevokedMarked, [Next]_vars, "perm" \in marks
  PROVE  "perm" \in marks'
<1> USE DEF dbVars, redisVars, reqVars, history
<1>1. CASE \E r \in Reqs : Step(r)
  BY <1>1 DEF Step, Begin, ReadVersion, ReadVerdict, Seed, ReadBack, CacheDown, ReadMarkers,
    ReadMembership, Write, WriteFails, Return
<1>2. CASE \E a \in Admins : Change(a)
  BY <1>2, ChangeCommits DEF Commit
<1>3. CASE \E a \in Admins : Bump(a) \/ BumpFails(a)
  BY <1>3 DEF Bump, BumpFails
<1>4. CASE Replicate \/ VerdictExpires \/ VersionLost
  BY <1>4 DEF Replicate, VerdictExpires, VersionLost
<1>5. CASE UNCHANGED vars
  BY <1>5 DEF vars
<1> QED BY <1>1, <1>2, <1>3, <1>4, <1>5 DEF Next, Change

LEMMA NextDeniesMarked ==
  ASSUME TypeOK, RevokedMarked, DeniesMarked, [Next]_vars
  PROVE  DeniesMarked'
<1> USE DEF dbVars, redisVars, reqVars, history, DeniesMarked
<1>0. /\ seen \in [Reqs -> Verdicts] /\ deny \in [Reqs -> {"none", "perm", "org"}]
  BY DEF TypeOK
<1>1. CASE "perm" \in marks
  BY <1>1, PermStays
<1>2. CASE "perm" \notin marks
  <2>1. verdict.kind # "deny" /\ \A r \in Reqs : seen[r].kind # "deny" /\ deny[r] # "perm"
    BY <1>2
  <2>2. ASSUME NEW r \in Reqs, Step(r)
        PROVE  verdict'.kind # "deny" /\ \A q \in Reqs : seen'[q].kind # "deny" /\ deny'[q] # "perm"
    <3>1. CASE ReadVersion(r) \/ ReadVerdict(r)
      BY <1>0, <2>1, <3>1 DEF ReadVersion, ReadVerdict, Judge, NoVerdict
    <3>2. CASE Begin(r) \/ Seed(r) \/ ReadBack(r) \/ CacheDown(r)
      BY <1>0, <2>1, <3>2 DEF Begin, Seed, ReadBack, CacheDown, NoVerdict
    <3>3. CASE ReadMarkers(r) \/ ReadMembership(r)
      BY <1>0, <1>2, <2>1, <3>3 DEF ReadMarkers, ReadMembership
    <3>4. CASE Write(r) \/ WriteFails(r) \/ Return(r)
      BY <1>0, <2>1, <3>4 DEF Write, WriteFails, Drop, Return, Filled
    <3> QED BY <2>2, <3>1, <3>2, <3>3, <3>4 DEF Step
  <2>3. CASE \A r \in Reqs : ~Step(r)
    <3>1. verdict' \in {verdict, NoVerdict}
      <4>1. CASE \E a \in Admins : Change(a) \/ Bump(a) \/ BumpFails(a)
        BY <4>1 DEF Change, Revoke, Remove, Restore, LeaveGroup, JoinGroup, Commit, Bump, BumpFails
      <4>2. CASE Replicate \/ VerdictExpires \/ VersionLost
        BY <4>2 DEF Replicate, VerdictExpires, VersionLost
      <4>3. CASE UNCHANGED vars
        BY <4>3 DEF vars
      <4> QED BY <2>3, <4>1, <4>2, <4>3 DEF Next, Change
    <3> QED BY <2>1, <2>3, <3>1, OthersKeepRequests DEF NoVerdict
  <2> QED BY <2>2, <2>3
<1> QED BY <1>1, <1>2

-----------------------------------------------------------------------------
(* What may stand *)

\* What is no request's step drops the cached verdict at most.
LEMMA VerdictsPassedOn ==
  ASSUME [Next]_vars, \A r \in Reqs : ~Step(r)
  PROVE  verdict' \in {verdict, NoVerdict}
<1> USE DEF dbVars, redisVars, reqVars, history
<1>1. CASE \E a \in Admins : Change(a) \/ Bump(a) \/ BumpFails(a)
  BY <1>1 DEF Change, Revoke, Remove, Restore, LeaveGroup, JoinGroup, Commit, Bump, BumpFails
<1>2. CASE Replicate \/ VerdictExpires \/ VersionLost
  BY <1>2 DEF Replicate, VerdictExpires, VersionLost
<1>3. CASE UNCHANGED vars
  BY <1>3 DEF vars
<1> QED BY <1>1, <1>2, <1>3 DEF Next, Change

\* Steps that are no request's make no verdict.
LEMMA OthersStamps ==
  ASSUME [Next]_vars, \A r \in Reqs : ~Step(r), NEW kind \in {"allow", "orgDeny"}, NEW reason
  PROVE  Stamps(kind, reason)' \subseteq Stamps(kind, reason)
<1>1. verdict' \in {verdict, NoVerdict}
  BY VerdictsPassedOn
<1>2. UNCHANGED <<pc, got, seen, usable, stamp, deny>>
  BY OthersKeepRequests DEF reqVars
<1> QED BY <1>1, <1>2 DEF Stamps, Filling, NoVerdict

\* A request makes a verdict of its own only by reading Postgres.
LEMMA StepStamps ==
  ASSUME TypeOK, NEW r \in Reqs, Step(r), ~ReadMarkers(r), ~ReadMembership(r),
         NEW kind, NEW reason, <<kind, reason>> \in {<<"allow", "none">>, <<"orgDeny", "org">>}
  PROVE  Stamps(kind, reason)' \subseteq Stamps(kind, reason)
<1> USE DEF dbVars, redisVars, reqVars, history, Goto
<1>0. /\ pc \in [Reqs -> {"idle", "reading", "seed", "readback", "markers", "membership", "write",
                          "allowed", "denied"}]
      /\ seen \in [Reqs -> Verdicts] /\ stamp \in [Reqs -> Nat]
      /\ deny \in [Reqs -> {"none", "perm", "org"}]
      /\ got \in [Reqs -> {"none", "version", "verdict"}]
  BY DEF TypeOK
<1>1. CASE Begin(r) \/ Return(r)
  BY <1>0, <1>1 DEF Begin, Return, Stamps, Filling
<1>2. CASE ReadVersion(r)
  BY <1>0, <1>2 DEF ReadVersion, Judge, Stamps, Filling, NoVerdict
<1>3. CASE ReadVerdict(r)
  BY <1>0, <1>3 DEF ReadVerdict, Judge, Stamps, Filling, NoVerdict
<1>4. CASE Seed(r) \/ ReadBack(r) \/ CacheDown(r)
  BY <1>0, <1>4 DEF Seed, ReadBack, CacheDown, Stamps, Filling, NoVerdict
<1>5. CASE Write(r)
  <2>1. \A q \in Reqs : Filling(q, reason)' => q # r /\ Filling(q, reason) /\ stamp'[q] = stamp[q]
    BY <1>0, <1>5 DEF Write, Drop, Outcome, Filling
  <2>2. verdict'.kind = kind =>
          verdict' = verdict \/ (Filling(r, reason) /\ verdict'.v = stamp[r])
    BY <1>0, <1>5 DEF Write, Filled, Filling
  <2>3. seen' = seen
    BY <1>5 DEF Write
  <2> QED BY <2>1, <2>2, <2>3 DEF Stamps
<1>6. CASE WriteFails(r)
  BY <1>0, <1>6 DEF WriteFails, Drop, Outcome, Stamps, Filling
<1> QED BY <1>1, <1>2, <1>3, <1>4, <1>5, <1>6 DEF Step

\* Only a bump settles, and only a bump reopens.
LEMMA SettledMoves ==
  ASSUME [Next]_vars, \A a \in Admins : ~Bump(a)
  PROVE  settled' \subseteq settled
<1> USE DEF dbVars, redisVars, reqVars, history
<1>1. CASE \E r \in Reqs : Step(r)
  BY <1>1 DEF Step, Begin, ReadVersion, ReadVerdict, Seed, ReadBack, CacheDown, ReadMarkers,
    ReadMembership, Write, WriteFails, Return
<1>2. CASE \E a \in Admins : Change(a) \/ BumpFails(a)
  BY <1>2 DEF Change, Revoke, Remove, Restore, LeaveGroup, JoinGroup, Commit, BumpFails
<1>3. CASE Replicate \/ VerdictExpires \/ VersionLost
  BY <1>3 DEF Replicate, VerdictExpires, VersionLost
<1>4. CASE UNCHANGED vars
  BY <1>4 DEF vars
<1> QED BY <1>1, <1>2, <1>3, <1>4 DEF Next, Change

LEMMA ReopenedMoves ==
  ASSUME [Next]_vars, \A a \in Admins : ~Bump(a), ~reopened
  PROVE  ~reopened'
<1> USE DEF dbVars, redisVars, reqVars, history
<1>1. CASE \E r \in Reqs : Step(r)
  BY <1>1 DEF Step, Begin, ReadVersion, ReadVerdict, Seed, ReadBack, CacheDown, ReadMarkers,
    ReadMembership, Write, WriteFails, Return
<1>2. CASE \E a \in Admins : Change(a) \/ BumpFails(a)
  BY <1>2 DEF Change, Revoke, Remove, Restore, LeaveGroup, JoinGroup, Commit, BumpFails
<1>3. CASE Replicate \/ VerdictExpires \/ VersionLost
  BY <1>3 DEF Replicate, VerdictExpires, VersionLost
<1>4. CASE UNCHANGED vars
  BY <1>4 DEF vars
<1> QED BY <1>1, <1>2, <1>3, <1>4 DEF Next, Change

\* Access that goes on being open is not touched.
LEMMA OpenUntouched ==
  ASSUME [Next]_vars, \A a \in Admins : ~Bump(a), reopened'
  PROVE  UNCHANGED <<marks, members>>
<1> USE DEF dbVars, redisVars, reqVars, history
<1>1. CASE \E r \in Reqs : Step(r)
  BY <1>1 DEF Step, Begin, ReadVersion, ReadVerdict, Seed, ReadBack, CacheDown, ReadMarkers,
    ReadMembership, Write, WriteFails, Return
<1>2. CASE \E a \in Admins : Change(a)
  BY <1>2 DEF Change, Revoke, Remove, Restore, LeaveGroup, JoinGroup, Commit
<1>3. CASE \E a \in Admins : BumpFails(a)
  BY <1>3 DEF BumpFails
<1>4. CASE Replicate \/ VerdictExpires \/ VersionLost
  BY <1>4 DEF Replicate, VerdictExpires, VersionLost
<1>5. CASE UNCHANGED vars
  BY <1>5 DEF vars
<1> QED BY <1>1, <1>2, <1>3, <1>4, <1>5 DEF Next, Change

\* A request that has begun while access was open goes on so until a commit.
LEMMA OpenMoves ==
  ASSUME TypeOK, OpenSeen, [Next]_vars, NEW r \in Reqs, open'[r]
  PROVE  /\ open[r] \/ Begin(r)
         /\ reopened /\ reopened'
         /\ replica = Len(members) /\ UNCHANGED <<marks, members, replica>>
<1> USE DEF dbVars, redisVars, reqVars, history
<1>0. open \in [Reqs -> BOOLEAN]
  BY DEF TypeOK
<1>1. ASSUME NEW q \in Reqs, Step(q)
      PROVE  /\ open[r] \/ Begin(r)
             /\ reopened /\ reopened'
             /\ replica = Len(members) /\ UNCHANGED <<marks, members, replica>>
  <2>1. CASE Begin(q)
    BY <1>0, <2>1 DEF Begin, OpenSeen
  <2>2. CASE Return(q)
    BY <1>0, <2>2 DEF Return, OpenSeen
  <2>3. CASE ReadMembership(q)
    <3>1. open[r]
      BY <2>3 DEF ReadMembership
    <3>2. reopened /\ replica = Len(members)
      BY <3>1 DEF OpenSeen
    <3>3. members[replica] = Member
      BY <3>2 DEF Member
    <3>4. reopened'
      BY <2>3, <3>2, <3>3 DEF ReadMembership
    <3> QED BY <2>3, <3>1, <3>2, <3>4 DEF ReadMembership
  <2>4. CASE \/ ReadVersion(q) \/ ReadVerdict(q) \/ Seed(q) \/ ReadBack(q) \/ CacheDown(q)
            \/ ReadMarkers(q) \/ Write(q) \/ WriteFails(q)
    BY <2>4 DEF ReadVersion, ReadVerdict, Seed, ReadBack, CacheDown, ReadMarkers, Write,
      WriteFails, OpenSeen
  <2> QED BY <1>1, <2>1, <2>2, <2>3, <2>4 DEF Step
<1>2. CASE \E a \in Admins : Change(a)
  <2>1. ~open'[r]
    BY <1>2 DEF Change, Revoke, Remove, Restore, LeaveGroup, JoinGroup, Commit
  <2> QED BY <2>1
<1>3. CASE \E a \in Admins : Bump(a) \/ BumpFails(a)
  <2>1. /\ open[r] /\ UNCHANGED <<marks, members, replica>>
        /\ reopened' = reopened \/ reopened' = (reopened \/ Open)
    BY <1>3 DEF Bump, BumpFails
  <2>2. reopened /\ replica = Len(members)
    BY <2>1 DEF OpenSeen
  <2> QED BY <2>1, <2>2, Zenon
<1>4. CASE Replicate
  <2>1. open[r] /\ replica < Len(members)
    BY <1>4 DEF Replicate
  <2> QED BY <2>1 DEF OpenSeen, TypeOK
<1>5. CASE VerdictExpires \/ VersionLost
  BY <1>5 DEF VerdictExpires, VersionLost, OpenSeen
<1>6. CASE UNCHANGED vars
  BY <1>6 DEF vars, OpenSeen
<1> QED BY <1>1, <1>2, <1>3, <1>4, <1>5, <1>6 DEF Next, Change

\* While a marker covers the token nobody makes an allow.
LEMMA NoNewAllows ==
  ASSUME TypeOK, ReadsUnderWay, [Next]_vars, marks # {}
  PROVE  Allows' \subseteq Allows
<1> USE DEF dbVars, redisVars, reqVars, history, Goto
<1>0. /\ pc \in [Reqs -> {"idle", "reading", "seed", "readback", "markers", "membership", "write",
                          "allowed", "denied"}]
      /\ deny \in [Reqs -> {"none", "perm", "org"}]
      /\ marks \in SUBSET {"perm", "org"}
  BY DEF TypeOK, Marks
<1>1. ASSUME NEW r \in Reqs, Step(r)
      PROVE  Allows' \subseteq Allows
  <2>1. CASE ReadMarkers(r)
    BY <1>0, <2>1 DEF ReadMarkers, Allows, Stamps, Filling
  <2>2. CASE ReadMembership(r)
    <3>1. \A q \in Reqs : Filling(q, "none")' => Filling(q, "none")
      BY <1>0, <2>2 DEF ReadMembership, Filling, ReadsUnderWay
    <3> QED BY <1>0, <2>2, <3>1 DEF ReadMembership, Allows, Stamps, Filling
  <2>3. CASE ~ReadMarkers(r) /\ ~ReadMembership(r)
    BY <1>1, <2>3, StepStamps DEF Allows
  <2> QED BY <2>1, <2>2, <2>3
<1>2. CASE \A r \in Reqs : ~Step(r)
  BY <1>2, OthersStamps DEF Allows
<1> QED BY <1>1, <1>2

\* While access is open and found open nobody makes a membership deny.
LEMMA NoNewOrgDenies ==
  ASSUME TypeOK, OpenSeen, [Next]_vars, reopened, reopened'
  PROVE  OrgDenies' \subseteq OrgDenies
<1> USE DEF dbVars, redisVars, reqVars, history, Goto
<1>0. /\ pc \in [Reqs -> {"idle", "reading", "seed", "readback", "markers", "membership", "write",
                          "allowed", "denied"}]
      /\ deny \in [Reqs -> {"none", "perm", "org"}]
  BY DEF TypeOK
<1>1. marks = {} /\ Member
  BY DEF OpenSeen, Open
<1>2. ASSUME NEW r \in Reqs, Step(r)
      PROVE  OrgDenies' \subseteq OrgDenies
  <2>1. CASE ReadMarkers(r)
    BY <1>0, <1>1, <2>1 DEF ReadMarkers, OrgDenies, Stamps, Filling
  <2>2. CASE ReadMembership(r)
    <3>1. members[replica]
      BY <1>1, <2>2 DEF ReadMembership
    <3>2. \A q \in Reqs : Filling(q, "org")' => Filling(q, "org")
      BY <1>0, <2>2, <3>1 DEF ReadMembership, Filling
    <3> QED BY <2>2, <3>2 DEF ReadMembership, OrgDenies, Stamps
  <2>3. CASE ~ReadMarkers(r) /\ ~ReadMembership(r)
    BY <1>2, <2>3, StepStamps DEF OrgDenies
  <2> QED BY <2>1, <2>2, <2>3
<1>3. CASE \A r \in Reqs : ~Step(r)
  BY <1>3, OthersStamps DEF OrgDenies
<1> QED BY <1>2, <1>3

\* A request that has read the version alone has just read it, or had.
LEMMA VersionRead ==
  ASSUME TypeOK, ReadsUnderWay, [Next]_vars, NEW r \in Reqs, got'[r] = "version"
  PROVE  /\ ~Begin(r)
         /\ stamp'[r] = version \/ (got[r] = "version" /\ stamp'[r] = stamp[r])
         /\ UNCHANGED verdict \/ got[r] = "version"
<1> USE DEF dbVars, redisVars, reqVars, history, Goto
<1>0. /\ got \in [Reqs -> {"none", "version", "verdict"}] /\ stamp \in [Reqs -> Nat]
      /\ got[r] = "version" => pc[r] = "reading"
  BY DEF TypeOK, ReadsUnderWay
<1>1. ASSUME NEW q \in Reqs, Step(q)
      PROVE  /\ ~Begin(r)
             /\ stamp'[r] = version \/ (got[r] = "version" /\ stamp'[r] = stamp[r])
             /\ UNCHANGED verdict \/ got[r] = "version"
  <2>1. CASE ReadVersion(q)
    BY <1>0, <2>1 DEF ReadVersion, Judge, Begin
  <2>2. CASE ReadVerdict(q)
    BY <1>0, <2>2 DEF ReadVerdict, Judge, Begin
  <2>3. CASE Begin(q) \/ Seed(q) \/ ReadBack(q) \/ CacheDown(q)
    BY <1>0, <2>3 DEF Begin, Seed, ReadBack, CacheDown
  <2>4. CASE ReadMarkers(q) \/ ReadMembership(q)
    BY <1>0, <2>4 DEF ReadMarkers, ReadMembership, Begin
  <2>5. CASE Write(q) \/ WriteFails(q) \/ Return(q)
    BY <1>0, <2>5 DEF Write, WriteFails, Drop, Return, Begin
  <2> QED BY <1>1, <2>1, <2>2, <2>3, <2>4, <2>5 DEF Step
<1>2. CASE \A q \in Reqs : ~Step(q)
  <2>1. got[r] = "version" /\ stamp'[r] = stamp[r]
    BY <1>2, OthersKeepRequests
  <2> QED BY <1>2, <2>1 DEF Step
<1> QED BY <1>1, <1>2

LEMMA NextAllowsOld ==
  ASSUME TypeOK, StampsBounded, ReadsUnderWay, RevokedMarked, AllowsOld, [Next]_vars,
         RevokedMarked'
  PROVE  AllowsOld'
<1>1. ASSUME settled # {}
      PROVE  Allows' \subseteq Allows /\ \A s \in Allows : Old(s) /\ Old(s)'
  <2>1. marks # {}
    BY <1>1 DEF RevokedMarked
  <2>2. \A s \in Allows : Old(s) /\ s \in Nat
    BY <1>1 DEF AllowsOld, Allows, Stamps
  <2> QED BY <2>1, <2>2, NoNewAllows, OldStays
<1>2. ASSUME settled' # {}, NEW s \in Allows'
      PROVE  Old(s)'
  <2>1. CASE settled # {}
    BY <1>1, <1>2, <2>1
  <2>2. CASE \E a \in Admins : Bump(a)
    <3>1. Past(s)
      <4>1. Past(verdict.v) /\ \A r \in Reqs : Past(seen[r].v) /\ Past(stamp[r])
        BY StampsPast
      <4>2. s \in Allows
        BY <1>2, <2>2 DEF Bump, Allows, Stamps, Filling, reqVars
      <4> QED BY <4>1, <4>2 DEF Allows, Stamps
    <3> QED BY <2>2, <3>1, BumpMakesOld
  <2>3. CASE settled = {} /\ \A a \in Admins : ~Bump(a)
    <3>1. settled' = {}
      BY <2>3, SettledMoves
    <3> QED BY <1>2, <3>1
  <2> QED BY <2>1, <2>2, <2>3
<1>3. ASSUME NEW r \in Reqs, due'[r] # {}, got'[r] = "version", NEW s \in Allows'
      PROVE  s < stamp'[r] \/ stamp'[r] = 0
  <2>1. due[r] # {} /\ settled # {}
    BY <1>3, DueMoves, VersionRead DEF RevokedMarked
  <2>2. s \in Allows /\ Old(s)
    BY <1>1, <1>3, <2>1
  <2>3. CASE stamp'[r] = version
    BY <2>2, <2>3 DEF Old
  <2>4. CASE got[r] = "version" /\ stamp'[r] = stamp[r]
    BY <2>1, <2>2, <2>4 DEF AllowsOld
  <2> QED BY <1>3, <2>3, <2>4, VersionRead
<1> QED BY <1>2, <1>3 DEF AllowsOld

LEMMA NextOrgDeniesOld ==
  ASSUME TypeOK, StampsBounded, ReadsUnderWay, OpenSeen, OrgDeniesOld, [Next]_vars
  PROVE  OrgDeniesOld'
<1>1. ASSUME reopened, reopened'
      PROVE  OrgDenies' \subseteq OrgDenies /\ \A s \in OrgDenies : Old(s) /\ Old(s)'
  <2>1. \A s \in OrgDenies : Old(s) /\ s \in Nat
    BY <1>1 DEF OrgDeniesOld, OrgDenies, Stamps
  <2> QED BY <1>1, <2>1, NoNewOrgDenies, OldStays
<1>2. ASSUME reopened', NEW s \in OrgDenies'
      PROVE  Old(s)'
  <2>1. CASE reopened
    BY <1>1, <1>2, <2>1
  <2>2. CASE \E a \in Admins : Bump(a)
    <3>1. Past(s)
      <4>1. Past(verdict.v) /\ \A r \in Reqs : Past(seen[r].v) /\ Past(stamp[r])
        BY StampsPast
      <4>2. s \in OrgDenies
        BY <1>2, <2>2 DEF Bump, OrgDenies, Stamps, Filling, reqVars
      <4> QED BY <4>1, <4>2 DEF OrgDenies, Stamps
    <3> QED BY <2>2, <3>1, BumpMakesOld
  <2>3. CASE ~reopened /\ \A a \in Admins : ~Bump(a)
    BY <1>2, <2>3, ReopenedMoves
  <2> QED BY <2>1, <2>2, <2>3
<1>3. ASSUME NEW r \in Reqs, open'[r], got'[r] = "version", NEW s \in OrgDenies'
      PROVE  s < stamp'[r] \/ stamp'[r] = 0
  <2>1. open[r] /\ reopened /\ reopened'
    BY <1>3, OpenMoves, VersionRead DEF OpenSeen
  <2>2. s \in OrgDenies /\ Old(s)
    BY <1>1, <1>3, <2>1
  <2>3. CASE stamp'[r] = version
    BY <2>2, <2>3 DEF Old
  <2>4. CASE got[r] = "version" /\ stamp'[r] = stamp[r]
    BY <2>1, <2>2, <2>4 DEF OrgDeniesOld
  <2> QED BY <1>3, <2>3, <2>4, VersionRead
<1> QED BY <1>2, <1>3 DEF OrgDeniesOld

LEMMA NextOpenSeen ==
  ASSUME TypeOK, ReadsUnderWay, OpenSeen, DeniesMarked, [Next]_vars
  PROVE  OpenSeen'
<1> USE DEF dbVars, redisVars, reqVars, history, Goto
<1>0. /\ pc \in [Reqs -> {"idle", "reading", "seed", "readback", "markers", "membership", "write",
                          "allowed", "denied"}]
      /\ deny \in [Reqs -> {"none", "perm", "org"}]
  BY DEF TypeOK
<1>1. ASSUME reopened'
      PROVE  Open'
  <2>1. CASE \E a \in Admins : Bump(a)
    <3>1. UNCHANGED <<marks, members>> /\ reopened' = (reopened \/ Open)
      BY <2>1 DEF Bump
    <3>2. Open
      <4>1. reopened => Open
        BY DEF OpenSeen
      <4> QED BY <1>1, <3>1, <4>1, Zenon
    <3> QED BY <3>1, <3>2 DEF Open, Member
  <2>2. CASE \A a \in Admins : ~Bump(a)
    <3>1. reopened /\ Open
      BY <1>1, <2>2, ReopenedMoves DEF OpenSeen
    <3>2. UNCHANGED <<marks, members>>
      BY <1>1, <2>2, OpenUntouched
    <3> QED BY <3>1, <3>2 DEF Open, Member
  <2> QED BY <2>1, <2>2
<1>2. ASSUME NEW q \in Reqs, open'[q]
      PROVE  pc'[q] = "write" => deny'[q] = "none"
  <2>1. /\ open[q] \/ Begin(q)
        /\ reopened /\ replica = Len(members)
    BY <1>2, OpenMoves
  <2>2. marks = {} /\ members[replica]
    BY <2>1 DEF OpenSeen, Open, Member
  <2>3. CASE Begin(q)
    BY <1>0, <2>3 DEF Begin
  <2>4. CASE open[q] /\ ~Begin(q)
    <3>1. pc[q] = "write" => deny[q] = "none"
      BY <2>4 DEF OpenSeen
    <3>2. ASSUME NEW r \in Reqs, Step(r)
          PROVE  pc'[q] = "write" => deny'[q] = "none"
      <4>1. CASE ReadVersion(r) \/ ReadVerdict(r)
        BY <1>0, <3>1, <4>1 DEF ReadVersion, ReadVerdict, Judge
      <4>2. CASE Begin(r) \/ Seed(r) \/ ReadBack(r) \/ CacheDown(r)
        BY <1>0, <3>1, <4>2 DEF Begin, Seed, ReadBack, CacheDown
      <4>3. CASE ReadMarkers(r)
        BY <1>0, <2>2, <3>1, <4>3 DEF ReadMarkers
      <4>4. CASE ReadMembership(r)
        BY <1>0, <2>2, <3>1, <4>4 DEF ReadMembership
      <4>5. CASE Write(r) \/ WriteFails(r) \/ Return(r)
        BY <1>0, <3>1, <4>5 DEF Write, WriteFails, Drop, Return, Outcome
      <4> QED BY <3>2, <4>1, <4>2, <4>3, <4>4, <4>5 DEF Step
    <3> QED BY <3>1, <3>2, OthersKeepRequests
  <2> QED BY <2>1, <2>3, <2>4
<1>3. ASSUME NEW q \in Reqs, open'[q]
      PROVE  reopened' /\ replica' = Len(members')
  BY <1>3, OpenMoves
<1> QED BY <1>1, <1>2, <1>3 DEF OpenSeen

\* A cached verdict that stands is one about the access as it is.
LEMMA JudgedWell ==
  ASSUME IInv, NEW r \in Reqs, NEW d \in Verdicts, NEW v \in Nat, Judge(r, d, v),
         due[r] # {} /\ d.kind = "allow" => v = 0 \/ d.v # v,
         open[r] /\ d.kind = "orgDeny" => v = 0 \/ d.v # v,
         open[r] => d.kind # "deny"
  PROVE  /\ due[r] # {} => pc'[r] # "allowed"
         /\ open[r] => pc'[r] # "denied"
<1>1. pc'[r] = IF DenyStands(d, v) THEN "denied"
               ELSE IF DenyStands(d, v) \/ AllowStands(d, v) THEN "allowed"
               ELSE IF v = 0 THEN "seed" ELSE "markers"
  BY DEF Judge, Goto, IInv, TypeOK
<1> QED BY <1>1 DEF DenyStands, AllowStands

LEMMA JudgedRightly ==
  ASSUME IInv, NEW r \in Reqs, ReadVersion(r) \/ ReadVerdict(r)
  PROVE  /\ due[r] # {} => pc'[r] # "allowed"
         /\ open[r] => pc'[r] # "denied"
<1>0. /\ \A q \in Reqs : seen[q] \in Verdicts /\ stamp[q] \in Nat
      /\ verdict \in Verdicts /\ version \in Nat
      /\ \A d \in Verdicts : d.v \in Nat
  BY DEF IInv, TypeOK, Verdicts
<1>1. open[r] => verdict.kind # "deny" /\ seen[r].kind # "deny"
  BY DEF IInv, OpenSeen, Open, DeniesMarked
<1>2. due[r] # {} => settled # {}
  BY DEF IInv, RevokedMarked
<1>3. open[r] => reopened
  BY DEF IInv, OpenSeen
<1>4. CASE pc[r] = "reading" /\ got[r] = "verdict" /\ Judge(r, seen[r], version)
  <2>1. seen[r].kind = "allow" => seen[r].v \in Allows
    BY <1>0 DEF Allows, Stamps
  <2>2. seen[r].kind = "orgDeny" => seen[r].v \in OrgDenies
    BY <1>0 DEF OrgDenies, Stamps
  <2>3. due[r] # {} /\ seen[r].kind = "allow" => version = 0 \/ seen[r].v # version
    BY <1>0, <1>2, <2>1 DEF IInv, AllowsOld, Old
  <2>4. open[r] /\ seen[r].kind = "orgDeny" => version = 0 \/ seen[r].v # version
    BY <1>0, <1>3, <2>2 DEF IInv, OrgDeniesOld, Old
  <2> QED BY <1>0, <1>1, <1>4, <2>3, <2>4, JudgedWell
<1>5. CASE got[r] = "version" /\ Judge(r, verdict, stamp[r])
  <2>1. verdict.kind = "allow" => verdict.v \in Allows
    BY <1>0 DEF Allows, Stamps
  <2>2. verdict.kind = "orgDeny" => verdict.v \in OrgDenies
    BY <1>0 DEF OrgDenies, Stamps
  <2>3. due[r] # {} /\ verdict.kind = "allow" => stamp[r] = 0 \/ verdict.v # stamp[r]
    BY <1>0, <1>5, <2>1 DEF IInv, AllowsOld
  <2>4. open[r] /\ verdict.kind = "orgDeny" => stamp[r] = 0 \/ verdict.v # stamp[r]
    BY <1>0, <1>5, <2>2 DEF IInv, OrgDeniesOld
  <2> QED BY <1>0, <1>1, <1>5, <2>3, <2>4, JudgedWell
<1>6. CASE UNCHANGED pc
  BY <1>6 DEF IInv, RevokedIsDenied, ReopenedIsAllowed
<1> QED BY <1>4, <1>5, <1>6 DEF ReadVersion, ReadVerdict

LEMMA NextAnswersRight ==
  ASSUME IInv, [Next]_vars
  PROVE  RevokedIsDenied' /\ ReopenedIsAllowed'
<1> USE DEF dbVars, redisVars, reqVars, history, Goto
<1>0. /\ pc \in [Reqs -> {"idle", "reading", "seed", "readback", "markers", "membership", "write",
                          "allowed", "denied"}]
      /\ TypeOK /\ OpenSeen
  BY DEF IInv, TypeOK
<1> SUFFICES ASSUME NEW q \in Reqs
             PROVE  /\ due'[q] # {} => pc'[q] # "allowed"
                    /\ open'[q] => pc'[q] # "denied"
  BY DEF RevokedIsDenied, ReopenedIsAllowed
<1>1. CASE Begin(q)
  BY <1>0, <1>1 DEF Begin
<1>2. CASE ~Begin(q)
  <2>1. (due'[q] # {} => due[q] # {}) /\ (open'[q] => open[q])
    BY <1>0, <1>2, DueMoves, OpenMoves
  <2>2. ASSUME NEW r \in Reqs, Step(r)
        PROVE  /\ due[q] # {} => pc'[q] # "allowed"
               /\ open[q] => pc'[q] # "denied"
    <3>1. CASE r # q
      <4>1. pc'[q] = pc[q]
        BY <1>0, <2>2, <3>1 DEF Step, Begin, ReadVersion, ReadVerdict, Judge, Seed, ReadBack, CacheDown,
          ReadMarkers, ReadMembership, Write, WriteFails, Return
      <4> QED BY <4>1 DEF IInv, RevokedIsDenied, ReopenedIsAllowed
    <3>2. CASE ReadVersion(q) \/ ReadVerdict(q)
      BY <3>2, JudgedRightly
    <3>3. CASE Seed(q) \/ ReadBack(q) \/ CacheDown(q) \/ ReadMarkers(q) \/ ReadMembership(q) \/ Return(q)
      BY <1>0, <3>3 DEF Seed, ReadBack, CacheDown, ReadMarkers, ReadMembership, Return
    <3>4. CASE Write(q) \/ WriteFails(q)
      <4>1. pc[q] = "write" /\ pc'[q] = Outcome(q)
        BY <1>0, <3>4 DEF Write, WriteFails
      <4>2. due[q] # {} => deny[q] # "none"
        BY <4>1 DEF IInv, DueDenied
      <4>3. open[q] => deny[q] = "none"
        BY <4>1 DEF IInv, OpenSeen
      <4> QED BY <4>1, <4>2, <4>3 DEF Outcome
    <3> QED BY <1>2, <2>2, <3>1, <3>2, <3>3, <3>4 DEF Step
  <2>3. CASE \A r \in Reqs : ~Step(r)
    <3>1. pc' = pc
      BY <2>3, OthersKeepRequests
    <3> QED BY <2>1, <3>1 DEF IInv, RevokedIsDenied, ReopenedIsAllowed
  <2> QED BY <2>1, <2>2, <2>3
<1> QED BY <1>1, <1>2

LEMMA NextIInv == IInv /\ [Next]_vars => IInv'
<1> SUFFICES ASSUME IInv, [Next]_vars PROVE IInv'
  OBVIOUS
<1>1. TypeOK /\ RevokedMarked /\ TypeOK' /\ RevokedMarked'
  BY NextTypeOK, NextRevokedMarked DEF IInv
<1>2. StampsBounded' /\ ReadsUnderWay' /\ AllowsOld' /\ OrgDeniesOld'
  BY <1>1, NextStampsBounded, NextReadsUnderWay, NextAllowsOld, NextOrgDeniesOld DEF IInv
<1>3. DueDenied' /\ DeniesMarked' /\ OpenSeen'
  BY <1>1, NextDueDenied, NextDeniesMarked, NextOpenSeen DEF IInv
<1> QED BY <1>1, <1>2, <1>3, NextAnswersRight DEF IInv

-----------------------------------------------------------------------------
(* Theorems *)

LEMMA Invariance == Spec => []IInv
  BY InitIInv, NextIInv, PTL DEF Spec

\* Every variable keeps its type; no version is ahead of the clock that seeds it.
THEOREM Typing == Spec => []TypeOK
  BY Invariance, PTL DEF IInv

\* No request that begins after a revocation's bump is allowed
\* (assertTokenIsNotRevoked, identity-access-token-service.ts:179-316), however its
\* cache reads interleave with other requests' writes, whichever reads are behind and
\* whenever the version is lost.
THEOREM Revocation == Spec => []RevokedIsDenied
  BY Invariance, PTL DEF IInv

\* No request that begins after a restore's bump is denied, until some request has
\* read a membership the restore had already changed.
THEOREM Restoring == Spec => []ReopenedIsAllowed
  BY Invariance, PTL DEF IInv

=============================================================================
