--------------------------- MODULE IdentityRevocation ---------------------------
(***************************************************************************)
(* Is a machine identity's access token still good?                        *)
(* (backend/src/services/identity-access-token)                            *)
(*                                                                         *)
(* The truth is in Postgres: revocation markers, read from the primary,    *)
(* and the identity's membership of the organisation, read from a replica  *)
(* that may lag.  Redis caches one verdict per token with a TTL.  An allow *)
(* and a membership deny are stamped with the identity's revocation        *)
(* version and stand only while the version is still that; who revokes or  *)
(* restores commits first and then bumps the version, best effort.         *)
(*                                                                         *)
(* One token is modelled, so a verdict is that token's.  The marker "perm" *)
(* stands for the kinds that are never taken back (the token, identity,    *)
(* client secret and auth method markers, issued-at compared), "org" for   *)
(* the marker of a lost membership.  Markers outlive the token.            *)
(***************************************************************************)
EXTENDS Naturals, FiniteSets, Sequences

CONSTANTS
  Reqs,      \* requests that present the token, or renew it
  Admins,    \* calls that revoke or restore
  MaxOps,    \* bound: commits of those calls
  MaxFaults  \* bound: failing calls, and losses of the version key

ASSUME RevocationAssumption ==
  /\ IsFiniteSet(Reqs)
  /\ IsFiniteSet(Admins)
  /\ MaxOps \in Nat
  /\ MaxFaults \in Nat

VARIABLES
  marks,    \* Postgres primary: active markers that cover the token
  members,  \* Postgres: successive values of "the identity is an active member"
  replica,  \* Postgres replica: how many of them it has applied
  version,  \* Redis: the identity's revocation version, 0 when missing
  verdict,  \* Redis: the token's cached verdict
  clock,    \* Date.now(): ahead of every version
  pending,  \* calls that have committed and not bumped yet
  pc,       \* request: where assertTokenIsNotRevoked is
  got,      \* request: which of its two cache reads is done
  seen,     \* request: the cached verdict it read
  usable,   \* request: cacheAvailable
  stamp,    \* request: cachedVersion, then versionForStamp; 0 for null
  deny,     \* request: denyReason
  revoked,  \* history: revocations committed and not taken back
  settled,  \* history: those whose commit has been followed by a bump
  due,      \* history, request: settled when it began
  reopened, \* history: the access is open, has been bumped for, and found open ever since
  open,     \* history, request: reopened when it began, if the replica was up to date
  ops, faults

dbVars == <<marks, members, replica>>
redisVars == <<version, verdict, clock>>
reqVars == <<pc, got, seen, usable, stamp, deny>>
history == <<revoked, settled, due, reopened, open>>
vars == <<dbVars, redisVars, pending, reqVars, history, ops, faults>>

-----------------------------------------------------------------------------
(* Types *)

NoVerdict == [kind |-> "none", v |-> 0]
Verdicts == [kind : {"none", "allow", "deny", "orgDeny"}, v : Nat]
Marks == {"perm", "org"}

TypeOK ==
  /\ marks \in SUBSET Marks
  /\ members \in Seq(BOOLEAN)
  /\ replica \in 1 .. Len(members)
  /\ version \in 0 .. clock
  /\ verdict \in Verdicts
  /\ clock \in Nat \ {0}
  /\ pending \in SUBSET Admins
  /\ pc \in [Reqs -> {"idle", "reading", "seed", "readback", "markers", "membership",
                      "write", "allowed", "denied"}]
  /\ got \in [Reqs -> {"none", "version", "verdict"}]
  /\ seen \in [Reqs -> Verdicts]
  /\ usable \in [Reqs -> BOOLEAN]
  /\ stamp \in [Reqs -> Nat]
  /\ deny \in [Reqs -> {"none", "perm", "org"}]
  /\ revoked \in SUBSET Marks
  /\ settled \in SUBSET Marks
  /\ due \in [Reqs -> SUBSET Marks]
  /\ reopened \in BOOLEAN
  /\ open \in [Reqs -> BOOLEAN]
  /\ ops \in 0 .. MaxOps
  /\ faults \in 0 .. MaxFaults

\* The token has been issued; nothing is cached.
Init ==
  /\ marks = {}
  /\ members = <<TRUE>>
  /\ replica = 1
  /\ version = 0
  /\ verdict = NoVerdict
  /\ clock = 1
  /\ pending = {}
  /\ pc = [r \in Reqs |-> "idle"]
  /\ got = [r \in Reqs |-> "none"]
  /\ seen = [r \in Reqs |-> NoVerdict]
  /\ usable = [r \in Reqs |-> TRUE]
  /\ stamp = [r \in Reqs |-> 0]
  /\ deny = [r \in Reqs |-> "none"]
  /\ revoked = {}
  /\ settled = {}
  /\ due = [r \in Reqs |-> {}]
  /\ reopened = TRUE
  /\ open = [r \in Reqs |-> FALSE]
  /\ ops = 0
  /\ faults = 0

-----------------------------------------------------------------------------
(* Helpers *)

Fault == faults < MaxFaults /\ faults' = faults + 1

Member == members[Len(members)]

\* A token may be used: no marker covers it and its identity is a member.
Open == marks = {} /\ Member

\* The request goes on from one await to the next.
Goto(r, from, to) == pc[r] = from /\ pc' = [pc EXCEPT ![r] = to]

\* An allow stands while its stamp is the live version.
AllowStands(d, v) == d.kind = "allow" /\ v # 0 /\ d.v = v

\* Seeded fault: a membership deny stands as long as it is cached.
DenyStandsUnstamped(d, v) == d.kind \in {"deny", "orgDeny"}

\* A revocation's deny stands as long as it is cached, a membership's while its
\* stamp is the live version.
DenyStands(d, v) == d.kind = "deny" \/ (d.kind = "orgDeny" /\ v # 0 /\ d.v = v)

\* What a request caches; a verdict that needs a stamp and has none is not cached.
Filled(r) ==
  IF deny[r] = "perm" THEN [kind |-> "deny", v |-> 0]
  ELSE IF stamp[r] = 0 THEN verdict
  ELSE [kind |-> IF deny[r] = "org" THEN "orgDeny" ELSE "allow", v |-> stamp[r]]

Outcome(r) == IF deny[r] = "none" THEN "allowed" ELSE "denied"

-----------------------------------------------------------------------------
(* A request: assertTokenIsNotRevoked *)

Begin(r) ==
  /\ Goto(r, "idle", "reading")
  /\ due' = [due EXCEPT ![r] = settled]
  /\ open' = [open EXCEPT ![r] = reopened /\ replica = Len(members)]
  /\ UNCHANGED <<dbVars, redisVars, pending, got, seen, usable, stamp, deny, revoked,
                 settled, reopened, ops, faults>>

\* With both reads done, a cached verdict that stands is the answer; otherwise
\* Postgres is asked, under the version just read.
Judge(r, d, v) ==
  LET stands == DenyStands(d, v) \/ AllowStands(d, v) IN
  /\ Goto(r, "reading", IF DenyStands(d, v) THEN "denied" ELSE IF stands THEN "allowed"
                        ELSE IF v = 0 THEN "seed" ELSE "markers")
  /\ got' = [got EXCEPT ![r] = "none"]
  /\ seen' = [seen EXCEPT ![r] = NoVerdict]
  /\ stamp' = [stamp EXCEPT ![r] = IF stands THEN 0 ELSE v]

\* getItemPrimary: the version is never read from a replica.
ReadVersion(r) ==
  /\ pc[r] = "reading"
  /\ \/ /\ got[r] = "none"
        /\ got' = [got EXCEPT ![r] = "version"]
        /\ stamp' = [stamp EXCEPT ![r] = version]
        /\ UNCHANGED <<pc, seen>>
     \/ got[r] = "verdict" /\ Judge(r, seen[r], version)
  /\ UNCHANGED <<dbVars, redisVars, pending, usable, deny, history, ops, faults>>

\* getItem: the verdict comes from the primary or a replica that may be behind,
\* which is a read that took place before the request began.
ReadVerdict(r) ==
  /\ \/ /\ pc[r] \in {"idle", "reading"} /\ got[r] = "none"
        /\ got' = [got EXCEPT ![r] = "verdict"]
        /\ seen' = [seen EXCEPT ![r] = verdict]
        /\ UNCHANGED <<pc, stamp>>
     \/ got[r] = "version" /\ Judge(r, verdict, stamp[r])
  /\ UNCHANGED <<dbVars, redisVars, pending, usable, deny, history, ops, faults>>

\* getOrSeedRevocationVersion: its first read changes nothing the SET NX does not.
Seed(r) ==
  /\ Goto(r, "seed", "readback")
  /\ version' = IF version = 0 THEN clock ELSE version
  /\ UNCHANGED <<dbVars, verdict, clock, pending, got, seen, usable, stamp, deny,
                 history, ops, faults>>

ReadBack(r) ==
  /\ Goto(r, "readback", "markers")
  /\ stamp' = [stamp EXCEPT ![r] = version]
  /\ UNCHANGED <<dbVars, redisVars, pending, got, seen, usable, deny, history,
                 ops, faults>>

\* Redis does not answer, from here on: the request goes on without the cache.
CacheDown(r) ==
  /\ \E from \in {"reading", "seed", "readback"} : Goto(r, from, "markers")
  /\ usable' = [usable EXCEPT ![r] = FALSE]
  /\ got' = [got EXCEPT ![r] = "none"]
  /\ seen' = [seen EXCEPT ![r] = NoVerdict]
  /\ stamp' = [stamp EXCEPT ![r] = 0]
  /\ Fault
  /\ UNCHANGED <<dbVars, redisVars, pending, deny, history, ops>>

\* findActiveRevocationsForToken and evaluateRevocationMarkers: with several
\* markers the order of the rows decides which is the reason.
ReadMarkers(r) ==
  /\ Goto(r, "markers", IF marks = {} THEN "membership" ELSE "write")
  /\ \E m \in IF marks = {} THEN {"none"} ELSE marks : deny' = [deny EXCEPT ![r] = m]
  /\ UNCHANGED <<dbVars, redisVars, pending, got, seen, usable, stamp, history,
                 ops, faults>>

\* findEffectiveOrgMembership reads a replica.
ReadMembership(r) ==
  /\ Goto(r, "membership", "write")
  /\ deny' = [deny EXCEPT ![r] = IF members[replica] THEN "none" ELSE "org"]
  /\ reopened' = (reopened /\ members[replica] = Member)
  /\ UNCHANGED <<dbVars, redisVars, pending, got, seen, usable, stamp, revoked, settled,
                 due, open, ops, faults>>

\* What the request found out is of no more use.
Drop(r) ==
  /\ usable' = [usable EXCEPT ![r] = TRUE]
  /\ stamp' = [stamp EXCEPT ![r] = 0]
  /\ deny' = [deny EXCEPT ![r] = "none"]

Write(r) ==
  /\ Goto(r, "write", Outcome(r))
  /\ verdict' = IF usable[r] THEN Filled(r) ELSE verdict
  /\ Drop(r)
  /\ UNCHANGED <<dbVars, version, clock, pending, got, seen, history, ops, faults>>

WriteFails(r) ==
  /\ Goto(r, "write", Outcome(r))
  /\ usable[r]
  /\ Drop(r)
  /\ Fault
  /\ UNCHANGED <<dbVars, redisVars, pending, got, seen, history, ops>>

Return(r) ==
  /\ \E from \in {"allowed", "denied"} : Goto(r, from, "idle")
  /\ due' = [due EXCEPT ![r] = {}]
  /\ open' = [open EXCEPT ![r] = FALSE]
  /\ UNCHANGED <<dbVars, redisVars, pending, got, seen, usable, stamp, deny, revoked,
                 settled, reopened, ops, faults>>

Step(r) ==
  \/ Begin(r) \/ ReadVersion(r) \/ ReadVerdict(r) \/ Seed(r) \/ ReadBack(r)
  \/ CacheDown(r) \/ ReadMarkers(r) \/ ReadMembership(r) \/ Write(r) \/ WriteFails(r)
  \/ Return(r)

-----------------------------------------------------------------------------
(* Calls that revoke and restore *)

\* A commit: markers and membership change together; the bump is still to come.
Commit(a, newMarks, member, stillRevoked) ==
  /\ a \notin pending
  /\ ops < MaxOps
  /\ ops' = ops + 1
  /\ pending' = pending \union {a}
  /\ marks' = newMarks
  /\ members' = IF member = Member THEN members ELSE Append(members, member)
  /\ revoked' = stillRevoked
  /\ settled' = settled \intersect stillRevoked
  /\ due' = [r \in Reqs |-> due[r] \intersect stillRevoked]
  /\ reopened' = FALSE
  /\ open' = [r \in Reqs |-> FALSE]
  /\ UNCHANGED <<replica, redisVars, reqVars, faults>>

\* revokeAccessToken, markPerTokenRevocation, revokeAllTokensForIdentity,
\* revokeAllTokensForClientSecret, revokeTokensForIdentityAuthMethod
Revoke(a) == Commit(a, marks \union {"perm"}, Member, revoked \union {"perm"})

\* Seeded fault: no marker makes up for the replica.
RemoveWithoutMarker(a) == Member /\ Commit(a, marks, FALSE, revoked \union {"org"})

\* insertOrgMembershipRevocationMarker, in the transaction that removes or
\* deactivates the membership
Remove(a) == Member /\ Commit(a, marks \union {"org"}, FALSE, revoked \union {"org"})

\* removeOrgMembershipRevocationMarkers, in the transaction that adds or
\* reactivates the membership
Restore(a) == ~Member /\ Commit(a, marks \ {"org"}, TRUE, revoked \ {"org"})

\* The identity loses the group, or gets the group, that made it a member: no
\* marker is written or removed.
LeaveGroup(a) == Member /\ Commit(a, marks, FALSE, revoked)
JoinGroup(a) == ~Member /\ Commit(a, marks, TRUE, revoked)

\* Seeded fault: every bump adds the seed.
BumpedBySeed == version + 1 + clock

\* INCREMENT_SEEDED_WITH_EXPIRY: a missing version starts after the current time.
Bumped == IF version = 0 THEN clock + 1 ELSE version + 1

\* bumpRevocationVersion
Bump(a) ==
  /\ a \in pending
  /\ pending' = pending \ {a}
  /\ version' = Bumped
  /\ clock' = clock + 1
  /\ settled' = revoked
  /\ reopened' = (reopened \/ Open)
  /\ UNCHANGED <<dbVars, verdict, reqVars, revoked, due, open, ops, faults>>

\* The bump fails and is only logged, or its pod dies before it.
BumpFails(a) ==
  /\ a \in pending
  /\ pending' = pending \ {a}
  /\ Fault
  /\ UNCHANGED <<dbVars, redisVars, reqVars, history, ops>>

-----------------------------------------------------------------------------
(* Databases *)

Replicate ==
  /\ replica < Len(members)
  /\ replica' = replica + 1
  /\ UNCHANGED <<marks, members, redisVars, pending, reqVars, history, ops, faults>>

\* Seeded fault: the verdict is cached without a TTL.
VerdictExpiresNever == FALSE /\ UNCHANGED vars

VerdictExpires ==
  /\ verdict # NoVerdict
  /\ verdict' = NoVerdict
  /\ UNCHANGED <<dbVars, version, clock, pending, reqVars, history, ops, faults>>

\* The version expires after seven days without a bump, or is evicted.
VersionLost ==
  /\ version # 0
  /\ version' = 0
  /\ clock' = clock + 1
  /\ Fault
  /\ UNCHANGED <<dbVars, verdict, pending, reqVars, history, ops>>

-----------------------------------------------------------------------------

Next ==
  \/ \E r \in Reqs : Step(r)
  \/ \E a \in Admins :
       Revoke(a) \/ Remove(a) \/ Restore(a) \/ LeaveGroup(a) \/ JoinGroup(a) \/ Bump(a)
         \/ BumpFails(a)
  \/ Replicate \/ VerdictExpires \/ VersionLost

Spec == Init /\ [][Next]_vars

\* Every call of a request ends, replicas catch up and a cached verdict has a TTL
\* that a hit does not extend.  Nobody has to bump.
Fairness ==
  /\ \A r \in Reqs : WF_vars(pc[r] # "idle" /\ Step(r))
  /\ WF_vars(Replicate)
  /\ WF_vars(VerdictExpires)

FairSpec == Spec /\ Fairness

-----------------------------------------------------------------------------
(* Properties *)

\* A request that begins after a revocation's bump is not allowed, be the answer
\* cached by a request that began before it, or the replica behind
\* (identity-access-token-service.ts:135-139 and 168-172).
RevokedIsDenied == \A r \in Reqs : due[r] # {} => pc[r] # "allowed"

\* A request that begins after access was restored and the version bumped is not
\* denied, unless a request read the membership from a replica that was behind
\* the restore (identity-access-token-service.ts:174-178).
ReopenedIsAllowed == \A r \in Reqs : open[r] => pc[r] # "denied"

\* Whatever bumps are lost and replicas lag: once the token is not revoked and
\* its identity a member for good, requests stop being denied, and once it is
\* not, they stop being allowed (identity-access-token-service.ts:840-842).
VerdictsSettle ==
  /\ <>[]Open => <>[](\A r \in Reqs : pc[r] # "denied")
  /\ <>[]~Open => <>[](\A r \in Reqs : pc[r] # "allowed")

=============================================================================
