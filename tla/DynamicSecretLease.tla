--------------------------- MODULE DynamicSecretLease ---------------------------
(***************************************************************************)
(* Leases of one dynamic secret                                            *)
(* (backend/src/ee/services/dynamic-secret-lease, dynamic-secret).         *)
(*                                                                         *)
(* A lease is a credential at an external provider, a row in Postgres and  *)
(* a delayed BullMQ job that revokes it at expiry.  Requests create, renew *)
(* and revoke leases and delete the dynamic secret; none of their steps    *)
(* shares a transaction with another.  A failed revocation is retried by a *)
(* second job, and after its last attempt the project's admins get a mail. *)
(* Deleting a dynamic secret with leases queues a pruning job, deleting    *)
(* the folder it is in takes the rows and nothing else.                    *)
(*                                                                         *)
(* The provider may fail a call that took effect, and pods die.  Time is   *)
(* abstract: a delayed job may come due at any moment.  Redis and Postgres *)
(* answer, and rows are read as they are, without a replica's lag.         *)
(***************************************************************************)
EXTENDS Naturals, FiniteSets

CONSTANTS
  Leases,
  Clients,     \* requests in flight
  MaxAttempts, \* attempts of a job: 3, MAX_REVOCATION_RETRY_COUNT
  MaxRequests, \* bound: renewals, revocations and deletions requested
  MaxCrashes   \* bound: pods that die in the middle of a request or job

ASSUME LeaseAssumption ==
  /\ IsFiniteSet(Leases)
  /\ IsFiniteSet(Clients)
  /\ MaxAttempts \in Nat \ {0}
  /\ MaxRequests \in Nat
  /\ MaxCrashes \in Nat

VARIABLES
  cred,    \* lease: its credential at the provider
  row,     \* lease: its row and status
  cfg,     \* the dynamic secret and its status
  main,    \* lease: the job named after it, that revokes it at expiry
  retry,   \* lease: the job "<lease>-retry"
  mailed,  \* lease: the mail about its failed revocation is queued
  prune,   \* the pruning job
  listed,  \* leases the pruning job, or the deletion in flight, has read
  pc,      \* client: where its request is
  target,  \* client: leases its request is about
  lost,    \* history, lease: left live without a job, as a call or a pod failed
  unseen,  \* history, lease: its row was deleted before who deleted it had read it
  forced,  \* history, lease: dropped on request, whatever the provider says
  tries,   \* history, lease: revocations the retry job has failed
  requests, crashes

jobVars == <<main, retry, mailed>>
dbVars == <<row, cfg>>
pruneVars == <<prune, listed>>
clientVars == <<pc, target>>
history == <<lost, unseen, forced, tries>>
bounds == <<requests, crashes>>
vars == <<cred, dbVars, jobVars, pruneVars, clientVars, history, bounds>>

-----------------------------------------------------------------------------
(* Types *)

\* A job waits for its time, is active, or is active after the provider's answer;
\* made counts the attempts that failed.
Jobs == [at : {"none", "waiting", "active", "revoked"}, made : 0 .. MaxAttempts - 1]
NoJob == [at |-> "none", made |-> 0]
NewJob == [at |-> "waiting", made |-> 0]

TypeOK ==
  /\ cred \in [Leases -> {"none", "live", "gone"}]
  /\ row \in [Leases -> {"none", "active", "failed", "deleted"}]
  /\ cfg \in {"active", "deleting", "failed", "gone"}
  /\ main \in [Leases -> Jobs]
  /\ retry \in [Leases -> Jobs]
  /\ mailed \in [Leases -> BOOLEAN]
  /\ prune \in {"none", "queued", "listed", "unset", "revoked"}
  /\ listed \in SUBSET Leases
  /\ pc \in [Clients -> {"idle", "issue", "insert", "schedule", "extend", "unset", "set", "revoke",
                         "force", "drop", "delete", "flag", "queue", "clear", "wipe", "erase",
                         "mark", "prune"}]
  /\ target \in [Clients -> SUBSET Leases]
  /\ lost \in [Leases -> BOOLEAN]
  /\ unseen \in [Leases -> BOOLEAN]
  /\ forced \in [Leases -> BOOLEAN]
  /\ tries \in [Leases -> Nat]
  /\ requests \in 0 .. MaxRequests
  /\ crashes \in 0 .. MaxCrashes

Init ==
  /\ cred = [l \in Leases |-> "none"]
  /\ row = [l \in Leases |-> "none"]
  /\ cfg = "active"
  /\ main = [l \in Leases |-> NoJob]
  /\ retry = [l \in Leases |-> NoJob]
  /\ mailed = [l \in Leases |-> FALSE]
  /\ prune = "none"
  /\ listed = {}
  /\ pc = [c \in Clients |-> "idle"]
  /\ target = [c \in Clients |-> {}]
  /\ lost = [l \in Leases |-> FALSE]
  /\ unseen = [l \in Leases |-> FALSE]
  /\ forced = [l \in Leases |-> FALSE]
  /\ tries = [l \in Leases |-> 0]
  /\ requests = 0
  /\ crashes = 0

-----------------------------------------------------------------------------
(* Helpers *)

Ask == requests < MaxRequests /\ requests' = requests + 1 /\ UNCHANGED crashes
Crash == crashes < MaxCrashes /\ crashes' = crashes + 1 /\ UNCHANGED requests

Rows == {l \in Leases : row[l] \in {"active", "failed"}}

\* BullMQ: a job whose id exists is not added; an active one is not removed.
Added(job) == IF job.at = "none" THEN NewJob ELSE job
Removed(job) == IF job.at \in {"active", "revoked"} THEN job ELSE NoJob

\* Seeded fault: one attempt too many.
RequeuedOnceMore(job) == [at |-> "waiting", made |-> job.made + 1]

\* A job that throws waits for its next attempt or, after the last, is removed.
Requeued(job) ==
  IF job.made + 1 < MaxAttempts THEN [at |-> "waiting", made |-> job.made + 1] ELSE NoJob

\* Seeded faults: the attempt under way is not counted, or counted twice.
LastTryUncounted(job) == job.made = MaxAttempts
LastTryEarly(job) == job.made + 2 >= MaxAttempts

\* retryCount === MAX_REVOCATION_RETRY_COUNT, where retryCount is attemptsMade + 1
LastTry(job) == job.made + 1 = MaxAttempts

UnsetAll(S) == main' = [l \in Leases |-> IF l \in S THEN Removed(main[l]) ELSE main[l]]

RowsTo(S, status) == row' = [l \in Leases |-> IF l \in S \intersect Rows THEN status ELSE row[l]]

CredsGone(S) == cred' = [l \in Leases |-> IF l \in S THEN "gone" ELSE cred[l]]

\* Live credentials of S that no job will revoke from now on.
LoseIn(S) == lost' = [l \in Leases |-> lost[l] \/
  (l \in S /\ cred'[l] = "live" /\ main'[l].at = "none" /\ retry'[l].at = "none")]

\* The dynamic secret is deleted, and its leases' rows with it.
Cascade == cfg' = "gone" /\ RowsTo(Leases, "deleted")

Goto(c, from, to) == pc[c] = from /\ pc' = [pc EXCEPT ![c] = to]

Finish(c, from) == Goto(c, from, "idle") /\ target' = [target EXCEPT ![c] = {}]

-----------------------------------------------------------------------------
(* Requests: create *)

\* MAX_LEASE_LIMIT refuses nobody: countLeasesForDynamicSecret hands parseInt the row
\* it gets and not its count, which makes NaN, and no comparison with NaN holds.
Create(c, l) ==
  /\ Goto(c, "idle", "issue")
  /\ cfg # "gone"
  /\ cred[l] = "none" /\ row[l] = "none" /\ \A d \in Clients : l \notin target[d]
  /\ target' = [target EXCEPT ![c] = {l}]
  /\ UNCHANGED <<cred, dbVars, jobVars, pruneVars, history, bounds>>

\* selectedProvider.create
Issue(c) ==
  /\ Goto(c, "issue", "insert")
  /\ cred' = [l \in Leases |-> IF l \in target[c] THEN "live" ELSE cred[l]]
  /\ UNCHANGED <<dbVars, jobVars, pruneVars, target, history, bounds>>

\* The provider fails, before or after it has made the credential.
IssueFails(c) == \E S \in SUBSET target[c] :
  /\ Finish(c, "issue")
  /\ cred' = [l \in Leases |-> IF l \in S THEN "live" ELSE cred[l]]
  /\ lost' = [l \in Leases |-> lost[l] \/ l \in S]
  /\ UNCHANGED <<dbVars, jobVars, pruneVars, unseen, forced, tries, bounds>>

\* The row refers to the dynamic secret, whatever that one's status.
Insert(c) ==
  /\ cfg # "gone"
  /\ Goto(c, "insert", "schedule")
  /\ row' = [l \in Leases |-> IF l \in target[c] THEN "active" ELSE row[l]]
  /\ UNCHANGED <<cred, cfg, jobVars, pruneVars, target, history, bounds>>

InsertFails(c) ==
  /\ cfg = "gone"
  /\ Finish(c, "insert")
  /\ lost' = [l \in Leases |-> lost[l] \/ l \in target[c]]
  /\ UNCHANGED <<cred, dbVars, jobVars, pruneVars, unseen, forced, tries, bounds>>

\* setLeaseRevocation, of a new or of a renewed lease
Schedule(c) ==
  /\ \E from \in {"schedule", "set"} : Finish(c, from)
  /\ main' = [l \in Leases |-> IF l \in target[c] THEN Added(main[l]) ELSE main[l]]
  /\ UNCHANGED <<cred, dbVars, retry, mailed, pruneVars, history, bounds>>

-----------------------------------------------------------------------------
(* Requests: renew and revoke *)

Begin(c, l, to) ==
  /\ Goto(c, "idle", to)
  /\ cfg # "gone" /\ l \in Rows
  /\ target' = [target EXCEPT ![c] = {l}]
  /\ Ask
  /\ UNCHANGED <<cred, dbVars, jobVars, pruneVars, history>>

Renew(c, l) == Begin(c, l, "extend")
Revoke(c, l) == Begin(c, l, "revoke") \/ Begin(c, l, "force")

\* selectedProvider.renew
Extend(c) ==
  /\ \/ Goto(c, "extend", "unset") /\ UNCHANGED target
     \/ Finish(c, "extend")
  /\ UNCHANGED <<cred, dbVars, jobVars, pruneVars, history, bounds>>

\* Seeded fault: the job is set before the old one is unset, which removes both.
UnsetLast(c) ==
  /\ Finish(c, "unset")
  /\ UnsetAll(target[c])
  /\ UNCHANGED <<cred, dbVars, retry, mailed, pruneVars, history, bounds>>

Unset(c) ==
  /\ Goto(c, "unset", "set")
  /\ UnsetAll(target[c])
  /\ UNCHANGED <<cred, dbVars, retry, mailed, pruneVars, target, history, bounds>>

\* selectedProvider.revoke
RevokeNow(c) ==
  /\ \E from \in {"revoke", "force"} : Goto(c, from, "drop")
  /\ CredsGone(target[c])
  /\ UNCHANGED <<dbVars, jobVars, pruneVars, target, history, bounds>>

\* Seeded fault: a failure goes unnoticed whether forced or not.
AfterFailureSwallowed(from) == "drop"

\* The error is dropped when the revocation is forced.
AfterFailure(from) == IF from = "force" THEN "drop" ELSE "flag"

\* The provider fails, before or after it has revoked the credential.
RevokeNowFails(c) == \E from \in {"revoke", "force"}, S \in SUBSET target[c] :
  /\ Goto(c, from, AfterFailure(from))
  /\ CredsGone(S)
  /\ forced' = [l \in Leases |-> forced[l] \/ (from = "force" /\ l \in target[c])]
  /\ UNCHANGED <<dbVars, jobVars, pruneVars, target, lost, unseen, tries, bounds>>

Drop(c) ==
  /\ Goto(c, "drop", "delete")
  /\ UnsetAll(target[c])
  /\ UNCHANGED <<cred, dbVars, retry, mailed, pruneVars, target, history, bounds>>

DeleteRow(c) ==
  /\ Finish(c, "delete")
  /\ RowsTo(target[c], "deleted")
  /\ UNCHANGED <<cred, cfg, jobVars, pruneVars, history, bounds>>

Flag(c) ==
  /\ Goto(c, "flag", "queue")
  /\ RowsTo(target[c], "failed")
  /\ UNCHANGED <<cred, cfg, jobVars, pruneVars, target, history, bounds>>

\* queueFailedRevocation
QueueRetry(c) ==
  /\ Finish(c, "queue")
  /\ retry' = [l \in Leases |-> IF l \in target[c] THEN Added(retry[l]) ELSE retry[l]]
  /\ UNCHANGED <<cred, dbVars, main, mailed, pruneVars, history, bounds>>

-----------------------------------------------------------------------------
(* Requests: delete the dynamic secret *)

\* deleteByName reads the leases and takes one of three ways.
Delete(c) ==
  /\ \/ Goto(c, "idle", "clear")
     \/ Goto(c, "idle", IF Rows = {} THEN "erase" ELSE "mark")
  /\ cfg # "gone"
  /\ target' = [target EXCEPT ![c] = Rows]
  /\ Ask
  /\ UNCHANGED <<cred, dbVars, jobVars, pruneVars, history>>

Clear(c) ==
  /\ Goto(c, "clear", "wipe")
  /\ UnsetAll(target[c])
  /\ UNCHANGED <<cred, dbVars, retry, mailed, pruneVars, target, history, bounds>>

Wipe(c) ==
  /\ Finish(c, "wipe")
  /\ Cascade
  /\ forced' = [l \in Leases |-> forced[l] \/ l \in Rows]
  /\ UNCHANGED <<cred, jobVars, pruneVars, lost, unseen, tries, bounds>>

\* Leases created since the leases were read are deleted unseen.
Erase(c) ==
  /\ Finish(c, "erase")
  /\ Cascade
  /\ unseen' = [l \in Leases |-> unseen[l] \/ (l \in Rows /\ cred[l] = "live")]
  /\ UNCHANGED <<cred, jobVars, pruneVars, lost, forced, tries, bounds>>

Mark(c) ==
  /\ Goto(c, "mark", "prune")
  /\ cfg' = IF cfg = "gone" THEN cfg ELSE "deleting"
  /\ UNCHANGED <<cred, row, jobVars, pruneVars, target, history, bounds>>

QueuePrune(c) ==
  /\ Finish(c, "prune")
  /\ prune' = IF prune = "none" /\ cfg # "gone" THEN "queued" ELSE prune
  /\ UNCHANGED <<cred, dbVars, jobVars, listed, history, bounds>>

\* A forced deleteFolder: its foreign keys delete the dynamic secret and the rows of
\* its leases, which nobody reads.
DeleteFolder ==
  /\ cfg # "gone"
  /\ Cascade
  /\ forced' = [l \in Leases |-> forced[l] \/ l \in Rows]
  /\ Ask
  /\ UNCHANGED <<cred, jobVars, pruneVars, clientVars, lost, unseen, tries>>

\* The pod dies with the request; what it has done so far stays.
ClientCrashes(c) ==
  /\ \E from \in {"insert", "schedule", "unset", "set", "drop", "delete", "flag", "queue",
                  "clear", "wipe", "mark", "prune"} : Finish(c, from)
  /\ Crash
  /\ UNCHANGED <<cred, dbVars, jobVars, pruneVars, unseen, forced, tries>>
  /\ LoseIn(target[c])

ClientStep(c) ==
  \/ Issue(c) \/ IssueFails(c) \/ Insert(c) \/ InsertFails(c) \/ Schedule(c) \/ Extend(c)
  \/ Unset(c) \/ RevokeNow(c) \/ RevokeNowFails(c) \/ Drop(c) \/ DeleteRow(c) \/ Flag(c)
  \/ QueueRetry(c) \/ Clear(c) \/ Wipe(c) \/ Erase(c) \/ Mark(c) \/ QueuePrune(c)

-----------------------------------------------------------------------------
(* Jobs: revoke one lease *)

\* One of the lease's two jobs changes.
Job(l, isRetry) == IF isRetry THEN retry[l] ELSE main[l]

SetJob(l, isRetry, job) ==
  IF isRetry THEN retry' = [retry EXCEPT ![l] = job] /\ UNCHANGED main
             ELSE main' = [main EXCEPT ![l] = job] /\ UNCHANGED retry

\* A lease without a row needs no revocation.
JobStarts(l, isRetry) ==
  /\ Job(l, isRetry).at = "waiting"
  /\ SetJob(l, isRetry, IF l \in Rows THEN [Job(l, isRetry) EXCEPT !.at = "active"] ELSE NoJob)
  /\ UNCHANGED <<cred, dbVars, mailed, pruneVars, clientVars, history, bounds>>

JobRevokes(l, isRetry) ==
  /\ Job(l, isRetry).at = "active"
  /\ CredsGone({l})
  /\ SetJob(l, isRetry, [Job(l, isRetry) EXCEPT !.at = "revoked"])
  /\ UNCHANGED <<dbVars, mailed, pruneVars, clientVars, history, bounds>>

JobDeletes(l, isRetry) ==
  /\ Job(l, isRetry).at = "revoked"
  /\ RowsTo({l}, "deleted")
  /\ SetJob(l, isRetry, NoJob)
  /\ UNCHANGED <<cred, cfg, mailed, pruneVars, clientVars, history, bounds>>

\* The provider fails, before or after it has revoked the credential.  The first
\* failure of the scheduled job queues the retry job, whose last one gives up;
\* the job stops the scheduled job in vain when it is that job.
JobFails(l, isRetry) ==
  LET job == Job(l, isRetry) IN
  /\ job.at = "active"
  /\ \E S \in SUBSET {l} : CredsGone(S)
  /\ RowsTo({l}, "failed")
  /\ IF isRetry
     THEN /\ retry' = [retry EXCEPT ![l] = Requeued(job)]
          /\ main' = [main EXCEPT ![l] = IF LastTry(job) THEN Removed(@) ELSE @]
          /\ mailed' = [mailed EXCEPT ![l] = @ \/ LastTry(job)]
          /\ tries' = [tries EXCEPT ![l] = @ + 1]
     ELSE /\ retry' = [retry EXCEPT ![l] = Added(@)]
          /\ main' = [main EXCEPT ![l] = Requeued(job)]
          /\ UNCHANGED <<mailed, tries>>
  /\ UNCHANGED <<cfg, pruneVars, clientVars, lost, unseen, forced, bounds>>

\* The worker's pod dies.  BullMQ starts the job again, or removes it if that has
\* happened before, which is not kept.
JobStalls(l, isRetry) ==
  /\ Job(l, isRetry).at \in {"active", "revoked"}
  /\ \/ SetJob(l, isRetry, [Job(l, isRetry) EXCEPT !.at = "waiting"])
     \/ SetJob(l, isRetry, NoJob)
  /\ Crash
  /\ UNCHANGED <<cred, dbVars, mailed, pruneVars, clientVars, unseen, forced, tries>>
  /\ LoseIn({l})

JobStep(l, isRetry) ==
  JobStarts(l, isRetry) \/ JobRevokes(l, isRetry) \/ JobDeletes(l, isRetry) \/ JobFails(l, isRetry)

-----------------------------------------------------------------------------
(* Job: prune the dynamic secret *)

PruneTo(from, to) == prune = from /\ prune' = to

\* A retry after a failure finds the status changed and does nothing.
PruneStarts ==
  /\ PruneTo("queued", IF cfg # "deleting" THEN "none"
                       ELSE IF Rows = {} THEN "revoked" ELSE "listed")
  /\ listed' = IF cfg = "deleting" THEN Rows ELSE {}
  /\ UNCHANGED <<cred, dbVars, jobVars, clientVars, history, bounds>>

PruneUnsets ==
  /\ PruneTo("listed", "unset")
  /\ UnsetAll(listed)
  /\ UNCHANGED <<cred, dbVars, retry, mailed, listed, clientVars, history, bounds>>

PruneRevokes ==
  /\ PruneTo("unset", "revoked")
  /\ CredsGone(listed)
  /\ UNCHANGED <<dbVars, jobVars, listed, clientVars, history, bounds>>

\* Leases created since the leases were read are deleted unseen.
PruneDeletes ==
  /\ PruneTo("revoked", "none")
  /\ listed' = {}
  /\ Cascade
  /\ unseen' = [l \in Leases |-> unseen[l] \/ (l \in Rows \ listed /\ cred[l] = "live")]
  /\ UNCHANGED <<cred, jobVars, clientVars, lost, forced, tries, bounds>>

\* The provider fails some of the leases, whose scheduled jobs are gone by now.  How
\* many of the job's attempts are left is not kept.
PruneFails ==
  /\ \E to \in {"queued", "none"} : PruneTo("unset", to)
  /\ \E S \in SUBSET listed : CredsGone(S)
  /\ cfg' = IF cfg = "gone" THEN cfg ELSE "failed"
  /\ listed' = {}
  /\ UNCHANGED <<row, jobVars, clientVars, unseen, forced, tries, bounds>>
  /\ LoseIn(listed)

PruneStalls ==
  /\ \E from \in {"listed", "unset", "revoked"}, to \in {"queued", "none"} : PruneTo(from, to)
  /\ listed' = {}
  /\ Crash
  /\ UNCHANGED <<cred, dbVars, jobVars, clientVars, unseen, forced, tries>>
  /\ LoseIn(listed)

PruneStep == PruneStarts \/ PruneUnsets \/ PruneRevokes \/ PruneDeletes \/ PruneFails

-----------------------------------------------------------------------------

Next ==
  \/ \E c \in Clients :
       \/ \E l \in Leases : Create(c, l) \/ Renew(c, l) \/ Revoke(c, l)
       \/ Delete(c) \/ ClientStep(c) \/ ClientCrashes(c)
  \/ \E l \in Leases, isRetry \in BOOLEAN : JobStep(l, isRetry) \/ JobStalls(l, isRetry)
  \/ PruneStep \/ PruneStalls \/ DeleteFolder

Spec == Init /\ [][Next]_vars

\* A request that has begun and a job that is due go on; delays and calls to the
\* provider end.
Fairness ==
  /\ \A c \in Clients : WF_vars(ClientStep(c))
  /\ \A l \in Leases, isRetry \in BOOLEAN : WF_vars(JobStep(l, isRetry))
  /\ WF_vars(PruneStep)

FairSpec == Spec /\ Fairness

-----------------------------------------------------------------------------
(* Properties *)

\* The row of a lease, and with it the way to revoke it, is deleted only after its
\* credential is revoked, whatever fails or dies, unless the request forced it or the
\* lease was created after the leases were read for the deletion of the dynamic
\* secret (dynamic-secret-lease-service.ts:388-419).
RowOutlivesCredential ==
  \A l \in Leases : row[l] = "deleted" /\ cred[l] = "live" => forced[l] \/ unseen[l]

\* A lease has a job that will revoke it, whatever requests and jobs overlap, while
\* no request or pruning is at it, unless the admins were told, a request forced its
\* deletion, or a request, job or pruning that failed or died left it without one
\* (dynamic-secret-lease-queue.ts:73-92).
LeaseWatched == \A l \in Rows :
  \/ cred[l] = "gone" \/ main[l].at # "none" \/ retry[l].at # "none"
  \/ mailed[l] \/ forced[l] \/ lost[l]
  \/ l \in listed \/ \E c \in Clients : l \in target[c]

\* The admins are not told of a failed revocation before the retry job has had all
\* its attempts (dynamic-secret-lease-queue.ts:263-276).
MailDeserved == \A l \in Leases : mailed[l] => tries[l] >= MaxAttempts

\* A credential that was issued is revoked, or the admins are told, unless a request
\* forced its row away, nobody had read the row when it was deleted, or a request,
\* job or pruning that failed or died left it without a job
\* (dynamic-secret-lease-queue.ts:251-276).
LeaseEnds == \A l \in Leases :
  cred[l] = "live" ~> cred[l] = "gone" \/ mailed[l] \/ forced[l] \/ unseen[l] \/ lost[l]

=============================================================================
