----------------------- MODULE DynamicSecretLeaseProofs -----------------------
(***************************************************************************)
(* Safety of the leases, for any number of leases and requests, any number *)
(* of attempts of a job, and any number of crashes and failing calls.      *)
(***************************************************************************)
EXTENDS DynamicSecretLease, TLAPS

\* Nobody knows of a lease whose credential is not issued but its request.
Unissued == \A l \in Leases : cred[l] = "none" =>
  /\ row[l] = "none" /\ main[l].at = "none" /\ retry[l].at = "none" /\ l \notin listed
  /\ \A c \in Clients : l \in target[c] => pc[c] = "issue"

\* Nor of one that is not inserted.
Uninserted == \A c \in Clients : \A l \in target[c] : pc[c] \in {"issue", "insert"} =>
  /\ pc[c] = "issue" => cred[l] = "none"
  /\ row[l] = "none" /\ main[l].at = "none" /\ retry[l].at = "none" /\ l \notin listed
  /\ \A d \in Clients \ {c} : l \notin target[d]

\* What the provider has revoked without an error is gone.
RevokedGone ==
  /\ \A l \in Leases : main[l].at = "revoked" \/ retry[l].at = "revoked" => cred[l] = "gone"
  /\ prune = "revoked" => \A l \in listed : cred[l] = "gone"
  /\ \A c \in Clients : \A l \in target[c] :
       pc[c] \in {"drop", "delete"} => cred[l] = "gone" \/ forced[l]

\* The attempts of a retry job count failed revocations.
AttemptsCounted == \A l \in Leases : retry[l].made <= tries[l]

\* LeaseWatched, with no more trust in requests and pruning than they deserve: one
\* watches over a lease whose job it has removed.
Watches(l) ==
  \/ cred[l] = "gone" \/ main[l].at # "none" \/ retry[l].at # "none"
  \/ mailed[l] \/ forced[l] \/ lost[l]
  \/ prune = "unset" /\ l \in listed
  \/ \E c \in Clients : l \in target[c] /\ pc[c] \in {"schedule", "set", "wipe"}

Watched == \A l \in Rows : Watches(l)

IInv ==
  /\ TypeOK /\ Unissued /\ Uninserted /\ RevokedGone /\ AttemptsCounted
  /\ RowOutlivesCredential /\ Watched /\ MailDeserved

-----------------------------------------------------------------------------

LEMMA InitIInv == Init => IInv
<1> SUFFICES ASSUME Init PROVE IInv
  OBVIOUS
<1>1. TypeOK
  BY LeaseAssumption DEF Init, TypeOK, Jobs, NoJob
<1>2. Rows = {}
  BY DEF Init, Rows
<1> QED
  BY <1>1, <1>2 DEF Init, IInv, Unissued, Uninserted, RevokedGone, AttemptsCounted, RowOutlivesCredential,
    Watched, Watches, MailDeserved, NoJob

\* What the helpers do to one lease.
LEMMA JobHelpers ==
  ASSUME NEW job \in Jobs
  PROVE  /\ NoJob \in Jobs /\ NewJob \in Jobs
         /\ Added(job) \in Jobs /\ Added(job).at # "none"
         /\ Added(job).at \in {job.at, "waiting"} /\ Added(job).made \in {job.made, 0}
         /\ Removed(job) \in Jobs /\ Removed(job).at \in {job.at, "none"}
         /\ Removed(job).made \in {job.made, 0}
         /\ Requeued(job) \in Jobs /\ Requeued(job).at \in {"waiting", "none"}
         /\ Requeued(job).made <= job.made + 1
         /\ Requeued(job).at = "none" => LastTry(job)
         /\ LastTry(job) => job.made + 1 >= MaxAttempts
<1>1. job.made \in 0 .. MaxAttempts - 1 /\ MaxAttempts \in Nat \ {0}
  BY LeaseAssumption DEF Jobs
<1> QED BY <1>1 DEF Jobs, NoJob, NewJob, Added, Removed, Requeued, LastTry

\* The types of what a step may set.
LEMMA SetTypes ==
  ASSUME TypeOK, NEW S \in SUBSET Leases
  PROVE  /\ UnsetAll(S) => main' \in [Leases -> Jobs]
         /\ RowsTo(S, "deleted") \/ RowsTo(S, "failed") =>
              row' \in [Leases -> {"none", "active", "failed", "deleted"}]
         /\ CredsGone(S) => cred' \in [Leases -> {"none", "live", "gone"}]
         /\ LoseIn(S) => lost' \in [Leases -> BOOLEAN]
         /\ Rows \in SUBSET Leases
         /\ Cascade => cfg' \in {"active", "deleting", "failed", "gone"}
                         /\ row' \in [Leases -> {"none", "active", "failed", "deleted"}]
<1>1. UnsetAll(S) => main' \in [Leases -> Jobs]
  BY JobHelpers DEF UnsetAll, TypeOK
<1>2. LoseIn(S) => lost' \in [Leases -> BOOLEAN]
  BY Zenon DEF LoseIn
<1> QED BY <1>1, <1>2 DEF RowsTo, CredsGone, Rows, Cascade, TypeOK

-----------------------------------------------------------------------------
(* Types *)

LEMMA ClientTypeOK ==
  ASSUME TypeOK, NEW c \in Clients, ClientStep(c)
  PROVE  TypeOK'
<1> USE SetTypes, JobHelpers DEF dbVars, jobVars, pruneVars, history, bounds, Goto, Finish
<1>0. target[c] \in SUBSET Leases
  BY DEF TypeOK
<1>1. CASE Issue(c) \/ IssueFails(c)
  <2>1. CASE Issue(c)
    BY <2>1 DEF Issue, TypeOK
  <2>2. CASE IssueFails(c)
    <3>1. cred' \in [Leases -> {"none", "live", "gone"}]
      BY <2>2 DEF IssueFails, TypeOK
    <3>2. lost' \in [Leases -> BOOLEAN]
      BY <2>2, Zenon DEF IssueFails
    <3> QED BY <2>2, <3>1, <3>2 DEF IssueFails, TypeOK
  <2> QED BY <1>1, <2>1, <2>2
<1>2. CASE Insert(c)
  BY <1>2 DEF Insert, TypeOK
<1>3. CASE InsertFails(c)
  <2>1. lost' \in [Leases -> BOOLEAN]
    BY <1>3, Zenon DEF InsertFails
  <2> QED BY <1>3, <2>1 DEF InsertFails, TypeOK
<1>4. CASE Schedule(c)
  BY <1>4 DEF Schedule, TypeOK
<1>5. CASE Extend(c)
  BY <1>5 DEF Extend, TypeOK
<1>6. CASE Unset(c) \/ Drop(c) \/ Clear(c)
  <2>1. main' \in [Leases -> Jobs]
    BY <1>0, <1>6 DEF Unset, Drop, Clear
  <2> QED BY <1>6, <2>1 DEF Unset, Drop, Clear, TypeOK
<1>7. CASE RevokeNow(c)
  <2>1. cred' \in [Leases -> {"none", "live", "gone"}]
    BY <1>0, <1>7 DEF RevokeNow
  <2> QED BY <1>7, <2>1 DEF RevokeNow, TypeOK
<1>8. CASE RevokeNowFails(c)
  <2>1. cred' \in [Leases -> {"none", "live", "gone"}]
    BY <1>0, <1>8 DEF RevokeNowFails
  <2>2. forced' \in [Leases -> BOOLEAN]
    BY <1>8, Zenon DEF RevokeNowFails
  <2> QED BY <1>8, <2>1, <2>2 DEF RevokeNowFails, AfterFailure, TypeOK
<1>9. CASE DeleteRow(c) \/ Flag(c)
  <2>1. row' \in [Leases -> {"none", "active", "failed", "deleted"}]
    BY <1>0, <1>9 DEF DeleteRow, Flag
  <2> QED BY <1>9, <2>1 DEF DeleteRow, Flag, TypeOK
<1>10. CASE QueueRetry(c)
  BY <1>10 DEF QueueRetry, TypeOK
<1>11. CASE Wipe(c)
  <2>1. forced' \in [Leases -> BOOLEAN]
    BY <1>11, Zenon DEF Wipe
  <2> QED BY <1>11, <2>1 DEF Wipe, TypeOK
<1>12. CASE Erase(c)
  <2>1. unseen' \in [Leases -> BOOLEAN]
    BY <1>12, Zenon DEF Erase
  <2> QED BY <1>12, <2>1 DEF Erase, TypeOK
<1>13. CASE Mark(c) \/ QueuePrune(c)
  BY <1>13 DEF Mark, QueuePrune, TypeOK
<1> QED
  BY <1>1, <1>2, <1>3, <1>4, <1>5, <1>6, <1>7, <1>8, <1>9, <1>10, <1>11, <1>12, <1>13 DEF ClientStep

\* A request begins.
BeginStep(c) == Delete(c) \/ \E l \in Leases : Create(c, l) \/ Renew(c, l) \/ Revoke(c, l)

\* A request is about leases with a row, or about one that nobody knows of.
LEMMA Beginning ==
  ASSUME TypeOK, NEW c \in Clients, BeginStep(c)
  PROVE  \E S \in SUBSET Leases, to \in {"issue", "extend", "revoke", "force", "clear", "erase", "mark"} :
           /\ Goto(c, "idle", to)
           /\ target' = [target EXCEPT ![c] = S]
           /\ requests' \in 0 .. MaxRequests
           /\ UNCHANGED <<cred, dbVars, jobVars, pruneVars, history, crashes>>
           /\ IF to = "issue"
              THEN \A l \in S : cred[l] = "none" /\ row[l] = "none" /\ \A d \in Clients : l \notin target[d]
              ELSE S \subseteq Rows
<1>0. Ask => requests' \in 0 .. MaxRequests /\ UNCHANGED crashes
  BY LeaseAssumption DEF Ask, TypeOK
<1>1. ASSUME NEW l \in Leases, Create(c, l)
      PROVE  /\ Goto(c, "idle", "issue")
             /\ target' = [target EXCEPT ![c] = {l}]
             /\ requests' \in 0 .. MaxRequests
             /\ UNCHANGED <<cred, dbVars, jobVars, pruneVars, history, crashes>>
             /\ cred[l] = "none" /\ row[l] = "none" /\ \A d \in Clients : l \notin target[d]
  BY <1>1 DEF Create, bounds, TypeOK
<1>2. ASSUME NEW l \in Leases, Renew(c, l) \/ Revoke(c, l)
      PROVE  \E to \in {"extend", "revoke", "force"} :
               /\ Goto(c, "idle", to)
               /\ target' = [target EXCEPT ![c] = {l}]
               /\ requests' \in 0 .. MaxRequests
               /\ UNCHANGED <<cred, dbVars, jobVars, pruneVars, history, crashes>>
               /\ {l} \subseteq Rows
  BY <1>0, <1>2 DEF Renew, Revoke, Begin
<1>3. ASSUME Delete(c)
      PROVE  \E to \in {"clear", "erase", "mark"} :
               /\ Goto(c, "idle", to)
               /\ target' = [target EXCEPT ![c] = Rows]
               /\ requests' \in 0 .. MaxRequests
               /\ UNCHANGED <<cred, dbVars, jobVars, pruneVars, history, crashes>>
  BY <1>0, <1>3 DEF Delete
<1>4. Rows \in SUBSET Leases
  BY DEF Rows
<1>5. CASE \E l \in Leases : Create(c, l)
  <2>1. PICK l \in Leases : Create(c, l)
    BY <1>5
  <2> WITNESS {l} \in SUBSET Leases, "issue" \in {"issue", "extend", "revoke", "force", "clear", "erase", "mark"}
  <2> QED BY <1>1, <2>1
<1>6. CASE \E l \in Leases : Renew(c, l) \/ Revoke(c, l)
  <2>1. PICK l \in Leases : Renew(c, l) \/ Revoke(c, l)
    BY <1>6
  <2>2. PICK to \in {"extend", "revoke", "force"} :
          /\ Goto(c, "idle", to)
          /\ target' = [target EXCEPT ![c] = {l}]
          /\ requests' \in 0 .. MaxRequests
          /\ UNCHANGED <<cred, dbVars, jobVars, pruneVars, history, crashes>>
          /\ {l} \subseteq Rows
    BY <1>2, <2>1
  <2> WITNESS {l} \in SUBSET Leases, to \in {"issue", "extend", "revoke", "force", "clear", "erase", "mark"}
  <2> QED BY <2>2
<1>7. CASE Delete(c)
  <2>1. PICK to \in {"clear", "erase", "mark"} :
          /\ Goto(c, "idle", to)
          /\ target' = [target EXCEPT ![c] = Rows]
          /\ requests' \in 0 .. MaxRequests
          /\ UNCHANGED <<cred, dbVars, jobVars, pruneVars, history, crashes>>
    BY <1>3, <1>7
  <2> QED BY <1>4, <2>1
<1> QED BY <1>5, <1>6, <1>7 DEF BeginStep

LEMMA BeginTypeOK ==
  ASSUME TypeOK, NEW c \in Clients, BeginStep(c) \/ ClientCrashes(c)
  PROVE  TypeOK'
<1> USE SetTypes, LeaseAssumption DEF dbVars, jobVars, pruneVars, history, bounds, Goto, Finish
<1>1. CASE BeginStep(c)
  BY <1>1, Beginning DEF TypeOK
<1>2. CASE ClientCrashes(c)
  <2>1. lost' \in [Leases -> BOOLEAN]
    BY <1>2, Zenon DEF ClientCrashes, LoseIn
  <2> QED BY <1>2, <2>1 DEF ClientCrashes, Crash, TypeOK
<1> QED BY <1>1, <1>2

LEMMA JobTypeOK ==
  ASSUME TypeOK, NEW l \in Leases, NEW isRetry \in BOOLEAN,
         JobStep(l, isRetry) \/ JobStalls(l, isRetry)
  PROVE  TypeOK'
<1> USE LeaseAssumption DEF dbVars, jobVars, pruneVars, history, bounds, clientVars
<1>0. Job(l, isRetry) \in Jobs /\ main[l] \in Jobs /\ retry[l] \in Jobs
  BY DEF Job, TypeOK
<1>1. ASSUME NEW job \in Jobs, SetJob(l, isRetry, job)
      PROVE  main' \in [Leases -> Jobs] /\ retry' \in [Leases -> Jobs]
  BY <1>1 DEF SetJob, TypeOK
<1>2. \A at \in {"waiting", "active", "revoked"} : [Job(l, isRetry) EXCEPT !.at = at] \in Jobs
  BY <1>0 DEF Jobs
<1>3. /\ CredsGone({l}) => cred' \in [Leases -> {"none", "live", "gone"}]
      /\ \A S \in SUBSET {l} : CredsGone(S) => cred' \in [Leases -> {"none", "live", "gone"}]
      /\ RowsTo({l}, "deleted") \/ RowsTo({l}, "failed") =>
              row' \in [Leases -> {"none", "active", "failed", "deleted"}]
  BY SetTypes
<1>4. CASE JobStarts(l, isRetry)
  <2>1. main' \in [Leases -> Jobs] /\ retry' \in [Leases -> Jobs]
    BY <1>0, <1>1, <1>2, <1>4, JobHelpers DEF JobStarts
  <2> QED BY <1>4, <2>1 DEF JobStarts, TypeOK
<1>5. CASE JobRevokes(l, isRetry)
  <2>1. main' \in [Leases -> Jobs] /\ retry' \in [Leases -> Jobs]
    BY <1>1, <1>2, <1>5 DEF JobRevokes
  <2> QED BY <1>3, <1>5, <2>1 DEF JobRevokes, TypeOK
<1>6. CASE JobDeletes(l, isRetry)
  <2>1. main' \in [Leases -> Jobs] /\ retry' \in [Leases -> Jobs]
    BY <1>0, <1>1, <1>6, JobHelpers DEF JobDeletes
  <2> QED BY <1>3, <1>6, <2>1 DEF JobDeletes, TypeOK
<1>7. CASE JobFails(l, isRetry)
  <2>1. main' \in [Leases -> Jobs] /\ retry' \in [Leases -> Jobs]
    BY <1>0, <1>7, JobHelpers DEF JobFails, TypeOK
  <2>2. mailed' \in [Leases -> BOOLEAN] /\ tries' \in [Leases -> Nat]
    <3>1. CASE isRetry
      <4>1. mailed' = [mailed EXCEPT ![l] = mailed[l] \/ LastTry(Job(l, isRetry))]
        BY <1>7, <3>1 DEF JobFails
      <4>2. mailed[l] \/ LastTry(Job(l, isRetry)) \in BOOLEAN
        BY DEF LastTry, TypeOK
      <4>3. mailed' \in [Leases -> BOOLEAN]
        BY <4>1 DEF TypeOK
      <4> QED BY <1>7, <3>1, <4>3 DEF JobFails, TypeOK
    <3>2. CASE ~isRetry
      BY <1>7, <3>2 DEF JobFails, TypeOK
    <3> QED BY <3>1, <3>2
  <2> QED BY <1>3, <1>7, <2>1, <2>2 DEF JobFails, TypeOK
<1>8. CASE JobStalls(l, isRetry)
  <2>1. main' \in [Leases -> Jobs] /\ retry' \in [Leases -> Jobs]
    BY <1>1, <1>2, <1>8, JobHelpers DEF JobStalls
  <2>2. lost' \in [Leases -> BOOLEAN]
    BY <1>8, SetTypes DEF JobStalls
  <2> QED BY <1>8, <2>1, <2>2 DEF JobStalls, Crash, TypeOK
<1> QED BY <1>4, <1>5, <1>6, <1>7, <1>8 DEF JobStep

LEMMA PruneTypeOK ==
  ASSUME TypeOK, PruneStep \/ PruneStalls
  PROVE  TypeOK'
<1> USE LeaseAssumption, SetTypes DEF dbVars, jobVars, pruneVars, history, bounds, clientVars, PruneTo
<1>1. CASE PruneStarts
  BY <1>1 DEF PruneStarts, TypeOK
<1>2. CASE PruneUnsets
  <2>1. main' \in [Leases -> Jobs]
    BY <1>2 DEF PruneUnsets, TypeOK
  <2> QED BY <1>2, <2>1 DEF PruneUnsets, TypeOK
<1>3. CASE PruneRevokes
  <2>1. cred' \in [Leases -> {"none", "live", "gone"}]
    BY <1>3 DEF PruneRevokes, TypeOK
  <2> QED BY <1>3, <2>1 DEF PruneRevokes, TypeOK
<1>4. CASE PruneDeletes
  <2>1. unseen' \in [Leases -> BOOLEAN]
    BY <1>4, Zenon DEF PruneDeletes
  <2> QED BY <1>4, <2>1 DEF PruneDeletes, TypeOK
<1>5. CASE PruneFails
  <2>1. lost' \in [Leases -> BOOLEAN]
    BY <1>5, Zenon DEF PruneFails, LoseIn
  <2>2. cred' \in [Leases -> {"none", "live", "gone"}]
    BY <1>5 DEF PruneFails, TypeOK
  <2> QED BY <1>5, <2>1, <2>2 DEF PruneFails, TypeOK
<1>6. CASE PruneStalls
  <2>1. lost' \in [Leases -> BOOLEAN]
    BY <1>6, Zenon DEF PruneStalls, LoseIn
  <2> QED BY <1>6, <2>1 DEF PruneStalls, Crash, TypeOK
<1> QED BY <1>1, <1>2, <1>3, <1>4, <1>5, <1>6 DEF PruneStep

LEMMA FolderTypeOK ==
  ASSUME TypeOK, DeleteFolder
  PROVE  TypeOK'
<1>1. forced' \in [Leases -> BOOLEAN]
  BY Zenon DEF DeleteFolder
<1>2. /\ cfg' \in {"active", "deleting", "failed", "gone"}
      /\ row' \in [Leases -> {"none", "active", "failed", "deleted"}]
  BY SetTypes DEF DeleteFolder
<1>3. requests' \in 0 .. MaxRequests /\ crashes' = crashes
  BY LeaseAssumption DEF DeleteFolder, Ask, TypeOK
<1> QED BY <1>1, <1>2, <1>3 DEF DeleteFolder, TypeOK, jobVars, pruneVars, clientVars

LEMMA NextTypeOK ==
  ASSUME TypeOK, [Next]_vars
  PROVE  TypeOK'
<1>1. CASE UNCHANGED vars
  BY <1>1 DEF vars, dbVars, jobVars, pruneVars, clientVars, history, bounds, TypeOK
<1> QED
  BY <1>1, ClientTypeOK, BeginTypeOK, JobTypeOK, PruneTypeOK, FolderTypeOK DEF Next, BeginStep

-----------------------------------------------------------------------------
(* Who knows of a lease *)

\* Types, as far as the rest needs them.
LEMMA Domains ==
  ASSUME TypeOK
  PROVE  /\ cred \in [Leases -> {"none", "live", "gone"}] /\ main \in [Leases -> Jobs]
         /\ row \in [Leases -> {"none", "active", "failed", "deleted"}]
         /\ pc \in [Clients -> {"idle", "issue", "insert", "schedule", "extend", "unset", "set", "revoke",
                                "force", "drop", "delete", "flag", "queue", "clear", "wipe", "erase",
                                "mark", "prune"}]
         /\ retry \in [Leases -> Jobs]
         /\ target \in [Clients -> SUBSET Leases] /\ listed \in SUBSET Leases
         /\ mailed \in [Leases -> BOOLEAN] /\ lost \in [Leases -> BOOLEAN]
         /\ unseen \in [Leases -> BOOLEAN]
         /\ forced \in [Leases -> BOOLEAN] /\ tries \in [Leases -> Nat]
  BY DEF TypeOK

Known == Unissued /\ Uninserted

LEMMA BeginKnown ==
  ASSUME TypeOK, Known, NEW c \in Clients, BeginStep(c)
  PROVE  Known'
<1>1. PICK S \in SUBSET Leases, to \in {"issue", "extend", "revoke", "force", "clear", "erase", "mark"} :
        /\ Goto(c, "idle", to)
        /\ target' = [target EXCEPT ![c] = S]
        /\ UNCHANGED <<cred, row, main, retry, listed>>
        /\ IF to = "issue"
           THEN \A l \in S : cred[l] = "none" /\ row[l] = "none" /\ \A d \in Clients : l \notin target[d]
           ELSE S \subseteq Rows
  BY Beginning DEF dbVars, jobVars, pruneVars
<1>2. \A l \in Rows : row[l] # "none" /\ cred[l] # "none"
  BY DEF Rows, Known, Unissued
<1>3. /\ \A d \in Clients : target'[d] = IF d = c THEN S ELSE target[d]
      /\ \A d \in Clients : pc'[d] = IF d = c THEN to ELSE pc[d]
      /\ pc[c] = "idle"
  BY <1>1, Domains DEF Goto
<1>4. Unissued'
  BY <1>1, <1>2, <1>3 DEF Known, Unissued
<1>5. Uninserted'
  <2> SUFFICES ASSUME NEW d \in Clients, NEW l \in target'[d], pc'[d] \in {"issue", "insert"}
               PROVE  /\ pc'[d] = "issue" => cred'[l] = "none"
                      /\ row'[l] = "none" /\ main'[l].at = "none" /\ retry'[l].at = "none" /\ l \notin listed'
                      /\ \A e \in Clients \ {d} : l \notin target'[e]
    BY DEF Uninserted
  <2>1. l \in Leases
    BY <1>3, Domains
  <2>2. CASE d = c
    BY <1>1, <1>3, <2>1, <2>2 DEF Known, Unissued
  <2>3. CASE d # c
    <3>1. l \in target[d] /\ pc[d] \in {"issue", "insert"} /\ row[l] = "none" /\ l \notin target[c]
      BY <1>3, <2>3 DEF Known, Uninserted
    <3>2. l \notin S
      BY <1>1, <1>2, <2>3, <3>1
    <3> QED BY <1>1, <1>3, <2>3, <3>1, <3>2 DEF Known, Uninserted
  <2> QED BY <2>2, <2>3
<1> QED BY <1>4, <1>5 DEF Known

LEMMA ClientKnown ==
  ASSUME TypeOK, Known, NEW c \in Clients, ClientStep(c) \/ ClientCrashes(c)
  PROVE  Known'
<1> USE Domains, JobHelpers DEF Goto, Finish, Known, Unissued, Uninserted, dbVars, jobVars, pruneVars
<1>1. CASE Issue(c)
  BY <1>1 DEF Issue
<1>2. CASE IssueFails(c) \/ InsertFails(c)
  BY <1>2 DEF IssueFails, InsertFails
<1>3. CASE Insert(c)
  BY <1>3 DEF Insert
<1>4. CASE Schedule(c)
  BY <1>4 DEF Schedule
<1>5. CASE Extend(c)
  BY <1>5 DEF Extend
<1>6. CASE Unset(c) \/ Drop(c) \/ Clear(c)
  BY <1>6 DEF Unset, Drop, Clear, UnsetAll
<1>7. CASE RevokeNow(c)
  BY <1>7 DEF RevokeNow, CredsGone
<1>8. CASE RevokeNowFails(c)
  BY <1>8 DEF RevokeNowFails, CredsGone, AfterFailure
<1>9. CASE DeleteRow(c) \/ Flag(c)
  BY <1>9 DEF DeleteRow, Flag, RowsTo, Rows
<1>10. CASE QueueRetry(c)
  BY <1>10 DEF QueueRetry
<1>11. CASE Wipe(c) \/ Erase(c)
  BY <1>11 DEF Wipe, Erase, Cascade, RowsTo, Rows
<1>12. CASE Mark(c) \/ QueuePrune(c)
  BY <1>12 DEF Mark, QueuePrune
<1>13. CASE ClientCrashes(c)
  BY <1>13 DEF ClientCrashes
<1> QED
  BY <1>1, <1>2, <1>3, <1>4, <1>5, <1>6, <1>7, <1>8, <1>9, <1>10, <1>11, <1>12, <1>13 DEF ClientStep

LEMMA JobKnown ==
  ASSUME TypeOK, Known, NEW l \in Leases, NEW isRetry \in BOOLEAN,
         JobStep(l, isRetry) \/ JobStalls(l, isRetry)
  PROVE  Known'
<1> USE Domains, JobHelpers DEF Known, Unissued, Uninserted, dbVars, jobVars, pruneVars, clientVars,
    Job, SetJob, NoJob, RowsTo, Rows, CredsGone
<1>1. CASE JobStarts(l, isRetry)
  BY <1>1 DEF JobStarts
<1>2. CASE JobRevokes(l, isRetry)
  BY <1>2 DEF JobRevokes
<1>3. CASE JobDeletes(l, isRetry)
  BY <1>3 DEF JobDeletes
<1>4. CASE JobFails(l, isRetry)
  BY <1>4 DEF JobFails
<1>5. CASE JobStalls(l, isRetry)
  <2>1. UNCHANGED <<cred, row, listed, pc, target>>
    BY <1>5 DEF JobStalls
  <2>2. Job(l, isRetry).at \in {"active", "revoked"} /\ \E job : SetJob(l, isRetry, job)
    BY <1>5 DEF JobStalls
  <2>3. /\ \A k \in Leases \ {l} : main'[k] = main[k] /\ retry'[k] = retry[k]
        /\ cred[l] # "none"
        /\ \A c \in Clients : l \in target[c] => pc[c] \notin {"issue", "insert"}
    BY <2>2
  <2> QED BY <2>1, <2>3
<1> QED BY <1>1, <1>2, <1>3, <1>4, <1>5 DEF JobStep

LEMMA PruneKnown ==
  ASSUME TypeOK, Known, PruneStep \/ PruneStalls
  PROVE  Known'
<1> USE Domains, JobHelpers DEF Known, Unissued, Uninserted, dbVars, jobVars, pruneVars, clientVars,
    RowsTo, Rows
<1>1. CASE PruneStarts
  BY <1>1 DEF PruneStarts
<1>2. CASE PruneUnsets
  BY <1>2 DEF PruneUnsets, UnsetAll
<1>3. CASE PruneRevokes
  BY <1>3 DEF PruneRevokes, CredsGone
<1>4. CASE PruneDeletes
  BY <1>4 DEF PruneDeletes, Cascade
<1>5. CASE PruneFails
  BY <1>5 DEF PruneFails, CredsGone
<1>6. CASE PruneStalls
  BY <1>6 DEF PruneStalls
<1> QED BY <1>1, <1>2, <1>3, <1>4, <1>5, <1>6 DEF PruneStep

LEMMA FolderKnown ==
  ASSUME TypeOK, Known, DeleteFolder
  PROVE  Known'
  BY Domains DEF DeleteFolder, Cascade, RowsTo, Rows, Known, Unissued, Uninserted, jobVars, pruneVars, clientVars

LEMMA NextKnown ==
  ASSUME TypeOK, Known, [Next]_vars
  PROVE  Known'
<1>1. CASE UNCHANGED vars
  BY <1>1 DEF vars, dbVars, jobVars, pruneVars, clientVars, Known, Unissued, Uninserted
<1> QED
  BY <1>1, BeginKnown, ClientKnown, JobKnown, PruneKnown, FolderKnown DEF Next, BeginStep

-----------------------------------------------------------------------------
(* Mails *)

\* Who changes the retry jobs and the mails: a request that queues one, and the jobs.
LEMMA RetriesKept ==
  ASSUME [Next]_vars,
         \A c \in Clients : ~QueueRetry(c),
         \A l \in Leases : ~JobStep(l, TRUE) /\ ~JobStalls(l, TRUE) /\ ~JobFails(l, FALSE)
  PROVE  UNCHANGED <<retry, mailed, tries>>
<1> USE DEF dbVars, jobVars, pruneVars, clientVars, history
<1>1. CASE \E c \in Clients : ClientStep(c)
  BY <1>1 DEF ClientStep, Issue, IssueFails, Insert, InsertFails, Schedule, Extend,
    Unset, RevokeNow, RevokeNowFails, Drop, DeleteRow, Flag, Clear, Wipe, Erase, Mark, QueuePrune
<1>2. CASE \E c \in Clients : BeginStep(c) \/ ClientCrashes(c)
  BY <1>2 DEF BeginStep, Delete, Create, Renew, Revoke, Begin, ClientCrashes
<1>3. CASE \E l \in Leases, isRetry \in BOOLEAN : JobStep(l, isRetry) \/ JobStalls(l, isRetry)
  <2>1. PICK l \in Leases : JobStep(l, FALSE) \/ JobStalls(l, FALSE)
    BY <1>3
  <2> QED BY <2>1 DEF JobStep, JobStarts, JobRevokes, JobDeletes, JobStalls, SetJob
<1>4. CASE PruneStep \/ PruneStalls
  BY <1>4 DEF PruneStep, PruneStarts, PruneUnsets, PruneRevokes, PruneDeletes, PruneFails, PruneStalls
<1>5. CASE DeleteFolder \/ UNCHANGED vars
  BY <1>5 DEF DeleteFolder, vars
<1> QED BY <1>1, <1>2, <1>3, <1>4, <1>5 DEF Next, BeginStep

LEMMA NextMailDeserved ==
  ASSUME TypeOK, AttemptsCounted, MailDeserved, [Next]_vars
  PROVE  AttemptsCounted' /\ MailDeserved'
<1> USE Domains, JobHelpers DEF dbVars, jobVars, pruneVars, clientVars, history, AttemptsCounted, MailDeserved
<1>0. \A l \in Leases : retry[l] \in Jobs /\ retry[l].made \in Nat /\ tries[l] \in Nat
  BY LeaseAssumption DEF Jobs
<1>1. CASE \E c \in Clients : QueueRetry(c)
  BY <1>0, <1>1 DEF QueueRetry
<1>2. ASSUME NEW l \in Leases, JobStep(l, TRUE) \/ JobStalls(l, TRUE)
      PROVE  AttemptsCounted' /\ MailDeserved'
  <2>1. CASE JobStarts(l, TRUE) \/ JobRevokes(l, TRUE) \/ JobDeletes(l, TRUE) \/ JobStalls(l, TRUE)
    <3>1. UNCHANGED <<mailed, tries>>
      BY <2>1 DEF JobStarts, JobRevokes, JobDeletes, JobStalls
    <3>2. \/ retry' = [retry EXCEPT ![l] = NoJob]
          \/ \E at \in {"waiting", "active", "revoked"} :
               retry' = [retry EXCEPT ![l] = [retry[l] EXCEPT !.at = at]]
      BY <2>1 DEF JobStarts, JobRevokes, JobDeletes, JobStalls, Job, SetJob
    <3>3. retry'[l].made \in {retry[l].made, 0}
      <4>1. CASE retry' = [retry EXCEPT ![l] = NoJob]
        BY <1>0, <4>1 DEF NoJob
      <4>2. ASSUME NEW at \in {"waiting", "active", "revoked"},
                   retry' = [retry EXCEPT ![l] = [retry[l] EXCEPT !.at = at]]
            PROVE  retry'[l].made = retry[l].made
        <5>1. retry'[l] = [retry[l] EXCEPT !.at = at]
          BY <4>2
        <5> QED BY <1>0, <5>1 DEF Jobs
      <4> QED BY <3>2, <4>1, <4>2
    <3>4. AttemptsCounted'
      BY <1>0, <3>1, <3>2, <3>3
    <3>5. MailDeserved'
      BY <3>1
    <3> QED BY <3>4, <3>5
  <2>2. CASE JobFails(l, TRUE)
    <3>1. /\ retry' = [retry EXCEPT ![l] = Requeued(retry[l])]
          /\ mailed' = [mailed EXCEPT ![l] = mailed[l] \/ LastTry(retry[l])]
          /\ tries' = [tries EXCEPT ![l] = tries[l] + 1]
      BY <2>2 DEF JobFails, Job
    <3>2. Requeued(retry[l]).made <= tries[l] + 1
      <4>1. Requeued(retry[l]).made \in Nat /\ Requeued(retry[l]).made <= retry[l].made + 1
        BY <1>0, LeaseAssumption DEF Jobs
      <4> QED BY <1>0, <4>1
    <3>3. LastTry(retry[l]) => tries[l] + 1 >= MaxAttempts
      BY <1>0, LeaseAssumption
    <3>4. MailDeserved'
      <4> SUFFICES ASSUME NEW k \in Leases, mailed'[k]
                   PROVE  tries'[k] >= MaxAttempts
        BY DEF MailDeserved
      <4>1. CASE k = l /\ ~mailed[l]
        <5>1. LastTry(retry[l])
          BY <3>1, <4>1
        <5> QED BY <3>1, <3>3, <4>1, <5>1
      <4>2. CASE k # l \/ mailed[l]
        BY <1>0, <3>1, <4>2, LeaseAssumption
      <4> QED BY <4>1, <4>2
    <3> QED BY <3>1, <3>2, <3>4
  <2> QED BY <1>2, <2>1, <2>2 DEF JobStep
<1>3. CASE \E l \in Leases : JobFails(l, FALSE)
  BY <1>0, <1>3 DEF JobFails, Job
<1>4. CASE /\ \A c \in Clients : ~QueueRetry(c)
           /\ \A l \in Leases : ~JobStep(l, TRUE) /\ ~JobStalls(l, TRUE) /\ ~JobFails(l, FALSE)
  BY <1>4, RetriesKept
<1> QED BY <1>1, <1>2, <1>3, <1>4

-----------------------------------------------------------------------------
(* Credentials *)

\* What is gone stays gone, and what was forced, deleted unseen or given up stays so.
LEMMA GoneStays ==
  ASSUME TypeOK, Known, [Next]_vars, NEW l \in Leases
  PROVE  /\ cred[l] = "gone" => cred'[l] = "gone"
         /\ forced[l] => forced'[l]
         /\ lost[l] => lost'[l]
         /\ unseen[l] => unseen'[l]
         /\ cred[l] = "live" => cred'[l] \in {"live", "gone"}
<1> USE Domains DEF dbVars, jobVars, pruneVars, clientVars, history, LoseIn, CredsGone
<1>1. ASSUME NEW c \in Clients, ClientStep(c)
      PROVE  /\ cred[l] = "gone" => cred'[l] = "gone"
             /\ forced[l] => forced'[l]
             /\ lost[l] => lost'[l]
             /\ unseen[l] => unseen'[l]
             /\ cred[l] = "live" => cred'[l] \in {"live", "gone"}
  <2>1. CASE Issue(c) \/ IssueFails(c)
    <3>1. pc[c] = "issue" /\ (l \in target[c] => cred[l] = "none")
      BY <2>1 DEF Issue, IssueFails, Finish, Goto, Known, Uninserted
    <3> QED BY <2>1, <3>1 DEF Issue, IssueFails
  <2>2. CASE ~Issue(c) /\ ~IssueFails(c)
    BY <1>1, <2>2 DEF ClientStep, Insert, InsertFails, Schedule, Extend,
    Unset, RevokeNow, RevokeNowFails, Drop, DeleteRow, Flag, Clear, Wipe, Erase, Mark, QueuePrune, QueueRetry
  <2> QED BY <2>1, <2>2
<1>2. CASE \E c \in Clients : BeginStep(c) \/ ClientCrashes(c)
  BY <1>2 DEF BeginStep, Delete, Create, Renew, Revoke, Begin, ClientCrashes
<1>3. CASE \E k \in Leases, isRetry \in BOOLEAN : JobStep(k, isRetry) \/ JobStalls(k, isRetry)
  BY <1>3 DEF JobStep, JobStarts, JobRevokes, JobDeletes, JobFails, JobStalls
<1>4. CASE PruneStep \/ PruneStalls
  BY <1>4 DEF PruneStep, PruneStarts, PruneUnsets, PruneRevokes, PruneDeletes, PruneFails, PruneStalls
<1>5. CASE DeleteFolder \/ UNCHANGED vars
  BY <1>5 DEF DeleteFolder, vars
<1> QED BY <1>1, <1>2, <1>3, <1>4, <1>5 DEF Next, BeginStep

LEMMA ClientRevokedGone ==
  ASSUME TypeOK, Known, RevokedGone, NEW c \in Clients,
         ClientStep(c) \/ BeginStep(c) \/ ClientCrashes(c)
  PROVE  RevokedGone'
<1> USE Domains, JobHelpers DEF RevokedGone, dbVars, jobVars, pruneVars, history
<1>1. \A l \in Leases : /\ cred[l] = "gone" => cred'[l] = "gone"
                        /\ forced[l] => forced'[l]
  BY GoneStays DEF Next, BeginStep
<1>2. \A l \in Leases : /\ main'[l].at = "revoked" => main[l].at = "revoked"
                        /\ retry'[l].at = "revoked" => retry[l].at = "revoked"
  <2>1. CASE Unset(c) \/ Drop(c) \/ Clear(c)
    BY <2>1 DEF Unset, Drop, Clear, UnsetAll
  <2>2. CASE Schedule(c) \/ QueueRetry(c)
    BY <2>2 DEF Schedule, QueueRetry
  <2>3. CASE UNCHANGED <<main, retry>>
    BY <2>3
  <2>4. CASE BeginStep(c) \/ ClientCrashes(c)
    BY <2>4 DEF BeginStep, Delete, Create, Renew, Revoke, Begin, ClientCrashes
  <2> QED
    BY <2>1, <2>2, <2>3, <2>4 DEF ClientStep, Issue, IssueFails, Insert, InsertFails, Extend,
      RevokeNow, RevokeNowFails, DeleteRow, Flag, Wipe, Erase, Mark, QueuePrune
<1>3. listed' = listed /\ (prune' = "revoked" => prune = "revoked")
  BY DEF ClientStep, Issue, IssueFails, Insert, InsertFails, Schedule, Extend,
    Unset, RevokeNow, RevokeNowFails, Drop, DeleteRow, Flag, Clear, Wipe, Erase, Mark, QueuePrune,
    QueueRetry, BeginStep, Delete, Create, Renew, Revoke, Begin, ClientCrashes
<1>4. ASSUME NEW d \in Clients, NEW l \in target'[d], pc'[d] \in {"drop", "delete"}
      PROVE  cred'[l] = "gone" \/ forced'[l]
  <2> USE DEF Goto, Finish
  <2>1. l \in Leases /\ (d # c => target'[d] = target[d] /\ pc'[d] = pc[d])
    <3>1. CASE BeginStep(c)
      BY <1>4, <3>1, Beginning
    <3>2. CASE ClientStep(c) \/ ClientCrashes(c)
      BY <1>4, <3>2 DEF ClientStep, Issue, IssueFails, Insert, InsertFails, Schedule, Extend,
        Unset, RevokeNow, RevokeNowFails, Drop, DeleteRow, Flag, Clear, Wipe, Erase, Mark, QueuePrune,
        QueueRetry, ClientCrashes
    <3> QED BY <3>1, <3>2
  <2>2. CASE d # c
    BY <1>1, <1>4, <2>1, <2>2
  <2>3. CASE d = c /\ RevokeNow(c)
    BY <1>4, <2>1, <2>3 DEF RevokeNow, CredsGone
  <2>4. CASE d = c /\ RevokeNowFails(c)
    <3>1. PICK from \in {"revoke", "force"} :
            /\ Goto(c, from, AfterFailure(from))
            /\ forced' = [k \in Leases |-> forced[k] \/ (from = "force" /\ k \in target[c])]
            /\ target' = target
      BY <2>4 DEF RevokeNowFails
    <3>2. from = "force"
      BY <1>4, <2>4, <3>1 DEF AfterFailure
    <3>3. forced'[l]
      BY <1>4, <2>1, <2>4, <3>1, <3>2, Zenon
    <3> QED BY <3>3
  <2>5. CASE d = c /\ Drop(c)
    BY <1>1, <1>4, <2>1, <2>5 DEF Drop
  <2>6. CASE d = c /\ BeginStep(c)
    BY <1>4, <2>6, Beginning
  <2>7. CASE d = c /\ ClientCrashes(c)
    BY <1>4, <2>7 DEF ClientCrashes
  <2>8. CASE d = c /\ ClientStep(c) /\ ~RevokeNow(c) /\ ~RevokeNowFails(c) /\ ~Drop(c)
    BY <1>4, <2>8 DEF ClientStep, Issue, IssueFails, Insert, InsertFails, Schedule, Extend,
        Unset, DeleteRow, Flag, Clear, Wipe, Erase, Mark, QueuePrune, QueueRetry
  <2> QED BY <2>2, <2>3, <2>4, <2>5, <2>6, <2>7, <2>8
<1> QED BY <1>1, <1>2, <1>3, <1>4

LEMMA NextRevokedGone ==
  ASSUME TypeOK, Known, RevokedGone, [Next]_vars
  PROVE  RevokedGone'
<1> USE Domains, JobHelpers
    DEF RevokedGone, dbVars, jobVars, pruneVars, clientVars, history
<1>1. \A l \in Leases : cred[l] = "gone" => cred'[l] = "gone"
  BY GoneStays
<1>2. ASSUME NEW l \in Leases, NEW isRetry \in BOOLEAN, JobStep(l, isRetry) \/ JobStalls(l, isRetry)
      PROVE  RevokedGone'
  <2>1. UNCHANGED <<prune, listed, pc, target, forced>>
    BY <1>2 DEF JobStep, JobStarts, JobRevokes, JobDeletes, JobFails, JobStalls
  <2>2. CASE JobRevokes(l, isRetry)
    BY <1>1, <2>1, <2>2 DEF JobRevokes, SetJob, Job, CredsGone
  <2>3. CASE ~JobRevokes(l, isRetry)
    <3>1. \A k \in Leases : /\ main'[k].at = "revoked" => main[k].at = "revoked"
                            /\ retry'[k].at = "revoked" => retry[k].at = "revoked"
      <4>1. CASE JobFails(l, isRetry)
        BY <4>1 DEF JobFails, Job
      <4>2. CASE ~JobFails(l, isRetry)
        <5>1. PICK job : SetJob(l, isRetry, job) /\ job.at # "revoked"
          <6>1. /\ NoJob.at = "none"
                /\ \A at : [Job(l, isRetry) EXCEPT !.at = at].at = at
            BY DEF NoJob, Job, Jobs
          <6>2. CASE JobStalls(l, isRetry)
            BY <6>1, <6>2 DEF JobStalls
          <6>3. CASE JobStarts(l, isRetry)
            <7>1. \/ SetJob(l, isRetry, [Job(l, isRetry) EXCEPT !.at = "active"])
                  \/ SetJob(l, isRetry, NoJob)
              BY <6>3 DEF JobStarts
            <7> QED BY <6>1, <7>1
          <6>4. CASE JobDeletes(l, isRetry)
            <7>1. SetJob(l, isRetry, NoJob)
              BY <6>4 DEF JobDeletes
            <7> QED BY <6>1, <7>1
          <6>5. JobStarts(l, isRetry) \/ JobDeletes(l, isRetry) \/ JobStalls(l, isRetry)
            BY <1>2, <2>3, <4>2, Zenon DEF JobStep
          <6> QED BY <6>2, <6>3, <6>4, <6>5
        <5> QED BY <5>1 DEF SetJob
      <4> QED BY <4>1, <4>2
    <3> QED BY <1>1, <2>1, <3>1
  <2> QED BY <2>2, <2>3
<1>3. CASE PruneStep \/ PruneStalls
  <2>1. UNCHANGED <<pc, target, forced, retry>>
    BY <1>3 DEF PruneStep, PruneStarts, PruneUnsets, PruneRevokes, PruneDeletes, PruneFails, PruneStalls
  <2>2. \A l \in Leases : main'[l].at = "revoked" => main[l].at = "revoked"
    <3>1. CASE PruneUnsets
      BY <3>1 DEF PruneUnsets, UnsetAll
    <3>2. CASE ~PruneUnsets
      BY <1>3, <3>2 DEF PruneStep, PruneStarts, PruneRevokes, PruneDeletes, PruneFails, PruneStalls
    <3> QED BY <3>1, <3>2
  <2>3. ASSUME prune' = "revoked", NEW l \in listed'
        PROVE  cred'[l] = "gone"
    <3>1. CASE PruneRevokes
      BY <2>3, <3>1 DEF PruneRevokes, CredsGone
    <3>2. CASE PruneStarts
      BY <2>3, <3>2 DEF PruneStarts, PruneTo
    <3>3. CASE ~PruneRevokes /\ ~PruneStarts
      BY <1>3, <2>3, <3>3 DEF PruneStep, PruneUnsets, PruneDeletes, PruneFails, PruneStalls, PruneTo
    <3> QED BY <3>1, <3>2, <3>3
  <2> QED BY <1>1, <2>1, <2>2, <2>3
<1>4. CASE DeleteFolder
  <2>1. \A l \in Leases : forced[l] => forced'[l]
    BY GoneStays
  <2> QED BY <1>1, <1>4, <2>1 DEF DeleteFolder
<1>5. CASE UNCHANGED vars
  BY <1>5 DEF vars
<1> QED BY <1>2, <1>3, <1>4, <1>5, ClientRevokedGone DEF Next, BeginStep

\* A row is deleted by who has revoked the credential, forces it, or takes the lease
\* with the dynamic secret.
LEMMA NextRowOutlives ==
  ASSUME TypeOK, Known, RevokedGone, RowOutlivesCredential, [Next]_vars
  PROVE  RowOutlivesCredential'
<1> USE Domains
    DEF RevokedGone, dbVars, jobVars, pruneVars, clientVars, history, RowsTo, Rows, Cascade
<1> SUFFICES ASSUME NEW l \in Leases, row'[l] = "deleted", cred'[l] = "live"
             PROVE  forced'[l] \/ unseen'[l]
  BY DEF RowOutlivesCredential
<1>1. /\ cred[l] = "gone" => cred'[l] = "gone"
      /\ forced[l] => forced'[l]
      /\ unseen[l] => unseen'[l]
  BY GoneStays
<1>2. CASE row[l] = "deleted"
  <2>1. cred[l] = "live"
    BY <1>1, <1>2 DEF Known, Unissued
  <2> QED BY <1>1, <1>2, <2>1 DEF RowOutlivesCredential
<1>3. CASE row[l] # "deleted"
  <2>1. CASE \E c \in Clients : ClientStep(c)
    <3>1. PICK c \in Clients : ClientStep(c)
      BY <2>1
    <3>2. DeleteRow(c) \/ Wipe(c) \/ Erase(c)
      BY <1>3, <3>1 DEF ClientStep, Issue, IssueFails, Insert, InsertFails, Schedule, Extend,
        Unset, RevokeNow, RevokeNowFails, Drop, Flag, Clear, Mark, QueuePrune, QueueRetry
    <3>3. CASE DeleteRow(c)
      <4>1. l \in target[c] /\ pc[c] = "delete"
        BY <1>3, <3>3 DEF DeleteRow, Finish, Goto
      <4> QED BY <1>1, <4>1
    <3>4. CASE Wipe(c)
      <4>1. l \in Rows
        BY <1>3, <3>4 DEF Wipe
      <4> QED BY <3>4, <4>1, Zenon DEF Wipe
    <3>5. CASE Erase(c)
      <4>1. l \in Rows /\ cred[l] = "live"
        BY <1>3, <3>5 DEF Erase
      <4> QED BY <3>5, <4>1, Zenon DEF Erase
    <3> QED BY <3>2, <3>3, <3>4, <3>5
  <2>2. CASE \E c \in Clients : BeginStep(c) \/ ClientCrashes(c)
    BY <1>3, <2>2 DEF BeginStep, Delete, Create, Renew, Revoke, Begin, ClientCrashes
  <2>3. CASE \E k \in Leases, isRetry \in BOOLEAN : JobStep(k, isRetry) \/ JobStalls(k, isRetry)
    <3>1. PICK k \in Leases, isRetry \in BOOLEAN : JobStep(k, isRetry) \/ JobStalls(k, isRetry)
      BY <2>3
    <3>2. JobDeletes(k, isRetry) /\ k = l
      BY <1>3, <3>1 DEF JobStep, JobStarts, JobRevokes, JobDeletes, JobFails, JobStalls
    <3>3. main[l].at = "revoked" \/ retry[l].at = "revoked"
      BY <3>2 DEF JobDeletes, Job
    <3> QED BY <1>1, <3>3
  <2>4. CASE PruneStep \/ PruneStalls
    <3>1. PruneDeletes
      BY <1>3, <2>4 DEF PruneStep, PruneStarts, PruneUnsets, PruneRevokes, PruneFails, PruneStalls
    <3>2. prune = "revoked" /\ cred[l] = "live" /\ l \in Rows
      BY <1>3, <3>1 DEF PruneDeletes, PruneTo
    <3>3. l \in Rows \ listed
      BY <3>2
    <3> QED BY <3>1, <3>2, <3>3, Zenon DEF PruneDeletes
  <2>5. CASE DeleteFolder
    <3>1. l \in Rows
      BY <1>3, <2>5 DEF DeleteFolder
    <3> QED BY <2>5, <3>1, Zenon DEF DeleteFolder
  <2>6. CASE UNCHANGED vars
    BY <1>3, <2>6 DEF vars
  <2> QED BY <2>1, <2>2, <2>3, <2>4, <2>5, <2>6 DEF Next, BeginStep
<1> QED BY <1>2, <1>3

-----------------------------------------------------------------------------
(* Watching *)

\* Who drops a live lease without a job gives it up.
LEMMA GivingUp ==
  ASSUME TypeOK, NEW S \in SUBSET Leases, LoseIn(S), NEW l \in S
  PROVE  lost'[l] \/ cred'[l] # "live" \/ main'[l].at # "none" \/ retry'[l].at # "none"
<1>1. lost'[l] = (lost[l] \/ (l \in S /\ cred'[l] = "live" /\ main'[l].at = "none" /\ retry'[l].at = "none"))
  BY DEF LoseIn
<1> QED BY <1>1

\* A lease stays watched, or comes to be, when a request takes a step.
LEMMA ClientWatched ==
  ASSUME TypeOK, Known, RevokedGone, Watched, NEW c \in Clients,
         ClientStep(c) \/ BeginStep(c) \/ ClientCrashes(c)
  PROVE  Watched'
<1> USE Domains DEF dbVars, jobVars, pruneVars, history, Goto, Finish
<1> SUFFICES ASSUME NEW l \in Leases, l \in Rows'
             PROVE  Watches(l)'
  BY DEF Watched, Rows
<1>1. /\ cred[l] = "gone" => cred'[l] = "gone"
      /\ forced[l] => forced'[l]
      /\ lost[l] => lost'[l]
      /\ mailed' = mailed
  <2>1. mailed' = mailed
    BY DEF ClientStep, Issue, IssueFails, Insert, InsertFails, Schedule, Extend,
      Unset, RevokeNow, RevokeNowFails, Drop, DeleteRow, Flag, Clear, Wipe, Erase, Mark, QueuePrune,
      QueueRetry, BeginStep, Delete, Create, Renew, Revoke, Begin, ClientCrashes
  <2> QED BY <2>1, GoneStays DEF Next, BeginStep
<1>2. CASE l \notin Rows
  <2>1. Insert(c) /\ l \in target[c]
    BY <1>2 DEF Rows, RowsTo, Cascade, ClientStep, Issue, IssueFails, Insert, InsertFails, Schedule, Extend,
      Unset, RevokeNow, RevokeNowFails, Drop, DeleteRow, Flag, Clear, Wipe, Erase, Mark, QueuePrune,
      QueueRetry, BeginStep, Delete, Create, Renew, Revoke, Begin, ClientCrashes
  <2> QED BY <2>1 DEF Insert, Watches
<1>3. CASE l \in Rows
  <2>1. Watches(l)
    BY <1>3 DEF Watched
  <2>2. CASE Schedule(c)
    <3>1. main'[l].at # "none" \/ main'[l] = main[l]
      BY <2>2, JobHelpers DEF Schedule
    <3>2. l \in target[c] => main'[l].at # "none"
      BY <2>2, JobHelpers DEF Schedule
    <3> QED BY <1>1, <2>1, <2>2, <3>1, <3>2 DEF Schedule, Watches
  <2>3. CASE QueueRetry(c)
    <3>1. retry'[l].at # "none" \/ retry'[l] = retry[l]
      BY <2>3, JobHelpers DEF QueueRetry
    <3> QED BY <1>1, <2>1, <2>3, <3>1 DEF QueueRetry, Watches
  <2>4. CASE Unset(c) \/ Drop(c) \/ Clear(c)
    <3>1. CASE l \in target[c]
      BY <1>1, <2>4, <3>1 DEF Unset, Drop, Clear, Watches, RevokedGone
    <3>2. CASE l \notin target[c]
      <4>1. main'[l] = main[l]
        BY <2>4, <3>2 DEF Unset, Drop, Clear, UnsetAll
      <4> QED BY <1>1, <2>1, <2>4, <3>2, <4>1 DEF Unset, Drop, Clear, Watches
    <3> QED BY <3>1, <3>2
  <2>5. CASE ClientCrashes(c)
    <3>1. CASE l \in target[c]
      <4>1. target[c] \in SUBSET Leases /\ cred[l] # "none"
        BY <1>3 DEF Known, Unissued, Rows
      <4>2. cred[l] = "gone" \/ lost'[l] \/ main[l].at # "none" \/ retry[l].at # "none"
        BY <2>5, <3>1, <4>1, GivingUp DEF ClientCrashes
      <4> QED BY <2>5, <4>2 DEF ClientCrashes, Watches
    <3>2. CASE l \notin target[c]
      BY <1>1, <2>1, <2>5, <3>2 DEF ClientCrashes, Watches
    <3> QED BY <3>1, <3>2
  <2>6. CASE Wipe(c) \/ Erase(c)
    BY <1>3, <2>6 DEF Wipe, Erase, Cascade, RowsTo, Rows
  <2>7. CASE BeginStep(c)
    BY <1>1, <2>1, <2>7, Beginning DEF Watches
  <2>8. CASE /\ ClientStep(c)
             /\ ~Schedule(c) /\ ~QueueRetry(c) /\ ~Unset(c) /\ ~Drop(c) /\ ~Clear(c) /\ ~Wipe(c) /\ ~Erase(c)
    <3>1. /\ UNCHANGED <<main, retry, listed>>
          /\ prune = "unset" => prune' = "unset"
          /\ \A d \in Clients : pc[d] \in {"schedule", "set", "wipe"} =>
               target'[d] = target[d] /\ pc'[d] = pc[d]
      BY <2>8 DEF ClientStep, Issue, IssueFails, Insert, InsertFails, Extend,
        RevokeNow, RevokeNowFails, DeleteRow, Flag, Mark, QueuePrune
    <3> QED BY <1>1, <2>1, <3>1 DEF Watches
  <2> QED BY <2>2, <2>3, <2>4, <2>5, <2>6, <2>7, <2>8
<1> QED BY <1>2, <1>3

\* A job that is done has revoked its lease; one that fails leaves it to another.
LEMMA JobWatched ==
  ASSUME TypeOK, Known, RevokedGone, Watched, NEW k \in Leases, NEW isRetry \in BOOLEAN,
         JobStep(k, isRetry) \/ JobStalls(k, isRetry)
  PROVE  Watched'
<1> USE Domains, JobHelpers DEF dbVars, jobVars, pruneVars, clientVars, history
<1> SUFFICES ASSUME NEW l \in Leases, l \in Rows'
             PROVE  Watches(l)'
  BY DEF Watched, Rows
<1>1. /\ cred[l] = "gone" => cred'[l] = "gone"
      /\ lost[l] => lost'[l]
      /\ UNCHANGED <<prune, listed, pc, target, forced>>
  <2>1. UNCHANGED <<prune, listed, pc, target, forced>>
    BY DEF JobStep, JobStarts, JobRevokes, JobDeletes, JobFails, JobStalls
  <2> QED BY <2>1, GoneStays DEF Next
<1>2. l \in Rows
  BY DEF Rows, RowsTo, JobStep, JobStarts, JobRevokes, JobDeletes, JobFails, JobStalls
<1>3. Watches(l)
  BY <1>2 DEF Watched
<1>4. CASE JobFails(k, isRetry)
  <2>1. CASE isRetry
    <3>1. /\ retry' = [retry EXCEPT ![k] = Requeued(retry[k])]
          /\ main' = [main EXCEPT ![k] = IF LastTry(retry[k]) THEN Removed(main[k]) ELSE main[k]]
          /\ mailed' = [mailed EXCEPT ![k] = mailed[k] \/ LastTry(retry[k])]
          /\ retry[k].at # "none"
      BY <1>4, <2>1 DEF JobFails, Job
    <3>2. CASE l = k /\ LastTry(retry[k])
      <4>1. mailed'[l]
        BY <3>1, <3>2
      <4> QED BY <4>1 DEF Watches
    <3>3. CASE l = k /\ ~LastTry(retry[k])
      <4>1. retry'[l].at # "none"
        BY <3>1, <3>3
      <4> QED BY <4>1 DEF Watches
    <3>4. CASE l # k
      <4>1. retry'[l] = retry[l] /\ main'[l] = main[l] /\ mailed'[l] = mailed[l]
        BY <3>1, <3>4
      <4> QED BY <1>1, <1>3, <4>1 DEF Watches
    <3> QED BY <3>2, <3>3, <3>4
  <2>2. CASE ~isRetry
    <3>1. /\ retry' = [retry EXCEPT ![k] = Added(retry[k])]
          /\ main' = [main EXCEPT ![k] = Requeued(main[k])]
          /\ mailed' = mailed
      BY <1>4, <2>2 DEF JobFails, Job
    <3>2. CASE l = k
      <4>1. retry'[l].at # "none"
        BY <3>1, <3>2
      <4> QED BY <4>1 DEF Watches
    <3>3. CASE l # k
      <4>1. retry'[l] = retry[l] /\ main'[l] = main[l]
        BY <3>1, <3>3
      <4> QED BY <1>1, <1>3, <3>1, <4>1 DEF Watches
    <3> QED BY <3>2, <3>3
  <2> QED BY <2>1, <2>2
<1>5. CASE l = k /\ JobStalls(k, isRetry)
  <2>1. lost'[l] \/ cred'[l] # "live" \/ main'[l].at # "none" \/ retry'[l].at # "none"
    BY <1>5, GivingUp DEF JobStalls
  <2>2. cred'[l] \in {"live", "gone"}
    BY <1>2, <1>5 DEF JobStalls, Known, Unissued, Rows
  <2> QED BY <2>1, <2>2 DEF Watches
<1>6. CASE ~JobFails(k, isRetry) /\ ~(l = k /\ JobStalls(k, isRetry))
  <2>1. mailed' = mailed
    BY <1>6 DEF JobStep, JobStarts, JobRevokes, JobDeletes, JobStalls
  <2>2. /\ main[l].at # "none" => main'[l].at # "none"
        /\ retry[l].at # "none" => retry'[l].at # "none"
    <3>1. CASE l # k
      BY <1>6, <3>1 DEF JobStep, JobStarts, JobRevokes, JobDeletes, JobStalls, SetJob
    <3>2. CASE l = k
      <4>1. ~JobDeletes(k, isRetry)
        BY <3>2 DEF JobDeletes, RowsTo, Rows
      <4>2. PICK job : SetJob(k, isRetry, job) /\ job.at # "none"
        <5>1. \A at \in {"waiting", "active", "revoked"} : [Job(k, isRetry) EXCEPT !.at = at].at = at
          BY DEF Job, Jobs
        <5> QED BY <1>2, <1>6, <3>2, <4>1, <5>1 DEF JobStep, JobStarts, JobRevokes
      <4> QED BY <3>2, <4>2 DEF SetJob
    <3> QED BY <3>1, <3>2
  <2> QED BY <1>1, <1>3, <2>1, <2>2 DEF Watches
<1> QED BY <1>4, <1>5, <1>6

\* Pruning watches over the leases whose jobs it has removed, until it is done or fails.
LEMMA PruneWatched ==
  ASSUME TypeOK, Known, Watched, PruneStep \/ PruneStalls
  PROVE  Watched'
<1> USE Domains DEF dbVars, jobVars, pruneVars, clientVars, history, PruneTo
<1> SUFFICES ASSUME NEW l \in Leases, l \in Rows'
             PROVE  Watches(l)'
  BY DEF Watched, Rows
<1>1. /\ cred[l] = "gone" => cred'[l] = "gone"
      /\ lost[l] => lost'[l]
      /\ UNCHANGED <<pc, target, forced, retry, mailed>>
  <2>1. UNCHANGED <<pc, target, forced, retry, mailed>>
    BY DEF PruneStep, PruneStarts, PruneUnsets, PruneRevokes, PruneDeletes, PruneFails, PruneStalls
  <2> QED BY <2>1, GoneStays DEF Next
<1>2. l \in Rows
  BY DEF Rows, RowsTo, Cascade, PruneStep, PruneStarts, PruneUnsets, PruneRevokes, PruneDeletes,
    PruneFails, PruneStalls
<1>3. Watches(l) /\ cred[l] # "none"
  BY <1>2 DEF Watched, Known, Unissued, Rows
<1>4. CASE PruneStarts
  BY <1>1, <1>3, <1>4 DEF PruneStarts, Watches
<1>5. CASE PruneUnsets
  <2>1. l \in listed \/ main'[l] = main[l]
    BY <1>5 DEF PruneUnsets, UnsetAll
  <2> QED BY <1>1, <1>3, <1>5, <2>1 DEF PruneUnsets, Watches
<1>6. CASE PruneRevokes
  <2>1. l \in listed => cred'[l] = "gone"
    BY <1>6 DEF PruneRevokes, CredsGone
  <2> QED BY <1>1, <1>3, <1>6, <2>1 DEF PruneRevokes, Watches
<1>7. CASE PruneDeletes
  BY <1>2, <1>7 DEF PruneDeletes, Cascade, RowsTo, Rows
<1>8. CASE PruneFails
  <2>1. LoseIn(listed) /\ main' = main
    BY <1>3, <1>8 DEF PruneFails, CredsGone
  <2>2. l \in listed => cred'[l] = "gone" \/ lost'[l] \/ main'[l].at # "none" \/ retry'[l].at # "none"
    <3>1. cred'[l] \in {"live", "gone"}
      BY <1>3, GoneStays, <1>8 DEF Next, PruneStep
    <3> QED BY <2>1, <3>1, GivingUp
  <2> QED BY <1>1, <1>3, <2>1, <2>2 DEF Watches
<1>9. CASE PruneStalls
  <2>1. l \in listed => cred[l] = "gone" \/ lost'[l] \/ main[l].at # "none" \/ retry[l].at # "none"
    BY <1>3, <1>9, GivingUp DEF PruneStalls
  <2> QED BY <1>1, <1>3, <1>9, <2>1 DEF PruneStalls, Watches
<1> QED BY <1>4, <1>5, <1>6, <1>7, <1>8, <1>9 DEF PruneStep

\* A folder takes all the rows with it.
LEMMA FolderWatched ==
  ASSUME TypeOK, DeleteFolder
  PROVE  Watched'
  BY Domains DEF DeleteFolder, Cascade, RowsTo, Rows, Watched

LEMMA NextWatched ==
  ASSUME TypeOK, Known, RevokedGone, Watched, [Next]_vars
  PROVE  Watched'
<1>1. CASE UNCHANGED vars
  BY <1>1 DEF vars, dbVars, jobVars, pruneVars, clientVars, history, Watched, Watches, Rows
<1> QED BY <1>1, ClientWatched, JobWatched, PruneWatched, FolderWatched DEF Next, BeginStep

-----------------------------------------------------------------------------
(* The theorems *)

LEMMA NextIInv == IInv /\ [Next]_vars => IInv'
  BY NextTypeOK, NextKnown, NextRevokedGone, NextMailDeserved, NextRowOutlives, NextWatched DEF IInv, Known

LEMMA Invariance == Spec => []IInv
  BY InitIInv, NextIInv, PTL DEF Spec

\* The rows, the jobs and the requests keep to their types.
THEOREM Typing == Spec => []TypeOK
<1>1. IInv => TypeOK
  BY DEF IInv
<1> QED BY <1>1, Invariance, PTL

\* However requests, jobs and pruning overlap, crash and fail, a row is deleted only
\* after its credential is revoked, unless the request forced it or the lease was
\* created after the leases were read for the deletion of the dynamic secret
\* (dynamic-secret-lease-service.ts:388-419).
THEOREM Credentials == Spec => []RowOutlivesCredential
<1>1. IInv => RowOutlivesCredential
  BY DEF IInv
<1> QED BY <1>1, Invariance, PTL

\* However many requests, renewals and jobs overlap, a lease keeps a job that will
\* revoke it, or a request or a pruning that is at it, unless the admins were told, a
\* request forced its deletion, or a request, job or pruning that failed or died left
\* it without one (dynamic-secret-lease-queue.ts:73-92).
THEOREM Watching == Spec => []LeaseWatched
<1>1. IInv => LeaseWatched
  BY DEF IInv, Watched, Watches, LeaseWatched
<1> QED BY <1>1, Invariance, PTL

\* For any number of attempts, nobody is told of a failed revocation before the retry
\* job has failed that many times (dynamic-secret-lease-queue.ts:263-276).
THEOREM Mails == Spec => []MailDeserved
<1>1. IInv => MailDeserved
  BY DEF IInv
<1> QED BY <1>1, Invariance, PTL

=============================================================================
