------------------------- MODULE PermissionCacheProofs -------------------------
(***************************************************************************)
(* What withCacheFingerprint promises of permissions, for any number of    *)
(* read replicas, lookups, changes and failing calls: of grants always, of *)
(* memberships and paths as long as there is a single replica.             *)
(*                                                                         *)
(* The argument: the parts of a fingerprint are read before the data, and  *)
(* the grants and paths of a state of Postgres are ordered by its counter, *)
(* so data never lacks what its fingerprint stands for (Sound): the grants *)
(* because they come from the primary, the rest if the only replica cannot *)
(* go back behind what it told the fingerprint.  Data that is found with a *)
(* fingerprint just computed has therefore what every replica had when the *)
(* request began (Fetched).  And a marker is only written by a request     *)
(* that began after the last quiet moment, when the data key holds what it *)
(* compared or wrote, or something written since (Vouching); which is what *)
(* a marker vouches for unless it was read after data that is no longer    *)
(* there.                                                                  *)
(***************************************************************************)
EXTENDS PermissionCache, FiniteSetTheorems, WellFoundedInduction, TLAPS

-----------------------------------------------------------------------------
(* The invariant *)

\* Nothing has changed more often than there were commits.
Within(s, n) ==
  /\ s.member <= n /\ s.grants <= n /\ s.paths <= n
  /\ s.version <= n /\ s.bumps <= n /\ s.told <= n

Counted ==
  /\ \A i \in 1 .. Len(log) : Within(log[i], i - 1)
  /\ owed < Len(log)

\* Later states have more; grants and announced paths change with the counter.
Ordered ==
  \A i, j \in 1 .. Len(log) :
    /\ i <= j => log[i].member <= log[j].member /\ log[i].bumps <= log[j].bumps
    /\ log[i].bumps <= log[j].bumps =>
         /\ log[i].grants <= log[j].grants
         /\ log[i].told <= log[j].told
         /\ log[i].told <= log[j].paths

\* The grants, or the paths, are those of a state with that many increments.
HasGrants(d, b) == \A i \in 1 .. Len(log) : log[i].bumps <= b => d.grants >= log[i].grants
HasPaths(d, b) == \A i \in 1 .. Len(log) : log[i].bumps <= b => d.paths >= log[i].told

\* Data is no older than its fingerprint.
Sound(blob) ==
  /\ blob.stamp.bumps <= Now.bumps
  /\ HasGrants(blob.payload, blob.stamp.bumps)
  /\ Single => /\ blob.payload.member >= blob.stamp.member
               /\ HasPaths(blob.payload, blob.stamp.bumps)

\* A request's locals live as long as it needs them.
Locals(q) ==
  /\ vouched[q] => pc[q] = "data"
  /\ seen[q] # NoBlob => pc[q] \in {"marker", "print"} /\ Sound(seen[q])
  /\ pc[q] \in {"idle", "data", "marker"} => stamp[q] = NoStamp
  /\ pc[q] = "write" => Complete(stamp[q])

\* A fingerprint is of states some replica passed since the request began.
Recent(s, q) ==
  /\ s.member # Unread =>
       /\ log[begin[q]].member <= s.member
       /\ Single => s.member <= log[Applied].member
  /\ s.version # Unread =>
       /\ log[begin[q]].bumps <= s.bumps /\ s.bumps <= Now.bumps
       /\ Single => s.bumps <= log[Applied].bumps

Stamped(q) == Recent(stamp[q], q)

\* What it has fetched so far is no older than its beginning and its fingerprint.
Fetched(q) ==
  /\ pc[q] \in {"grants", "paths", "write", "mark"} =>
       got[q].member >= log[begin[q]].member
  /\ pc[q] \in {"paths", "write", "mark"} => got[q].grants >= log[begin[q]].grants
  /\ pc[q] \in {"write", "mark"} => got[q].paths >= log[begin[q]].told
  /\ pc[q] \in {"grants", "paths", "write"} /\ Complete(stamp[q]) /\ Single =>
       got[q].member >= stamp[q].member
  /\ pc[q] \in {"paths", "write"} /\ Complete(stamp[q]) => HasGrants(got[q], stamp[q].bumps)
  /\ pc[q] = "write" /\ Single => HasPaths(got[q], stamp[q].bumps)
  /\ pc[q] \in {"validate", "answer"} /\ ~revived => Reflects(got[q], log[begin[q]])

Began(q) == begin[q] <= Applied /\ (pc[q] # "idle" => base <= begin[q])

Request(q) == Locals(q) /\ Stamped(q) /\ Fetched(q) /\ Began(q)

\* The data that is kept has what was applied at the last quiet moment.
Fresh == data # NoBlob => Reflects(data.payload, log[base])

Vouching(q) ==
  /\ vouched[q] \/ pc[q] \in {"validate", "mark"} => Fresh
  /\ pc[q] \in {"marker", "print"} /\ seen[q] # NoBlob => Fresh \/ data = seen[q]
  /\ pc[q] = "hit" => Reflects(got[q], log[base])

Cache ==
  /\ base <= Applied
  /\ data # NoBlob => Sound(data)
  /\ ~revived /\ ~unwritten => (marker => Fresh) /\ \A q \in Requests : Vouching(q)

IInv ==
  /\ TypeOK /\ Counted /\ Ordered
  /\ \A q \in Requests : Request(q)
  /\ Cache

-----------------------------------------------------------------------------
(* Postgres *)

\* Before the proofs of steps, what they do to the log and the replica.
Successor(s) ==
  /\ s \in State /\ Within(s, Len(log))
  /\ s.member >= Now.member
  /\ Now.told <= s.paths /\ s.told <= s.paths
  /\ \/ s.bumps = Now.bumps /\ s.grants = Now.grants /\ s.told = Now.told
     \/ s.bumps = Now.bumps + 1 /\ s.grants >= Now.grants /\ s.told >= Now.told

LogGrows == Len(log) <= MaxCommits /\ \E s : Successor(s) /\ log' = Append(log, s)

LEMMA Least ==
  ASSUME NEW S, S \subseteq Nat, S # {}
  PROVE  \E i \in S : \A j \in S : i <= j
<1> DEFINE R == OpToRel(<, Nat)
<1>1. IsWellFoundedOn(R, Nat)
  BY NatLessThanWellFounded
<1>2. \A i, j \in Nat : i < j => <<i, j>> \in R
  BY DEF OpToRel
<1> HIDE DEF R
<1>3. \E i \in S : \A j \in S : ~(<<j, i>> \in R)
  BY <1>1, WFMin
<1>4. PICK i \in S : \A j \in S : ~(<<j, i>> \in R)
  BY <1>3
<1>5. \A j \in S : ~(j < i)
  BY <1>2, <1>4
<1>6. \A j \in S : i <= j
  BY <1>5
<1> QED BY <1>4, <1>6

\* One of the replicas is the slowest.
Slowest(f) == CHOOSE i \in {f[r] : r \in Replicas} : \A r \in Replicas : i <= f[r]

LEMMA OneIsSlowest ==
  ASSUME NEW f \in [Replicas -> Nat]
  PROVE  (\E r \in Replicas : Slowest(f) = f[r]) /\ \A r \in Replicas : Slowest(f) <= f[r]
<1> DEFINE S == {f[r] : r \in Replicas}
<1>1. S \subseteq Nat /\ S # {}
  BY PermissionCacheAssumption
<1>2. \E i \in S : \A j \in S : i <= j
  BY <1>1, Least
<1>3. \E i \in S : \A r \in Replicas : i <= f[r]
  BY <1>2
<1>4. Slowest(f) \in S /\ \A r \in Replicas : Slowest(f) <= f[r]
  BY <1>3 DEF Slowest
<1> QED BY <1>4

LEMMA Numbers ==
  /\ \A s \in State : /\ s.member \in Nat /\ s.grants \in Nat /\ s.paths \in Nat
                      /\ s.version \in Nat /\ s.bumps \in Nat /\ s.told \in Nat
  /\ \A d \in Data : d.member \in Nat /\ d.grants \in Nat /\ d.paths \in Nat
  /\ \A t \in Stamp : t.member \in Int /\ t.version \in Int /\ t.bumps \in Int
BY PermissionCacheAssumption DEF State, Data, Stamp, Count, Unread

LEMMA Last ==
  ASSUME TypeOK, Counted
  PROVE  /\ Len(log) \in Nat /\ Len(log) >= 1 /\ Len(log) - 1 <= MaxCommits
         /\ Now \in State /\ Within(Now, Len(log) - 1)
         /\ \A i \in 1 .. Len(log) : log[i] \in State
BY PermissionCacheAssumption DEF TypeOK, Counted, Now

LEMMA Appended ==
  ASSUME TypeOK, NEW s \in State, log' = Append(log, s)
  PROVE  /\ log' \in Seq(State) /\ Len(log') = Len(log) + 1
         /\ \A i \in 1 .. Len(log) : log'[i] = log[i]
         /\ log'[Len(log) + 1] = s /\ Now' = s
BY DEF TypeOK, Now

LEMMA BumpedIs ==
  ASSUME NEW m, NEW g, NEW p, NEW v, NEW b, NEW t
  PROVE  Bumped([member |-> m, grants |-> g, paths |-> p, version |-> v, bumps |-> b, told |-> t]) =
           [member |-> m, grants |-> g, paths |-> p, version |-> v + 1, bumps |-> b + 1, told |-> p]
<1> DEFINE s0 == [member |-> m, grants |-> g, paths |-> p, version |-> v, bumps |-> b, told |-> t]
           s1 == [member |-> m, grants |-> g, paths |-> p, version |-> v + 1, bumps |-> b, told |-> t]
           s2 == [member |-> m, grants |-> g, paths |-> p, version |-> v + 1, bumps |-> b + 1, told |-> t]
<1>1. [s0 EXCEPT !.version = v + 1] = s1
  OBVIOUS
<1>2. [s1 EXCEPT !.bumps = b + 1] = s2
  OBVIOUS
<1>3. [s2 EXCEPT !.told = p] =
        [member |-> m, grants |-> g, paths |-> p, version |-> v + 1, bumps |-> b + 1, told |-> p]
  OBVIOUS
<1>4. s0.version = v /\ s0.bumps = b /\ s0.paths = p
  OBVIOUS
<1> HIDE DEF s0, s1, s2
<1>5. Bumped(s0) =
        [member |-> m, grants |-> g, paths |-> p, version |-> v + 1, bumps |-> b + 1, told |-> p]
  BY <1>1, <1>2, <1>3, <1>4 DEF Bumped
<1> QED BY <1>5 DEF s0

LEMMA NextState ==
  ASSUME TypeOK, Counted, Ordered, Len(log) <= MaxCommits
  PROVE  /\ Successor([Now EXCEPT !.member = @ + 1])
         /\ Successor(Bumped([Now EXCEPT !.grants = @ + 1]))
         /\ Successor(Bumped([Now EXCEPT !.paths = @ + 1]))
         /\ Successor([Now EXCEPT !.paths = @ + 1])
         /\ Successor(Bumped(Now))
         /\ Successor([Now EXCEPT !.version = 0])
<1>1. Now \in State /\ Within(Now, Len(log) - 1) /\ Len(log) \in Nat /\ Len(log) >= 1
  BY Last
<1>2. Now.told <= Now.paths
  BY <1>1 DEF Ordered, Now, State, Count
<1> DEFINE m == Now.member  g == Now.grants  p == Now.paths  v == Now.version
           b == Now.bumps  t == Now.told
<1>4. /\ m \in Nat /\ g \in Nat /\ p \in Nat /\ v \in Nat /\ b \in Nat /\ t \in Nat
      /\ m + 1 \in Count /\ g + 1 \in Count /\ p + 1 \in Count
      /\ v + 1 \in Count /\ b + 1 \in Count /\ 0 \in Count
      /\ m \in Count /\ g \in Count /\ p \in Count /\ v \in Count /\ b \in Count /\ t \in Count
  BY <1>1, PermissionCacheAssumption DEF Within, State, Count
<1>5. Now = [member |-> m, grants |-> g, paths |-> p, version |-> v, bumps |-> b, told |-> t]
  BY <1>1 DEF State
<1>51. /\ Now.member = m /\ Now.grants = g /\ Now.paths = p
       /\ Now.version = v /\ Now.bumps = b /\ Now.told = t
  OBVIOUS
<1> HIDE DEF m, g, p, v, b, t
<1>6. Successor([Now EXCEPT !.member = @ + 1])
  BY <1>1, <1>2, <1>4, <1>5 DEF Successor, Within, State
<1>7. Successor(Bumped([Now EXCEPT !.grants = @ + 1]))
  <2> DEFINE s == [Now EXCEPT !.grants = @ + 1]
  <2>1. s = [member |-> m, grants |-> g + 1, paths |-> p, version |-> v, bumps |-> b, told |-> t]
    BY <1>5
  <2>2. Bumped(s) =
          [member |-> m, grants |-> g + 1, paths |-> p, version |-> v + 1, bumps |-> b + 1, told |-> p]
    BY <2>1, BumpedIs
  <2> QED BY <2>2, <1>1, <1>2, <1>4, <1>51 DEF Successor, Within, State
<1>8. Successor(Bumped([Now EXCEPT !.paths = @ + 1]))
  <2> DEFINE s == [Now EXCEPT !.paths = @ + 1]
  <2>1. s = [member |-> m, grants |-> g, paths |-> p + 1, version |-> v, bumps |-> b, told |-> t]
    BY <1>5
  <2>2. Bumped(s) =
          [member |-> m, grants |-> g, paths |-> p + 1, version |-> v + 1, bumps |-> b + 1, told |-> p + 1]
    BY <2>1, BumpedIs
  <2> QED BY <2>2, <1>1, <1>2, <1>4, <1>51 DEF Successor, Within, State
<1>9. Successor([Now EXCEPT !.paths = @ + 1])
  BY <1>1, <1>2, <1>4, <1>5 DEF Successor, Within, State
<1>10. Successor(Bumped(Now))
  <2>1. Bumped(Now) =
          [member |-> m, grants |-> g, paths |-> p, version |-> v + 1, bumps |-> b + 1, told |-> p]
    BY <1>5, BumpedIs
  <2> QED BY <2>1, <1>1, <1>2, <1>4, <1>51 DEF Successor, Within, State
<1>11. Successor([Now EXCEPT !.version = 0])
  BY <1>1, <1>2, <1>4, <1>5 DEF Successor, Within, State
<1> QED
  BY <1>6, <1>7, <1>8, <1>9, <1>10, <1>11

\* What holds of the log however Postgres moves on.
Moves ==
  /\ Len(log) \in Nat /\ Len(log) >= 1 /\ Len(log') \in Nat /\ Len(log') >= Len(log)
  /\ \A i \in 1 .. Len(log) : log[i] \in State /\ log'[i] = log[i]
  /\ Now.bumps <= Now.bumps' /\ Now \in State /\ Now' \in State
  /\ \A i \in 1 .. Len(log') : log'[i] \in State
  /\ \A i \in 1 .. Len(log') : i \notin 1 .. Len(log) =>
       \/ log'[i].bumps > Now.bumps
       \/ log'[i].grants = Now.grants /\ log'[i].told = Now.told /\ log'[i].bumps = Now.bumps

LEMMA LogKept ==
  ASSUME TypeOK, Counted, UNCHANGED log
  PROVE  Moves
<1>1. Now' = Now
  BY DEF Now
<1> QED BY Last, Numbers, <1>1 DEF Moves

LEMMA LogGrown ==
  ASSUME TypeOK, Counted, Ordered, LogGrows
  PROVE  /\ Moves /\ Ordered'
         /\ log' \in Seq(State) /\ Len(log') \in 1 .. MaxCommits + 1
         /\ Len(log') = Len(log) + 1
         /\ \A i \in 1 .. Len(log') : Within(log'[i], i - 1)
<1>1. PICK s : Successor(s) /\ log' = Append(log, s)
  BY DEF LogGrows
<1>2. /\ log' \in Seq(State) /\ Len(log') = Len(log) + 1
      /\ \A i \in 1 .. Len(log) : log'[i] = log[i]
      /\ log'[Len(log) + 1] = s /\ Now' = s /\ s \in State
  BY <1>1, Appended DEF Successor
<1>3. /\ Len(log) \in Nat /\ Len(log) >= 1 /\ Now \in State
      /\ \A i \in 1 .. Len(log) : log[i] \in State
  BY Last
<1>4. Now = log[Len(log)]
  BY DEF Now
<1>5. Moves
  BY <1>1, <1>2, <1>3, Numbers DEF Moves, Successor
<1>6. Ordered'
  <2> SUFFICES ASSUME NEW i \in 1 .. Len(log) + 1, NEW j \in 1 .. Len(log) + 1
               PROVE  /\ i <= j => /\ log'[i].member <= log'[j].member
                                   /\ log'[i].bumps <= log'[j].bumps
                      /\ log'[i].bumps <= log'[j].bumps =>
                           /\ log'[i].grants <= log'[j].grants
                           /\ log'[i].told <= log'[j].told
                           /\ log'[i].told <= log'[j].paths
    BY <1>2 DEF Ordered
  <2>1. CASE i \in 1 .. Len(log) /\ j \in 1 .. Len(log)
    BY <2>1, <1>2 DEF Ordered
  <2>2. CASE i \in 1 .. Len(log) /\ j = Len(log) + 1
    <3>1. log[i].member <= Now.member /\ log[i].bumps <= Now.bumps
      BY <2>2, <1>3, <1>4 DEF Ordered
    <3>2. log[i].grants <= Now.grants /\ log[i].told <= Now.told
      BY <2>2, <1>3, <1>4, <3>1 DEF Ordered
    <3>3. log[i].told \in Nat /\ log[i].grants \in Nat /\ log[i].member \in Nat /\ log[i].bumps \in Nat
      BY <2>2, <1>3, Numbers
    <3>4. /\ s.told \in Nat /\ s.grants \in Nat /\ s.member \in Nat /\ s.bumps \in Nat /\ s.paths \in Nat
          /\ Now.told \in Nat /\ Now.grants \in Nat /\ Now.member \in Nat /\ Now.bumps \in Nat
      BY <1>2, <1>3, Numbers
    <3>5. log'[i] = log[i] /\ log'[j] = s
      BY <2>2, <1>2
    <3>6. /\ log[i].member <= s.member /\ log[i].bumps <= s.bumps /\ log[i].grants <= s.grants
          /\ log[i].told <= s.told /\ log[i].told <= s.paths
      <4>1. Now.member <= s.member /\ Now.told <= s.paths /\ Now.bumps <= s.bumps
        BY <3>4, <1>1 DEF Successor
      <4>2. Now.grants <= s.grants /\ Now.told <= s.told
        BY <3>4, <1>1 DEF Successor
      <4>3. \A x, y, z \in Nat : x <= y /\ y <= z => x <= z
        OBVIOUS
      <4>4. log[i].member <= s.member /\ log[i].bumps <= s.bumps
        BY <3>1, <3>3, <3>4, <4>1, <4>3
      <4>5. log[i].grants <= s.grants
        BY <3>2, <3>3, <3>4, <4>2, <4>3
      <4>6. log[i].told <= s.told /\ log[i].told <= s.paths
        BY <3>2, <3>3, <3>4, <4>1, <4>2, <4>3
      <4> QED BY <4>4, <4>5, <4>6
    <3> QED BY <3>5, <3>6
  <2>3. CASE i = Len(log) + 1 /\ j \in 1 .. Len(log)
    <3>1. log[j].member <= Now.member /\ log[j].bumps <= Now.bumps
      BY <2>3, <1>3, <1>4 DEF Ordered
    <3>2. Now.bumps <= log[j].bumps =>
            Now.grants <= log[j].grants /\ Now.told <= log[j].told /\ Now.told <= log[j].paths
      BY <2>3, <1>3, <1>4 DEF Ordered
    <3> QED BY <3>1, <3>2, <2>3, <1>1, <1>2, <1>3, Numbers DEF Successor
  <2>4. CASE i = Len(log) + 1 /\ j = Len(log) + 1
    BY <2>4, <1>1, <1>2, <1>3, Numbers DEF Successor
  <2> QED BY <2>1, <2>2, <2>3, <2>4, <1>3
<1>7. \A i \in 1 .. Len(log') : Within(log'[i], i - 1)
  <2> SUFFICES ASSUME NEW i \in 1 .. Len(log') PROVE Within(log'[i], i - 1)
    OBVIOUS
  <2>1. CASE i \in 1 .. Len(log)
    BY <2>1, <1>2 DEF Counted
  <2>2. CASE i = Len(log) + 1
    BY <2>2, <1>1, <1>2, <1>3 DEF Successor
  <2> QED BY <2>1, <2>2, <1>2, <1>3
<1>8. Len(log') \in 1 .. MaxCommits + 1
  BY <1>2, <1>3, PermissionCacheAssumption DEF LogGrows
<1> QED BY <1>2, <1>5, <1>6, <1>7, <1>8

LEMMA StillHas ==
  ASSUME Moves, NEW d \in Data, NEW b \in Int, b <= Now.bumps
  PROVE  /\ HasGrants(d, b) => HasGrants(d, b)'
         /\ HasPaths(d, b) => HasPaths(d, b)'
<1>1. Now = log[Len(log)] /\ Len(log) \in 1 .. Len(log)
  BY DEF Now, Moves
<1>2. HasGrants(d, b) => HasGrants(d, b)'
  <2> SUFFICES ASSUME HasGrants(d, b), NEW i \in 1 .. Len(log'), log'[i].bumps <= b
               PROVE  d.grants >= log'[i].grants
    BY DEF HasGrants
  <2>1. CASE i \in 1 .. Len(log)
    BY <2>1 DEF Moves, HasGrants
  <2>2. CASE i \notin 1 .. Len(log)
    <3>1. log'[i].grants = Now.grants /\ Now.bumps <= b
      <4>1. log'[i].bumps \in Nat /\ Now.bumps \in Nat
        BY Numbers DEF Moves
      <4> QED BY <4>1, <2>2 DEF Moves
    <3> QED BY <3>1, <1>1 DEF HasGrants
  <2> QED BY <2>1, <2>2
<1>3. HasPaths(d, b) => HasPaths(d, b)'
  <2> SUFFICES ASSUME HasPaths(d, b), NEW i \in 1 .. Len(log'), log'[i].bumps <= b
               PROVE  d.paths >= log'[i].told
    BY DEF HasPaths
  <2>1. CASE i \in 1 .. Len(log)
    BY <2>1 DEF Moves, HasPaths
  <2>2. CASE i \notin 1 .. Len(log)
    <3>1. log'[i].told = Now.told /\ Now.bumps <= b
      <4>1. log'[i].bumps \in Nat /\ Now.bumps \in Nat
        BY Numbers DEF Moves
      <4> QED BY <4>1, <2>2 DEF Moves
    <3> QED BY <3>1, <1>1 DEF HasPaths
  <2> QED BY <2>1, <2>2
<1> QED BY <1>2, <1>3

LEMMA StillSound ==
  ASSUME Moves, NEW blob \in Blob, Sound(blob)
  PROVE  Sound(blob)'
<1>1. /\ blob.stamp.bumps \in Int /\ blob.payload \in Data
      /\ blob.stamp.bumps <= Now.bumps
  BY Numbers DEF Blob, Sound
<1>2. blob.stamp.bumps <= Now'.bumps
  BY <1>1, Numbers DEF Moves
<1> QED BY <1>1, <1>2, StillHas DEF Sound

\* What holds of Postgres before and after any step.
World ==
  /\ Moves /\ Counted' /\ Ordered'
  /\ log' \in Seq(State) /\ Len(log') \in 1 .. MaxCommits + 1
  /\ at' \in [Replicas -> 1 .. Len(log')]
  /\ lapsed' \in Count /\ owed' \in Count
  /\ Applied \in 1 .. Len(log) /\ Applied' \in 1 .. Len(log') /\ Applied <= Applied'
  /\ \A r \in Replicas : Applied <= at[r] /\ (Single => at[r] = Applied)

LEMMA ReplicaMoves ==
  ASSUME TypeOK, Moves, at' \in [Replicas -> 1 .. Len(log')],
         \A r \in Replicas : at[r] <= at'[r]
  PROVE  /\ Applied \in 1 .. Len(log) /\ Applied' \in 1 .. Len(log') /\ Applied <= Applied'
         /\ \A r \in Replicas : Applied <= at[r] /\ (Single => at[r] = Applied)
<1>1. at \in [Replicas -> 1 .. Len(log)] /\ at \in [Replicas -> Nat] /\ at' \in [Replicas -> Nat]
  BY DEF TypeOK, Moves
<1>2. (\E r \in Replicas : Applied = at[r]) /\ \A r \in Replicas : Applied <= at[r]
  BY <1>1, OneIsSlowest DEF Applied, Slowest
<1>3. \E r \in Replicas : Applied' = at'[r]
  BY <1>1, OneIsSlowest DEF Applied, Slowest
<1>4. Applied \in 1 .. Len(log) /\ Applied' \in 1 .. Len(log')
  BY <1>1, <1>2, <1>3
<1>5. Applied <= Applied'
  <2>1. PICK r \in Replicas : Applied' = at'[r]
    BY <1>3
  <2>2. Applied <= at[r] /\ at[r] <= at'[r]
    BY <1>2
  <2> QED BY <1>1, <1>4, <2>1, <2>2
<1>6. Single => \A r \in Replicas : at[r] = Applied
  BY <1>2, FS_Singleton, PermissionCacheAssumption DEF Single
<1> QED BY <1>2, <1>4, <1>5, <1>6

LEMMA WorldStays ==
  ASSUME TypeOK, Counted, Ordered, UNCHANGED dbVars
  PROVE  World
<1>1. Moves
  BY LogKept DEF dbVars
<1>2. Counted' /\ Ordered'
  BY DEF dbVars, Counted, Ordered
<1>3. /\ log' \in Seq(State) /\ Len(log') \in 1 .. MaxCommits + 1
      /\ at' \in [Replicas -> 1 .. Len(log')] /\ lapsed' \in Count /\ owed' \in Count
      /\ \A r \in Replicas : at[r] <= at'[r]
  BY DEF dbVars, TypeOK
<1> QED BY <1>1, <1>2, <1>3, ReplicaMoves DEF World

LEMMA DatabaseMoves ==
  ASSUME TypeOK, Counted, Ordered, DatabaseStep
  PROVE  World /\ UNCHANGED <<data, marker, reqVars, revived, faults>>
<1> DEFINE Rest == UNCHANGED <<data, marker, reqVars, revived, faults>>
<1>1. /\ Len(log) \in Nat /\ Len(log) >= 1 /\ Len(log) - 1 <= MaxCommits /\ MaxCommits \in Nat
      /\ Now \in State /\ Within(Now, Len(log) - 1)
      /\ at \in [Replicas -> 1 .. Len(log)] /\ owed \in Nat /\ owed < Len(log) /\ lapsed \in Count
  BY Last, PermissionCacheAssumption DEF TypeOK, Counted, Count
<1>2. ASSUME LogGrows, UNCHANGED at, lapsed' \in Count, owed' \in Nat, owed' <= Len(log)
      PROVE  World
  <2>1. /\ Moves /\ Ordered'
        /\ log' \in Seq(State) /\ Len(log') \in 1 .. MaxCommits + 1 /\ Len(log') = Len(log) + 1
        /\ \A i \in 1 .. Len(log') : Within(log'[i], i - 1)
    BY <1>2, LogGrown
  <2>2. Counted' /\ owed' \in Count
    BY <2>1, <1>1, <1>2 DEF Counted, Count
  <2>3. at' \in [Replicas -> 1 .. Len(log')] /\ \A r \in Replicas : at[r] <= at'[r]
    BY <2>1, <1>1, <1>2
  <2> QED BY <2>1, <2>2, <2>3, <1>2, ReplicaMoves DEF World
<1>3. CASE ChangeMember
  <2>1. LogGrows /\ Rest /\ UNCHANGED <<at, lapsed, owed>>
    BY <1>3, NextState DEF ChangeMember, Commit, LogGrows
  <2> QED BY <2>1, <1>1, <1>2
<1>4. CASE ChangeGrant
  <2>1. LogGrows /\ Rest /\ UNCHANGED <<at, lapsed, owed>>
    BY <1>4, NextState DEF ChangeGrant, Commit, LogGrows
  <2> QED BY <2>1, <1>1, <1>2
<1>5. CASE ChangeEnvironment
  <2>1. LogGrows /\ Rest /\ UNCHANGED <<at, lapsed, owed>>
    BY <1>5, NextState DEF ChangeEnvironment, Commit, LogGrows
  <2> QED BY <2>1, <1>1, <1>2
<1>6. CASE Rename
  <2>1. LogGrows /\ Rest /\ UNCHANGED <<at, lapsed>> /\ owed' = owed + 1
    BY <1>6, NextState DEF Rename, Commit, LogGrows
  <2> QED BY <2>1, <1>1, <1>2
<1>7. CASE BumpAfter
  <2>1. LogGrows /\ Rest /\ UNCHANGED <<at, lapsed>> /\ owed > 0 /\ owed' = owed - 1
    BY <1>7, NextState DEF BumpAfter, Commit, LogGrows
  <2> QED BY <2>1, <1>1, <1>2
<1>8. CASE Lapse
  <2>1. UNCHANGED <<log, at, owed>> /\ Rest /\ lapsed' = Now.bumps
    BY <1>8 DEF Lapse
  <2>2. Moves
    BY <2>1, LogKept
  <2>3. Counted' /\ Ordered' /\ lapsed' \in Count
    BY <2>1, <1>1 DEF Counted, Ordered, State
  <2>4. /\ log' \in Seq(State) /\ Len(log') \in 1 .. MaxCommits + 1 /\ owed' \in Count
        /\ at' \in [Replicas -> 1 .. Len(log')] /\ \A r \in Replicas : at[r] <= at'[r]
    BY <2>1, <1>1 DEF TypeOK
  <2> QED BY <2>1, <2>2, <2>3, <2>4, ReplicaMoves DEF World
<1>9. CASE Prune
  <2>1. LogGrows /\ Rest /\ UNCHANGED <<at, lapsed, owed>>
    BY <1>9, NextState DEF Prune, Commit, LogGrows
  <2> QED BY <2>1, <1>1, <1>2
<1>10. ASSUME NEW r \in Replicas, Replicate(r) PROVE World /\ Rest
  <2>1. UNCHANGED <<log, lapsed, owed>> /\ Rest /\ at[r] < Len(log) /\ at' = [at EXCEPT ![r] = @ + 1]
    BY <1>10 DEF Replicate
  <2>2. Moves
    BY <2>1, LogKept
  <2>3. Counted' /\ Ordered' /\ lapsed' \in Count /\ owed' \in Count
    BY <2>1, <1>1 DEF Counted, Ordered, TypeOK
  <2>4. /\ log' \in Seq(State) /\ Len(log') \in 1 .. MaxCommits + 1
        /\ at' \in [Replicas -> 1 .. Len(log')] /\ \A x \in Replicas : at[x] <= at'[x]
    BY <2>1, <1>1 DEF TypeOK
  <2> QED BY <2>1, <2>2, <2>3, <2>4, ReplicaMoves DEF World
<1> QED
  BY <1>3, <1>4, <1>5, <1>6, <1>7, <1>8, <1>9, <1>10 DEF DatabaseStep

-----------------------------------------------------------------------------
(* Types *)

LEMMA BaseMoves ==
  ASSUME TypeOK, World, History
  PROVE  base' \in 1 .. Len(log') /\ unwritten' \in BOOLEAN
<1>1. base' \in 1 .. Len(log')
  BY DEF TypeOK, World, Moves, History
<1>2. unwritten' \in BOOLEAN
  BY DEF History
<1> QED BY <1>1, <1>2

\* The types of Redis and of the requests' locals.
Typed ==
  /\ data \in Blob \union {NoBlob}
  /\ marker \in BOOLEAN
  /\ pc \in [Requests -> Phases]
  /\ vouched \in [Requests -> BOOLEAN]
  /\ seen \in [Requests -> Blob \union {NoBlob}]
  /\ stamp \in [Requests -> Stamp]
  /\ got \in [Requests -> Data]
  /\ begin \in [Requests -> 1 .. Len(log)]
  /\ revived \in BOOLEAN
  /\ faults \in 0 .. MaxFaults

LEMMA FaultCounted ==
  ASSUME faults \in 0 .. MaxFaults, Fault
  PROVE  faults' \in 0 .. MaxFaults
BY PermissionCacheAssumption DEF Fault

LEMMA Blanks ==
  /\ NoStamp \in Stamp /\ NoData \in Data /\ 0 \in Count
  /\ NoStamp.member = Unread /\ NoStamp.version = Unread
<1>1. 0 \in Count
  BY PermissionCacheAssumption DEF Count
<1> QED BY <1>1 DEF NoStamp, NoData, Stamp, Data

LEMMA Updates ==
  /\ \A d \in Data, n \in Count :
       /\ [d EXCEPT !.grants = n] \in Data
       /\ [d EXCEPT !.paths = n] \in Data
       /\ [d EXCEPT !.member = n] \in Data
  /\ \A t \in Stamp, n, k \in Count :
       /\ [t EXCEPT !.member = n] \in Stamp
       /\ [t EXCEPT !.version = n, !.bumps = k] \in Stamp
<1>1. \A d \in Data, n \in Count :
        /\ [d EXCEPT !.grants = n] \in Data
        /\ [d EXCEPT !.paths = n] \in Data
        /\ [d EXCEPT !.member = n] \in Data
  BY DEF Data
<1>2. \A t \in Stamp, n, k \in Count :
        /\ [t EXCEPT !.member = n] \in Stamp
        /\ [t EXCEPT !.version = n, !.bumps = k] \in Stamp
  BY DEF Stamp
<1> QED BY <1>1, <1>2

LEMMA FinishTyped ==
  ASSUME Typed, log' = log, Len(log) \in Nat, Len(log) >= 1, NEW q \in Requests, Finish(q)
  PROVE  Typed'
<1>1. NoStamp \in Stamp /\ NoData \in Data /\ 1 \in 1 .. Len(log)
  BY Blanks
<1> QED BY <1>1 DEF Typed, Finish, Goto, Phases

LEMMA PrintedTyped ==
  ASSUME Typed, log' = log, Len(log) \in Nat, NEW q \in Requests, NEW s \in Stamp, Printed(q, s),
         UNCHANGED <<data, marker, vouched, begin, faults>>
  PROVE  Typed'
<1>1. NoStamp \in Stamp
  BY Blanks
<1>2. CASE ~Complete(s)
  <2>1. stamp' = [stamp EXCEPT ![q] = s] /\ UNCHANGED <<pc, seen, got, revived>>
    BY <1>2 DEF Printed
  <2> QED BY <2>1 DEF Typed
<1>3. CASE Complete(s)
  <2>1. seen' = [seen EXCEPT ![q] = NoBlob]
    BY <1>3 DEF Printed
  <2>2. CASE seen[q] # NoBlob /\ Matches(s, seen[q].stamp)
    <3>1. /\ pc' = [pc EXCEPT ![q] = "validate"]
          /\ stamp' = [stamp EXCEPT ![q] = NoStamp]
          /\ got' = [got EXCEPT ![q] = seen[q].payload]
          /\ revived' = (revived \/ Revives(s, seen[q].stamp))
      BY <1>3, <2>2 DEF Printed, Goto
    <3>2. seen[q].payload \in Data
      BY <2>2 DEF Typed, Blob
    <3> QED BY <1>1, <2>1, <3>1, <3>2 DEF Typed, Phases
  <2>3. CASE ~(seen[q] # NoBlob /\ Matches(s, seen[q].stamp))
    <3>1. /\ pc' = [pc EXCEPT ![q] = "members"]
          /\ stamp' = [stamp EXCEPT ![q] = s]
          /\ UNCHANGED <<got, revived>>
      BY <1>3, <2>3 DEF Printed, Goto
    <3> QED BY <2>1, <3>1 DEF Typed, Phases
  <2> QED BY <2>2, <2>3
<1> QED BY <1>2, <1>3

LEMMA RequestTyped ==
  ASSUME TypeOK, World, UNCHANGED dbVars, NEW q \in Requests, LookupStep(q)
  PROVE  Typed'
<1>1. /\ Typed /\ Len(log) \in Nat /\ Len(log) >= 1 /\ log' = log /\ Applied \in 1 .. Len(log)
      /\ \A i \in 1 .. Len(log) : log[i] \in State
      /\ \A r \in Replicas : at[r] \in 1 .. Len(log)
      /\ Now \in State
  BY DEF TypeOK, Typed, World, Moves, dbVars
<1>2. \A s \in State : /\ s.member \in Count /\ s.grants \in Count /\ s.paths \in Count
                       /\ s.bumps \in Count /\ Version(s) \in Count
  <2>1. 0 \in Count
    BY PermissionCacheAssumption DEF Count
  <2> QED BY <2>1 DEF State, Version
<1>3. CASE ReadMarker(q)
  BY <1>3, <1>1, FaultCounted DEF ReadMarker, Goto, Typed, Phases
<1>4. CASE ReadData(q)
  <2>1. CASE vouched[q] /\ data # NoBlob /\ got' = [got EXCEPT ![q] = data.payload] /\ Goto(q, "hit") /\ UNCHANGED <<seen, faults>>
    <3>1. data.payload \in Data
      BY <2>1, <1>1 DEF Typed, Blob
    <3> QED BY <3>1, <2>1, <1>4, <1>1 DEF ReadData, Goto, Typed, Phases
  <2>2. CASE Goto(q, "print") /\ seen' = [seen EXCEPT ![q] = data] /\ UNCHANGED <<got, faults>>
    BY <2>2, <1>4, <1>1 DEF ReadData, Goto, Typed, Phases
  <2>3. CASE Fault /\ Goto(q, "print") /\ UNCHANGED <<seen, got>>
    BY <2>3, <1>4, <1>1, FaultCounted DEF ReadData, Goto, Typed, Phases
  <2> QED BY <1>4, <2>1, <2>2, <2>3 DEF ReadData
<1>15. CASE ReadDataFirst(q)
  BY <1>15, <1>1, FaultCounted DEF ReadDataFirst, Goto, Typed, Phases
<1>16. CASE ReadMarkerLast(q)
  <2>1. CASE /\ seen[q] # NoBlob /\ pc' = [pc EXCEPT ![q] = IF data = seen[q] THEN "hit" ELSE "crossed"]
             /\ got' = [got EXCEPT ![q] = seen[q].payload] /\ seen' = [seen EXCEPT ![q] = NoBlob]
             /\ UNCHANGED faults
    <3>1. seen[q].payload \in Data
      BY <2>1, <1>1 DEF Typed, Blob
    <3> QED BY <3>1, <2>1, <1>16, <1>1 DEF ReadMarkerLast, Typed, Phases
  <2>2. CASE Goto(q, "print") /\ UNCHANGED <<seen, got, faults>>
    BY <2>2, <1>16, <1>1 DEF ReadMarkerLast, Goto, Typed, Phases
  <2>3. CASE Fault /\ Goto(q, "print") /\ UNCHANGED <<seen, got>>
    BY <2>3, <1>16, <1>1, FaultCounted DEF ReadMarkerLast, Goto, Typed, Phases
  <2> QED BY <1>16, <2>1, <2>2, <2>3 DEF ReadMarkerLast, Goto
<1>5. CASE ReadMembership(q)
  <2>1. PICK r \in Replicas : Printed(q, [stamp[q] EXCEPT !.member = log[at[r]].member])
    BY <1>5 DEF ReadMembership
  <2>2. [stamp[q] EXCEPT !.member = log[at[r]].member] \in Stamp
    BY <1>1, <1>2, Updates DEF Typed
  <2> QED BY <2>1, <2>2, <1>1, <1>5, PrintedTyped DEF ReadMembership
<1>6. CASE ReadVersion(q)
  <2>1. PICK r \in Replicas : Printed(q, [stamp[q] EXCEPT !.version = Version(log[at[r]]),
                                                          !.bumps = log[at[r]].bumps])
    BY <1>6 DEF ReadVersion
  <2>2. [stamp[q] EXCEPT !.version = Version(log[at[r]]), !.bumps = log[at[r]].bumps] \in Stamp
    BY <1>1, <1>2, Updates DEF Typed
  <2> QED BY <2>1, <2>2, <1>1, <1>6, PrintedTyped DEF ReadVersion
<1>7. CASE PrintFails(q)
  BY <1>7, <1>1, FaultCounted, Blanks DEF PrintFails, Goto, Typed, Phases
<1>8. CASE FetchMembers(q)
  <2>1. PICK r \in Replicas : got' = [got EXCEPT ![q] = [NoData EXCEPT !.member = log[at[r]].member]]
    BY <1>8 DEF FetchMembers
  <2>2. [NoData EXCEPT !.member = log[at[r]].member] \in Data
    BY <1>1, <1>2, Blanks, Updates
  <2> QED BY <2>1, <2>2, <1>1, <1>8 DEF FetchMembers, Goto, Typed, Phases
<1>9. CASE FetchGrants(q)
  <2>1. got' = [got EXCEPT ![q] = [got[q] EXCEPT !.grants = Now.grants]]
    BY <1>9, <1>1 DEF FetchGrants, Typed
  <2>2. [got[q] EXCEPT !.grants = Now.grants] \in Data
    BY <1>1, <1>2, Updates DEF Typed
  <2> QED BY <2>1, <2>2, <1>1, <1>9 DEF FetchGrants, Goto, Typed, Phases
<1>10. CASE FetchPaths(q)
  <2>1. PICK r \in Replicas : got' = [got EXCEPT ![q] = [got[q] EXCEPT !.paths = log[at[r]].paths]]
    BY <1>10, <1>1 DEF FetchPaths, Typed
  <2>2. [got[q] EXCEPT !.paths = log[at[r]].paths] \in Data
    BY <1>1, <1>2, Updates DEF Typed
  <2> QED BY <2>1, <2>2, <1>1, <1>10 DEF FetchPaths, Goto, Typed, Phases
<1>11. CASE FetchFails(q)
  BY <1>11, <1>1, FinishTyped DEF FetchFails
<1>12. CASE WriteData(q)
  <2>1. [stamp |-> stamp[q], payload |-> got[q]] \in Blob
    BY <1>1 DEF Typed, Blob
  <2> QED BY <2>1, <1>12, <1>1, FaultCounted, Blanks DEF WriteData, Goto, Typed, Phases
<1>13. CASE WriteMarker(q)
  BY <1>13, <1>1, FaultCounted DEF WriteMarker, Goto, Typed, Phases
<1>14. CASE Return(q)
  BY <1>14, <1>1, FinishTyped DEF Return
<1> QED
  BY <1>3, <1>4, <1>5, <1>6, <1>7, <1>8, <1>9, <1>10, <1>11, <1>12, <1>13, <1>14, <1>15, <1>16
  DEF LookupStep

-----------------------------------------------------------------------------
(* Requests *)

\* What the other invariants say of one state of the log, in numbers.
LEMMA Reads ==
  ASSUME TypeOK, World, Ordered, NEW q \in Requests
  PROVE  /\ begin[q] \in 1 .. Len(log) /\ log'[begin[q]] = log[begin[q]] /\ log[begin[q]] \in State
         /\ log'[Applied] = log[Applied] /\ log[Applied] \in State /\ log'[Applied'] \in State
         /\ log[Applied].member <= log'[Applied'].member
         /\ log[Applied].bumps <= log'[Applied'].bumps
         /\ log[Applied].bumps <= Now.bumps /\ Now \in State
         /\ begin[q] <= Applied =>
              /\ log[begin[q]].member <= log[Applied].member
              /\ log[begin[q]].bumps <= log[Applied].bumps
              /\ log[begin[q]].told <= log[Applied].paths
              /\ log[begin[q]].grants <= Now.grants
<1>1. /\ begin[q] \in 1 .. Len(log) /\ Len(log) \in 1 .. Len(log)
      /\ Applied \in 1 .. Len(log) /\ Applied' \in 1 .. Len(log') /\ Applied \in 1 .. Len(log')
      /\ Applied <= Applied'
  BY DEF TypeOK, World, Moves
<1>2. /\ log'[begin[q]] = log[begin[q]] /\ log[begin[q]] \in State
      /\ log'[Applied] = log[Applied] /\ log[Applied] \in State /\ log'[Applied'] \in State
      /\ Now = log[Len(log)] /\ Now \in State
  BY <1>1 DEF World, Moves, Now
<1>3. /\ log'[Applied].member <= log'[Applied'].member
      /\ log'[Applied].bumps <= log'[Applied'].bumps
  BY <1>1 DEF World, Ordered
<1>4. log[Applied].bumps <= Now.bumps
  BY <1>1, <1>2 DEF Ordered
<1>5. ASSUME begin[q] <= Applied
      PROVE  /\ log[begin[q]].member <= log[Applied].member
             /\ log[begin[q]].bumps <= log[Applied].bumps
             /\ log[begin[q]].told <= log[Applied].paths
             /\ log[begin[q]].grants <= Now.grants
  <2>1. /\ log[begin[q]].member <= log[Applied].member
        /\ log[begin[q]].bumps <= log[Applied].bumps
    BY <1>1, <1>5 DEF Ordered
  <2>2. log[begin[q]].told <= log[Applied].paths
    BY <1>1, <2>1 DEF Ordered
  <2>3. log[begin[q]].bumps <= Now.bumps
    BY <1>1, <1>2 DEF Ordered
  <2> QED BY <1>1, <1>2, <2>1, <2>2, <2>3 DEF Ordered
<1> QED BY <1>1, <1>2, <1>3, <1>4, <1>5

\* A step that leaves a request's locals alone leaves it as it was.
LEMMA Unaffected ==
  ASSUME TypeOK, Ordered, World, History, revived => revived',
         NEW q \in Requests, Request(q),
         pc'[q] = pc[q], vouched'[q] = vouched[q], seen'[q] = seen[q],
         stamp'[q] = stamp[q], got'[q] = got[q], begin'[q] = begin[q]
  PROVE  Request(q)'
<1>1. /\ begin[q] \in 1 .. Len(log) /\ log'[begin[q]] = log[begin[q]] /\ log[begin[q]] \in State
      /\ log'[Applied] = log[Applied] /\ log[Applied] \in State /\ log'[Applied'] \in State
      /\ log[Applied].member <= log'[Applied'].member
      /\ log[Applied].bumps <= log'[Applied'].bumps
      /\ log[Applied].bumps <= Now.bumps /\ Now \in State
  BY Reads
<1>2. /\ got[q] \in Data /\ stamp[q] \in Stamp /\ seen[q] \in Blob \union {NoBlob}
      /\ stamp[q].bumps \in Int /\ stamp[q].member \in Int
      /\ log[Applied].bumps \in Nat /\ log'[Applied'].bumps \in Nat
      /\ log[Applied].member \in Nat /\ log'[Applied'].member \in Nat /\ Now.bumps \in Nat
  BY <1>1, Numbers DEF TypeOK
<1>3. Locals(q)'
  <2>1. seen[q] # NoBlob => Sound(seen[q])'
    BY <1>2, StillSound DEF Request, Locals, World
  <2> QED BY <2>1 DEF Request, Locals, Complete
<1>4. Stamped(q)'
  <2>1. Now.bumps <= Now'.bumps /\ Now'.bumps \in Nat
    BY Numbers DEF World, Moves
  <2>2. Recent(stamp[q], q)
    BY DEF Request, Stamped
  <2>3. stamp[q].version # Unread => stamp[q].bumps <= Now'.bumps
    BY <1>2, <2>1, <2>2 DEF Recent
  <2>4. Single => /\ stamp[q].member # Unread => stamp[q].member <= log'[Applied'].member
                  /\ stamp[q].version # Unread => stamp[q].bumps <= log'[Applied'].bumps
    BY <1>1, <1>2, <2>2 DEF Recent
  <2> QED BY <1>1, <2>2, <2>3, <2>4 DEF Stamped, Recent
<1>5. Fetched(q)'
  <2>1. Complete(stamp[q]) => stamp[q].bumps <= Now.bumps
    BY <1>1, <1>2 DEF Request, Stamped, Recent, Complete
  <2>2. Complete(stamp[q]) =>
          /\ HasGrants(got[q], stamp[q].bumps) => HasGrants(got[q], stamp[q].bumps)'
          /\ HasPaths(got[q], stamp[q].bumps) => HasPaths(got[q], stamp[q].bumps)'
    BY <2>1, <1>2, StillHas DEF World
  <2>3. pc[q] = "write" => Complete(stamp[q])
    BY DEF Request, Locals
  <2> QED BY <1>1, <2>2, <2>3 DEF Request, Fetched, Complete, Reflects, HasGrants, HasPaths
<1>6. Began(q)'
  <2>1. begin'[q] <= Applied'
    BY <1>1 DEF Request, Began, World
  <2>2. pc'[q] # "idle" => base' = base
    BY DEF History, Quiet
  <2> QED BY <2>1, <2>2 DEF Request, Began
<1> QED BY <1>3, <1>4, <1>5, <1>6 DEF Request

\* What a request finds at a replica is no older than its beginning.
Passed(r, q) ==
  /\ log[at[r]] \in State
  /\ log[begin[q]].member <= log[at[r]].member
  /\ log[begin[q]].bumps <= log[at[r]].bumps /\ log[at[r]].bumps <= Now.bumps
  /\ log[begin[q]].told <= log[at[r]].paths
  /\ Single => at[r] = Applied

LEMMA Beginning ==
  ASSUME TypeOK, World, Ordered, NEW q \in Requests, begin[q] <= Applied, NEW r \in Replicas
  PROVE  Passed(r, q)
<1>1. /\ begin[q] \in 1 .. Len(log) /\ at[r] \in 1 .. Len(log) /\ Len(log) \in 1 .. Len(log)
      /\ Applied \in 1 .. Len(log) /\ Applied <= at[r] /\ Now = log[Len(log)]
      /\ log[at[r]] \in State /\ (Single => at[r] = Applied)
  BY DEF TypeOK, World, Moves, Now
<1>2. begin[q] <= at[r] /\ at[r] <= Len(log)
  BY <1>1
<1>3. /\ log[begin[q]].member <= log[at[r]].member
      /\ log[begin[q]].bumps <= log[at[r]].bumps /\ log[at[r]].bumps <= Now.bumps
  BY <1>1, <1>2 DEF Ordered
<1>4. log[begin[q]].told <= log[at[r]].paths
  BY <1>1, <1>3 DEF Ordered
<1> QED BY <1>1, <1>3, <1>4 DEF Passed

\* The requests' steps find Postgres as it is.
LEMMA Same ==
  ASSUME TypeOK, World, Ordered, UNCHANGED dbVars, NEW q \in Requests, Request(q)
  PROVE  /\ log' = log /\ Now' = Now /\ Applied' = Applied
         /\ Applied \in 1 .. Len(log) /\ begin[q] \in 1 .. Len(log) /\ begin[q] <= Applied
         /\ \A r \in Replicas : Passed(r, q)
         /\ log[begin[q]].grants <= Now.grants
         /\ log[Applied].bumps <= Now.bumps
         /\ log[begin[q]] \in State /\ log[Applied] \in State /\ Now \in State
<1>1. log' = log /\ Now' = Now /\ Applied' = Applied
  BY DEF dbVars, Now, Applied
<1>2. \A r \in Replicas : Passed(r, q)
  BY Beginning DEF Request, Began
<1> QED BY <1>1, <1>2, Reads DEF Request, Began, World

LEMMA Finished ==
  ASSUME TypeOK, World, UNCHANGED dbVars, NEW q \in Requests, Finish(q)
  PROVE  Request(q)'
<1>1. /\ pc'[q] = "idle" /\ ~vouched'[q] /\ seen'[q] = NoBlob /\ stamp'[q] = NoStamp /\ begin'[q] = 1
  BY DEF Finish, Goto, TypeOK
<1>2. begin'[q] <= Applied'
  BY <1>1 DEF World
<1> QED BY <1>1, <1>2, Blanks DEF Request, Locals, Stamped, Recent, Fetched, Began, Complete

LEMMA PrintedRequest ==
  ASSUME TypeOK, Ordered, World, UNCHANGED dbVars, History, NEW q \in Requests, Request(q),
         pc[q] = "print", NEW s \in Stamp, Recent(s, q), Printed(q, s), UNCHANGED <<vouched, begin>>
  PROVE  Request(q)'
<1>1. /\ log' = log /\ Now' = Now /\ Applied' = Applied /\ begin' = begin
      /\ begin[q] \in 1 .. Len(log)
  BY Same
<1>2. ~vouched'[q] /\ pc'[q] # "idle" /\ pc'[q] \in {"print", "validate", "members"}
  BY DEF Request, Locals, Printed, Goto, TypeOK
<1>3. Began(q)'
  BY <1>1, <1>2 DEF Request, Began, History, Quiet
<1>4. CASE ~Complete(s)
  <2>1. stamp'[q] = s /\ pc'[q] = pc[q] /\ seen'[q] = seen[q]
    BY <1>4 DEF Printed, TypeOK
  <2>2. seen[q] # NoBlob => Sound(seen[q])'
    BY <1>1, <2>1 DEF Request, Locals, Sound, HasGrants, HasPaths
  <2>3. Locals(q)' /\ Stamped(q)' /\ Fetched(q)'
    BY <1>1, <1>2, <2>1, <2>2 DEF Locals, Stamped, Fetched, Recent
  <2> QED BY <1>3, <2>3 DEF Request
<1>5. CASE Complete(s) /\ seen[q] # NoBlob /\ Matches(s, seen[q].stamp)
  <2>1. /\ pc'[q] = "validate" /\ seen'[q] = NoBlob /\ stamp'[q] = NoStamp
        /\ got'[q] = seen[q].payload
        /\ revived' = (revived \/ Revives(s, seen[q].stamp))
    BY <1>5 DEF Printed, Goto, TypeOK
  <2>2. Locals(q)' /\ Stamped(q)'
    BY <1>2, <2>1, Blanks DEF Locals, Stamped, Recent
  <2>3. ASSUME ~revived' PROVE Reflects(seen[q].payload, log[begin[q]])
    <3>1. s.bumps = seen[q].stamp.bumps /\ s.member = seen[q].stamp.member
      BY <1>5, <2>1, <2>3 DEF Matches, Revives
    <3>2. /\ log[begin[q]].member <= s.member /\ log[begin[q]].bumps <= s.bumps
      BY <1>5 DEF Recent, Complete
    <3>3. Sound(seen[q])
      BY <1>5 DEF Request, Locals
    <3>4. /\ seen[q].payload.member \in Nat /\ s.member \in Int /\ log[begin[q]].member \in Nat
      <4>1. seen[q].payload \in Data /\ log[begin[q]] \in State /\ s \in Stamp
        BY <1>5, Same DEF TypeOK, Blob
      <4> QED BY <4>1, Numbers
    <3>5. seen[q].payload.grants >= log[begin[q]].grants
      BY <1>1, <3>1, <3>2, <3>3 DEF Sound, HasGrants
    <3>6. Single => seen[q].payload.member >= log[begin[q]].member
      BY <3>1, <3>2, <3>3, <3>4 DEF Sound
    <3>7. Single => seen[q].payload.paths >= log[begin[q]].told
      BY <1>1, <3>1, <3>2, <3>3 DEF Sound, HasPaths
    <3> QED BY <3>5, <3>6, <3>7 DEF Reflects
  <2>4. Fetched(q)'
    BY <1>1, <2>1, <2>3 DEF Fetched, Reflects
  <2> QED BY <1>3, <2>2, <2>4 DEF Request
<1>6. CASE Complete(s) /\ ~(seen[q] # NoBlob /\ Matches(s, seen[q].stamp))
  <2>1. pc'[q] = "members" /\ seen'[q] = NoBlob /\ stamp'[q] = s
    BY <1>6 DEF Printed, Goto, TypeOK
  <2>2. Locals(q)' /\ Stamped(q)' /\ Fetched(q)'
    BY <1>1, <1>2, <2>1 DEF Locals, Stamped, Fetched, Recent
  <2> QED BY <1>3, <2>2 DEF Request
<1> QED BY <1>4, <1>5, <1>6

\* A request's own steps.
LEMMA OwnStep ==
  ASSUME TypeOK, Ordered, Cache, World, UNCHANGED dbVars, History, NEW q \in Requests,
         Request(q), LookupStep(q)
  PROVE  Request(q)'
<1>1. /\ log' = log /\ Now' = Now /\ Applied' = Applied
      /\ Applied \in 1 .. Len(log) /\ begin[q] \in 1 .. Len(log) /\ begin[q] <= Applied
      /\ \A r \in Replicas : Passed(r, q)
      /\ log[begin[q]].grants <= Now.grants
      /\ log[begin[q]] \in State /\ log[Applied] \in State /\ Now \in State
  BY Same
<1>2. /\ log[begin[q]].member \in Nat /\ log[begin[q]].bumps \in Nat /\ log[begin[q]].told \in Nat
      /\ log[begin[q]].grants \in Nat /\ log[Applied].member \in Nat /\ log[Applied].paths \in Nat
      /\ log[Applied].bumps \in Nat /\ Now.grants \in Nat /\ Now.bumps \in Nat
      /\ \A r \in Replicas : /\ log[at[r]].member \in Nat /\ log[at[r]].paths \in Nat
                             /\ log[at[r]].bumps \in Nat
  BY <1>1, Numbers DEF Passed
<1>3. stamp[q] \in Stamp /\ got[q] \in Data /\ stamp[q].member \in Int /\ stamp[q].bumps \in Int
  BY Numbers DEF TypeOK
<1>4. base' = base \/ pc'[q] = "idle"
  BY DEF History, Quiet
<1>5. CASE ReadMarker(q)
  <2>1. /\ pc[q] = "idle" /\ pc'[q] = "data" /\ begin'[q] = Applied
        /\ seen'[q] = seen[q] /\ stamp'[q] = stamp[q]
    BY <1>5 DEF ReadMarker, Goto, TypeOK
  <2>2. Locals(q)' /\ Stamped(q)'
    BY <2>1, Blanks DEF Request, Locals, Stamped, Recent
  <2>3. Fetched(q)' /\ Began(q)'
    BY <1>1, <1>4, <2>1 DEF Fetched, Began, Cache
  <2> QED BY <2>2, <2>3 DEF Request
<1>6. CASE ReadData(q)
  <2>1. /\ pc[q] = "data" /\ pc'[q] \in {"hit", "print"} /\ ~vouched'[q]
        /\ stamp'[q] = NoStamp /\ begin'[q] = begin[q]
        /\ seen'[q] # NoBlob => pc'[q] = "print" /\ seen'[q] = data
    BY <1>6 DEF ReadData, Goto, TypeOK, Request, Locals
  <2>2. seen'[q] # NoBlob => Sound(seen[q])'
    BY <1>1, <2>1 DEF Cache, Sound, HasGrants, HasPaths
  <2>3. Locals(q)' /\ Stamped(q)'
    BY <2>1, <2>2, Blanks DEF Locals, Stamped, Recent
  <2>4. Fetched(q)' /\ Began(q)'
    BY <1>1, <1>4, <2>1 DEF Fetched, Began, Request
  <2> QED BY <2>3, <2>4 DEF Request
<1>17. CASE ReadDataFirst(q)
  <2>1. /\ pc[q] = "idle" /\ pc'[q] = "marker" /\ begin'[q] = Applied
        /\ vouched'[q] = vouched[q] /\ stamp'[q] = stamp[q]
        /\ seen'[q] \in {data, seen[q]}
    BY <1>17 DEF ReadDataFirst, Goto, TypeOK
  <2>2. seen'[q] # NoBlob => Sound(seen[q])'
    BY <1>1, <2>1 DEF Request, Locals, Cache, Sound, HasGrants, HasPaths
  <2>3. Locals(q)' /\ Stamped(q)'
    BY <2>1, <2>2, Blanks DEF Request, Locals, Stamped, Recent
  <2>4. Fetched(q)' /\ Began(q)'
    BY <1>1, <1>4, <2>1 DEF Fetched, Began, Cache
  <2> QED BY <2>3, <2>4 DEF Request
<1>18. CASE ReadMarkerLast(q)
  <2>1. /\ pc[q] = "marker" /\ pc'[q] \in {"hit", "crossed", "print"} /\ vouched'[q] = vouched[q]
        /\ stamp'[q] = NoStamp /\ begin'[q] = begin[q]
        /\ seen'[q] # NoBlob => pc'[q] = "print" /\ seen'[q] = seen[q]
    BY <1>18 DEF ReadMarkerLast, Goto, TypeOK, Request, Locals
  <2>2. seen'[q] # NoBlob => Sound(seen[q])'
    BY <1>1, <2>1 DEF Request, Locals, Sound, HasGrants, HasPaths
  <2>3. Locals(q)' /\ Stamped(q)'
    BY <2>1, <2>2, Blanks DEF Request, Locals, Stamped, Recent
  <2>4. Fetched(q)' /\ Began(q)'
    BY <1>1, <1>4, <2>1 DEF Fetched, Began, Request
  <2> QED BY <2>3, <2>4 DEF Request
<1>7. CASE ReadMembership(q)
  <2>1. PICK r \in Replicas : Printed(q, [stamp[q] EXCEPT !.member = log[at[r]].member])
    BY <1>7 DEF ReadMembership
  <2> DEFINE s == [stamp[q] EXCEPT !.member = log[at[r]].member]
  <2>2. /\ s \in Stamp /\ s.member = log[at[r]].member
        /\ s.version = stamp[q].version /\ s.bumps = stamp[q].bumps
    <3>1. log[at[r]].member \in Count
      BY <1>1 DEF State, Passed
    <3> QED BY <3>1, <1>3, Updates DEF Stamp
  <2>3. Recent(s, q)
    BY <1>1, <1>2, <2>2 DEF Request, Stamped, Recent, Passed
  <2> QED BY <2>1, <2>2, <2>3, <1>7, PrintedRequest DEF ReadMembership
<1>8. CASE ReadVersion(q)
  <2>1. PICK r \in Replicas : Printed(q, [stamp[q] EXCEPT !.version = Version(log[at[r]]),
                                                          !.bumps = log[at[r]].bumps])
    BY <1>8 DEF ReadVersion
  <2> DEFINE s == [stamp[q] EXCEPT !.version = Version(log[at[r]]), !.bumps = log[at[r]].bumps]
  <2>2. /\ s \in Stamp /\ s.member = stamp[q].member /\ s.bumps = log[at[r]].bumps
    <3>1. log[at[r]].bumps \in Count /\ Version(log[at[r]]) \in Count
      BY <1>1, Blanks DEF State, Version, Passed
    <3> QED BY <3>1, <1>3, Updates DEF Stamp
  <2>3. Recent(s, q)
    BY <1>1, <1>2, <2>2 DEF Request, Stamped, Recent, Passed
  <2> QED BY <2>1, <2>2, <2>3, <1>8, PrintedRequest DEF ReadVersion
<1>9. CASE PrintFails(q)
  <2>1. /\ pc'[q] = "members" /\ seen'[q] = NoBlob /\ stamp'[q] = NoStamp
        /\ begin'[q] = begin[q] /\ vouched'[q] = vouched[q] /\ pc[q] = "print"
    BY <1>9 DEF PrintFails, Goto, TypeOK
  <2>2. Locals(q)' /\ Stamped(q)'
    BY <2>1, Blanks DEF Request, Locals, Stamped, Recent
  <2>3. Fetched(q)' /\ Began(q)'
    BY <1>1, <1>4, <2>1 DEF Request, Fetched, Began
  <2> QED BY <2>2, <2>3 DEF Request
<1>10. CASE FetchMembers(q)
  <2>1. /\ pc[q] = "members" /\ pc'[q] = "grants"
        /\ got'[q].member >= log[begin[q]].member
        /\ Single => got'[q].member = log[Applied].member
        /\ UNCHANGED <<vouched, seen, stamp, begin>>
    <3>1. PICK r \in Replicas : got'[q] = [NoData EXCEPT !.member = log[at[r]].member]
      BY <1>10 DEF FetchMembers, TypeOK
    <3>2. got'[q].member = log[at[r]].member
      BY <3>1 DEF NoData
    <3> QED BY <1>1, <1>2, <3>2, <1>10 DEF FetchMembers, Goto, TypeOK, Passed
  <2>2. Locals(q)' /\ Stamped(q)'
    BY <1>1, <2>1 DEF Request, Locals, Stamped, Recent
  <2>3. Fetched(q)'
    BY <1>1, <1>2, <1>3, <2>1 DEF Request, Stamped, Recent, Fetched, Complete
  <2>4. Began(q)'
    BY <1>1, <1>4, <2>1 DEF Request, Began
  <2> QED BY <2>2, <2>3, <2>4 DEF Request
<1>11. CASE FetchGrants(q)
  <2>1. /\ pc[q] = "grants" /\ pc'[q] = "paths" /\ got'[q].grants = Now.grants
        /\ got'[q].member = got[q].member /\ UNCHANGED <<vouched, seen, stamp, begin>>
    BY <1>11 DEF FetchGrants, Goto, TypeOK, Data
  <2>2. Locals(q)' /\ Stamped(q)'
    BY <1>1, <2>1 DEF Request, Locals, Stamped, Recent
  <2>3. \A i \in 1 .. Len(log) : log[i].grants <= Now.grants
    <3>1. Len(log) \in 1 .. Len(log) /\ Now = log[Len(log)]
      BY DEF World, Moves, Now
    <3> QED BY <3>1 DEF Ordered
  <2>4. HasGrants(got[q], stamp[q].bumps)'
    BY <1>1, <2>1, <2>3 DEF HasGrants
  <2>5. Fetched(q)'
    BY <1>1, <2>1, <2>4 DEF Request, Fetched, Complete
  <2>6. Began(q)'
    BY <1>1, <1>4, <2>1 DEF Request, Began
  <2> QED BY <2>2, <2>5, <2>6 DEF Request
<1>12. CASE FetchPaths(q)
  <2>1. /\ pc[q] = "paths" /\ pc'[q] = (IF Complete(stamp[q]) THEN "write" ELSE "answer")
        /\ got'[q].paths >= log[begin[q]].told
        /\ Single => got'[q].paths = log[Applied].paths
        /\ got'[q].member = got[q].member /\ got'[q].grants = got[q].grants
        /\ UNCHANGED <<vouched, seen, stamp, begin, revived>>
    <3>1. PICK r \in Replicas : got'[q] = [got[q] EXCEPT !.paths = log[at[r]].paths]
      BY <1>12 DEF FetchPaths, TypeOK
    <3>2. /\ got'[q].paths = log[at[r]].paths
          /\ got'[q].member = got[q].member /\ got'[q].grants = got[q].grants
      BY <1>3, <3>1 DEF Data
    <3> QED BY <1>1, <1>2, <3>2, <1>12 DEF FetchPaths, Goto, TypeOK, Passed
  <2>2. Locals(q)' /\ Stamped(q)'
    BY <1>1, <2>1 DEF Request, Locals, Stamped, Recent, Complete
  <2>3. Complete(stamp[q]) /\ Single => HasPaths(got[q], stamp[q].bumps)'
    <3> SUFFICES ASSUME Complete(stamp[q]), Single, NEW i \in 1 .. Len(log), log[i].bumps <= stamp[q].bumps
                 PROVE  log[Applied].paths >= log[i].told
      BY <1>1, <2>1 DEF HasPaths
    <3>1. log[i].bumps \in Nat
      BY Numbers DEF World, Moves
    <3>2. log[i].bumps <= log[Applied].bumps
      BY <1>2, <1>3, <3>1 DEF Request, Stamped, Recent, Complete
    <3>3. log[i].told <= log[Applied].paths
      BY <1>1, <3>2 DEF Ordered
    <3> QED BY <3>3
  <2>4. Fetched(q)'
    BY <1>1, <2>1, <2>3 DEF Request, Fetched, Complete, Reflects, HasGrants
  <2>5. Began(q)'
    BY <1>1, <1>4, <2>1 DEF Request, Began
  <2> QED BY <2>2, <2>4, <2>5 DEF Request
<1>13. CASE FetchFails(q)
  BY <1>13, Finished DEF FetchFails
<1>14. CASE WriteData(q)
  <2>1. /\ pc[q] = "write" /\ pc'[q] = "mark" /\ stamp'[q] = NoStamp
        /\ UNCHANGED <<vouched, seen, got, begin>>
    BY <1>14 DEF WriteData, Goto, TypeOK
  <2>2. Locals(q)' /\ Stamped(q)'
    BY <2>1, Blanks DEF Request, Locals, Stamped, Recent
  <2>3. Fetched(q)' /\ Began(q)'
    BY <1>1, <1>4, <2>1 DEF Request, Fetched, Began
  <2> QED BY <2>2, <2>3 DEF Request
<1>15. CASE WriteMarker(q)
  <2>1. /\ pc[q] \in {"validate", "mark"} /\ pc'[q] = "answer"
        /\ UNCHANGED <<vouched, seen, stamp, got, begin, revived>>
    BY <1>15 DEF WriteMarker, Goto, TypeOK
  <2>2. Locals(q)' /\ Stamped(q)'
    BY <1>1, <2>1 DEF Request, Locals, Stamped, Recent
  <2>3. Fetched(q)' /\ Began(q)'
    BY <1>1, <1>4, <2>1 DEF Request, Fetched, Began, Reflects
  <2> QED BY <2>2, <2>3 DEF Request
<1>16. CASE Return(q)
  BY <1>16, Finished DEF Return
<1> QED
  BY <1>5, <1>6, <1>7, <1>8, <1>9, <1>10, <1>11, <1>12, <1>13, <1>14, <1>15, <1>16, <1>17, <1>18
  DEF LookupStep

-----------------------------------------------------------------------------
(* The cache *)

\* What reflects the beginning of a request reflects the last quiet moment.
LEMMA Backwards ==
  ASSUME TypeOK, Ordered, NEW q \in Requests, Request(q), pc[q] # "idle",
         NEW d \in Data, Reflects(d, log[begin[q]])
  PROVE  Reflects(d, log[base])
<1>1. base \in 1 .. Len(log) /\ begin[q] \in 1 .. Len(log) /\ base <= begin[q]
  BY DEF TypeOK, Request, Began
<1>2. log[base].member <= log[begin[q]].member /\ log[base].bumps <= log[begin[q]].bumps
  BY <1>1 DEF Ordered
<1>3. log[base].grants <= log[begin[q]].grants /\ log[base].told <= log[begin[q]].told
  BY <1>1, <1>2 DEF Ordered
<1>4. log[base] \in State /\ log[begin[q]] \in State
  BY <1>1 DEF TypeOK
<1>5. /\ log[base].member \in Nat /\ log[base].grants \in Nat /\ log[base].told \in Nat
      /\ log[begin[q]].member \in Nat /\ log[begin[q]].grants \in Nat /\ log[begin[q]].told \in Nat
      /\ d.member \in Nat /\ d.grants \in Nat /\ d.paths \in Nat
  BY <1>4, Numbers
<1>6. \A x, y, z \in Nat : x <= y /\ z >= y => z >= x
  OBVIOUS
<1> QED BY <1>2, <1>3, <1>5, <1>6 DEF Reflects

\* Nobody vouches for anything at a quiet moment.
LEMMA AtRest ==
  ASSUME TypeOK, World, History, Quiet', base <= Applied, \A q \in Requests : Request(q)'
  PROVE  /\ base' <= Applied'
         /\ ~marker' /\ \A q \in Requests : Vouching(q)'
BY DEF World, History, Quiet, Request, Locals, Vouching

LEMMA FreshKept ==
  ASSUME TypeOK, World, base' = base, data' \in {data, NoBlob}, Fresh
  PROVE  Fresh'
BY DEF TypeOK, World, Moves, Fresh, Reflects

LEMMA VouchingKept ==
  ASSUME TypeOK, World, base' = base, NEW q \in Requests, Vouching(q),
         pc'[q] = pc[q], vouched'[q] = vouched[q], seen'[q] = seen[q], got'[q] = got[q],
         Fresh => Fresh', data' = data \/ Fresh'
  PROVE  Vouching(q)'
<1>1. log'[base'] = log[base]
  BY DEF TypeOK, World, Moves
<1> QED BY <1>1 DEF Vouching, Reflects

LEMMA PassiveCache ==
  ASSUME TypeOK, World, History, Cache, \A q \in Requests : Request(q)',
         UNCHANGED <<reqVars, revived>>, data' \in {data, NoBlob}, marker' => marker
  PROVE  Cache'
<1>1. data' # NoBlob => Sound(data)'
  <2> SUFFICES ASSUME data' # NoBlob PROVE Sound(data)'
    OBVIOUS
  <2>1. data' = data /\ data \in Blob /\ Sound(data)
    BY DEF Cache, TypeOK
  <2> QED BY <2>1, StillSound DEF World
<1>2. CASE Quiet'
  BY <1>1, <1>2, AtRest DEF Cache
<1>3. CASE ~Quiet'
  <2>1. base' = base /\ (~unwritten' => ~unwritten)
    BY <1>3 DEF History
  <2>2. base' <= Applied'
    BY <2>1 DEF Cache, World, TypeOK
  <2>3. ASSUME ~revived', ~unwritten'
        PROVE  (marker' => Fresh') /\ \A q \in Requests : Vouching(q)'
    <3>1. Fresh => Fresh'
      BY <2>1, FreshKept
    <3>2. data' = data \/ Fresh'
      BY DEF Fresh
    <3>3. (marker => Fresh) /\ \A q \in Requests : Vouching(q)
      BY <2>1, <2>3 DEF Cache
    <3> QED BY <2>1, <3>1, <3>2, <3>3, VouchingKept DEF reqVars
  <2> QED BY <1>1, <2>2, <2>3 DEF Cache
<1> QED BY <1>2, <1>3

\* The step of the request whose fingerprint is complete, or is not yet.
LEMMA PrintedVouching ==
  ASSUME TypeOK, Ordered, World, UNCHANGED dbVars, base' = base, data' = data,
         NEW q \in Requests, Request(q), Request(q)', Typed', pc[q] = "print", Vouching(q), ~revived',
         NEW s, Printed(q, s), UNCHANGED <<vouched, begin>>
  PROVE  Vouching(q)' /\ \A p \in Requests \ {q} :
           pc'[p] = pc[p] /\ seen'[p] = seen[p] /\ got'[p] = got[p]
<1>1. log' = log /\ Fresh' = Fresh /\ ~vouched'[q]
  BY DEF dbVars, Fresh, Reflects, Request, Locals
<1>2. \A p \in Requests \ {q} : pc'[p] = pc[p] /\ seen'[p] = seen[p] /\ got'[p] = got[p]
  BY DEF Printed, Goto, TypeOK
<1>3. CASE ~Complete(s)
  <2>1. pc'[q] = pc[q] /\ seen'[q] = seen[q]
    BY <1>3 DEF Printed, TypeOK
  <2> QED BY <1>1, <1>2, <2>1 DEF Vouching
<1>4. CASE Complete(s) /\ seen[q] # NoBlob /\ Matches(s, seen[q].stamp)
  <2>1. pc'[q] = "validate" /\ got'[q] = seen[q].payload
    BY <1>4 DEF Printed, Goto, TypeOK
  <2>2. Reflects(got'[q], log[begin[q]])
    BY <1>1, <2>1 DEF Request, Fetched, Reflects
  <2>3. Reflects(got'[q], log[base])
    BY <2>2, Backwards DEF Typed
  <2>4. Fresh
    BY <1>4, <2>1, <2>3 DEF Vouching, Fresh
  <2> QED BY <1>1, <1>2, <2>1, <2>4 DEF Vouching
<1>5. CASE Complete(s) /\ ~(seen[q] # NoBlob /\ Matches(s, seen[q].stamp))
  <2>1. pc'[q] = "members"
    BY <1>5 DEF Printed, Goto, TypeOK
  <2> QED BY <1>1, <1>2, <2>1 DEF Vouching
<1> QED BY <1>3, <1>4, <1>5

LEMMA OwnVouching ==
  ASSUME TypeOK, Ordered, World, UNCHANGED dbVars, base' = base,
         NEW q \in Requests, LookupStep(q), ~WriteData(q),
         Request(q), Request(q)', Typed', ~revived',
         marker => Fresh, \A p \in Requests : Vouching(p)
  PROVE  (marker' => Fresh') /\ \A p \in Requests : Vouching(p)'
<1>1. log' = log
  BY DEF dbVars
<1>2. ASSUME data' = data PROVE Fresh' = Fresh
  BY <1>1, <1>2 DEF Fresh, Reflects
<1>3. ASSUME data' = data,
             \A p \in Requests \ {q} : /\ pc'[p] = pc[p] /\ vouched'[p] = vouched[p]
                                       /\ seen'[p] = seen[p] /\ got'[p] = got[p],
             Vouching(q)'
      PROVE  \A p \in Requests : Vouching(p)'
  <2>1. \A p \in Requests \ {q} : Vouching(p)'
    BY <1>2, <1>3, VouchingKept
  <2> QED BY <2>1, <1>3
<1>4. CASE ReadMarker(q)
  <2>1. /\ data' = data /\ marker' = marker /\ pc'[q] = "data" /\ (vouched'[q] => vouched[q] \/ marker)
        /\ \A p \in Requests \ {q} : /\ pc'[p] = pc[p] /\ vouched'[p] = vouched[p]
                                     /\ seen'[p] = seen[p] /\ got'[p] = got[p]
    BY <1>4 DEF ReadMarker, Goto, TypeOK
  <2>2. Vouching(q)'
    BY <1>2, <2>1 DEF Vouching
  <2> QED BY <1>2, <1>3, <2>1, <2>2
<1>5. CASE ReadData(q)
  <2>1. /\ data' = data /\ marker' = marker /\ pc[q] = "data" /\ ~vouched'[q]
        /\ \A p \in Requests \ {q} : /\ pc'[p] = pc[p] /\ vouched'[p] = vouched[p]
                                     /\ seen'[p] = seen[p] /\ got'[p] = got[p]
        /\ \/ pc'[q] = "hit" /\ vouched[q] /\ data # NoBlob /\ got'[q] = data.payload
           \/ pc'[q] = "print" /\ (seen'[q] = data \/ seen'[q] = seen[q])
    BY <1>5 DEF ReadData, Goto, TypeOK
  <2>2. seen[q] = NoBlob
    BY <2>1 DEF Request, Locals
  <2>3. Vouching(q)'
    BY <1>1, <2>1, <2>2 DEF Vouching, Fresh, Reflects
  <2> QED BY <1>2, <1>3, <2>1, <2>3
<1>10. CASE ReadDataFirst(q)
  <2>1. /\ data' = data /\ marker' = marker /\ pc[q] = "idle" /\ pc'[q] = "marker"
        /\ seen'[q] \in {data, seen[q]}
        /\ \A p \in Requests : vouched'[p] = vouched[p]
        /\ \A p \in Requests \ {q} : /\ pc'[p] = pc[p]
                                     /\ seen'[p] = seen[p] /\ got'[p] = got[p]
    BY <1>10 DEF ReadDataFirst, Goto, TypeOK
  <2>2. seen[q] = NoBlob /\ ~vouched[q]
    BY <2>1 DEF Request, Locals
  <2>3. Vouching(q)'
    BY <2>1, <2>2 DEF Vouching
  <2> QED BY <1>2, <1>3, <2>1, <2>3
<1>11. CASE ReadMarkerLast(q)
  <2>1. /\ data' = data /\ marker' = marker /\ pc[q] = "marker"
        /\ \A p \in Requests : vouched'[p] = vouched[p]
        /\ \A p \in Requests \ {q} : /\ pc'[p] = pc[p]
                                     /\ seen'[p] = seen[p] /\ got'[p] = got[p]
        /\ \/ /\ marker /\ seen[q] # NoBlob /\ got'[q] = seen[q].payload
              /\ pc'[q] = (IF data = seen[q] THEN "hit" ELSE "crossed")
           \/ pc'[q] = "print" /\ seen'[q] = seen[q]
    BY <1>11 DEF ReadMarkerLast, Goto, TypeOK
  <2>2. ~vouched[q]
    BY <2>1 DEF Request, Locals
  <2>3. pc'[q] \in {"hit", "crossed", "print"} /\ (pc'[q] = "print" => seen'[q] = seen[q])
    BY <2>1
  <2>4. pc'[q] = "hit" => Reflects(got[q], log[base])'
    <3>1. pc'[q] = "hit" => marker /\ data # NoBlob /\ got'[q] = data.payload
      BY <2>1
    <3> QED BY <1>1, <3>1 DEF Fresh, Reflects
  <2>5. Vouching(q)'
    BY <1>2, <2>1, <2>2, <2>3, <2>4 DEF Vouching
  <2> QED BY <1>2, <1>3, <2>1, <2>5
<1>6. CASE ReadMembership(q) \/ ReadVersion(q)
  <2>1. /\ data' = data /\ marker' = marker /\ pc[q] = "print" /\ UNCHANGED <<vouched, begin>>
        /\ \E s : Printed(q, s)
    BY <1>6 DEF ReadMembership, ReadVersion
  <2>2. Vouching(q)' /\ \A p \in Requests \ {q} :
          pc'[p] = pc[p] /\ seen'[p] = seen[p] /\ got'[p] = got[p]
    BY <2>1, PrintedVouching
  <2> QED BY <1>2, <1>3, <2>1, <2>2
<1>7. CASE PrintFails(q) \/ FetchMembers(q) \/ FetchGrants(q) \/ FetchPaths(q)
  <2>1. /\ data' = data /\ marker' = marker /\ vouched' = vouched
        /\ pc[q] \in {"print", "members", "grants", "paths"}
        /\ pc'[q] \in {"members", "grants", "paths", "write", "answer"}
        /\ \A p \in Requests \ {q} : /\ pc'[p] = pc[p]
                                     /\ seen'[p] = seen[p] /\ got'[p] = got[p]
    BY <1>7 DEF PrintFails, FetchMembers, FetchGrants, FetchPaths, Goto, TypeOK
  <2>2. Vouching(q)'
    BY <2>1 DEF Vouching, Request, Locals
  <2> QED BY <1>2, <1>3, <2>1, <2>2
<1>8. CASE FetchFails(q) \/ Return(q)
  <2>1. /\ data' = data /\ marker' = marker /\ pc'[q] = "idle" /\ ~vouched'[q]
        /\ \A p \in Requests \ {q} : /\ pc'[p] = pc[p] /\ vouched'[p] = vouched[p]
                                     /\ seen'[p] = seen[p] /\ got'[p] = got[p]
    BY <1>8 DEF FetchFails, Return, Finish, Goto, TypeOK
  <2>2. Vouching(q)'
    BY <2>1 DEF Vouching
  <2> QED BY <1>2, <1>3, <2>1, <2>2
<1>9. CASE WriteMarker(q)
  <2>1. /\ data' = data /\ pc[q] \in {"validate", "mark"} /\ pc'[q] = "answer" /\ vouched' = vouched
        /\ \A p \in Requests \ {q} : /\ pc'[p] = pc[p]
                                     /\ seen'[p] = seen[p] /\ got'[p] = got[p]
    BY <1>9 DEF WriteMarker, Goto, TypeOK
  <2>2. Fresh'
    BY <1>2, <2>1 DEF Vouching
  <2>3. Vouching(q)'
    BY <2>1, <2>2 DEF Vouching
  <2> QED BY <1>3, <2>1, <2>2, <2>3
<1> QED
  BY <1>4, <1>5, <1>6, <1>7, <1>8, <1>9, <1>10, <1>11 DEF LookupStep

\* The write of the data, after which the key holds what this request fetched.
LEMMA WriteCache ==
  ASSUME TypeOK, Ordered, Cache, World, UNCHANGED dbVars, History,
         NEW q \in Requests, Request(q), WriteData(q)
  PROVE  Cache'
<1>1. /\ pc[q] = "write" /\ pc'[q] = "mark" /\ UNCHANGED <<marker, vouched, seen, got, begin, revived>>
      /\ \/ data' = [stamp |-> stamp[q], payload |-> got[q]] /\ faults' = faults
         \/ data' = data /\ faults' = faults + 1
      /\ \A p \in Requests \ {q} : pc'[p] = pc[p]
  BY DEF WriteData, Goto, Fault, TypeOK
<1>2. log' = log /\ Now' = Now /\ Applied' = Applied /\ log[Applied].bumps <= Now.bumps
      /\ log[Applied] \in State /\ Now \in State
  BY Same
<1>3. ~Quiet' /\ base' = base /\ (~unwritten' => ~unwritten)
  BY <1>1 DEF History, Quiet
<1>4. base' <= Applied'
  BY <1>2, <1>3 DEF Cache
<1>5. CASE data' = [stamp |-> stamp[q], payload |-> got[q]] /\ faults' = faults
  <2>1. data'.stamp = stamp[q] /\ data'.payload = got[q]
    BY <1>5
  <2>2. Complete(stamp[q])
    BY <1>1 DEF Request, Locals
  <2>3. stamp[q].bumps <= Now.bumps
    <3>1. stamp[q].bumps \in Int /\ log[Applied].bumps \in Nat /\ Now.bumps \in Nat
      BY <1>2, Numbers DEF TypeOK
    <3> QED BY <1>2, <2>2, <3>1 DEF Request, Stamped, Recent, Complete
  <2>4. Sound(data)'
    BY <1>1, <1>2, <2>1, <2>2, <2>3 DEF Request, Fetched, Sound, HasGrants, HasPaths
  <2>5. Reflects(got[q], log[base])
    <3>1. Reflects(got[q], log[begin[q]]) /\ got[q] \in Data
      BY <1>1 DEF Request, Fetched, Reflects, TypeOK
    <3> QED BY <1>1, <3>1, Backwards
  <2>6. Fresh'
    BY <1>2, <1>3, <2>1, <2>5 DEF Fresh
  <2>7. ASSUME ~revived', ~unwritten'
        PROVE  (marker' => Fresh') /\ \A p \in Requests : Vouching(p)'
    <3>1. \A p \in Requests : Vouching(p)
      BY <1>1, <1>3, <2>7 DEF Cache
    <3>2. \A p \in Requests \ {q} : Vouching(p)'
      BY <1>1, <1>3, <2>6, <3>1, VouchingKept
    <3>3. Vouching(q)'
      BY <1>1, <2>6 DEF Vouching
    <3> QED BY <2>6, <3>2, <3>3
  <2> QED BY <1>4, <2>4, <2>7 DEF Cache
<1>6. CASE data' = data /\ faults' = faults + 1
  <2>1. unwritten'
    <3>1. faults' # faults
      BY <1>6 DEF TypeOK
    <3> QED BY <1>1, <1>3, <3>1 DEF History
  <2>2. data' # NoBlob => Sound(data)'
    BY <1>2, <1>6 DEF Cache, Sound, HasGrants, HasPaths
  <2> QED BY <1>4, <2>1, <2>2 DEF Cache
<1> QED BY <1>1, <1>5, <1>6

LEMMA LookupFrame ==
  ASSUME NEW q \in Requests, LookupStep(q)
  PROVE  /\ UNCHANGED dbVars /\ (revived => revived')
         /\ ~WriteData(q) => data' = data
<1>1. ASSUME NEW s, Printed(q, s) PROVE revived => revived'
  BY <1>1 DEF Printed
<1>2. CASE ReadMembership(q) \/ ReadVersion(q)
  <2>1. UNCHANGED <<dbVars, data>> /\ \E s : Printed(q, s)
    BY <1>2 DEF ReadMembership, ReadVersion
  <2> QED BY <1>1, <2>1
<1>3. CASE ReadMarker(q)
  BY <1>3 DEF ReadMarker
<1>4. CASE ReadData(q)
  BY <1>4 DEF ReadData
<1>10. CASE ReadDataFirst(q) \/ ReadMarkerLast(q)
  BY <1>10 DEF ReadDataFirst, ReadMarkerLast
<1>5. CASE PrintFails(q)
  BY <1>5 DEF PrintFails
<1>6. CASE FetchMembers(q) \/ FetchGrants(q) \/ FetchPaths(q)
  BY <1>6 DEF FetchMembers, FetchGrants, FetchPaths
<1>7. CASE FetchFails(q) \/ Return(q)
  BY <1>7 DEF FetchFails, Return, Finish
<1>8. CASE WriteData(q)
  BY <1>8 DEF WriteData
<1>9. CASE WriteMarker(q)
  BY <1>9 DEF WriteMarker
<1> QED
  BY <1>2, <1>3, <1>4, <1>5, <1>6, <1>7, <1>8, <1>9, <1>10 DEF LookupStep

LEMMA RequestCache ==
  ASSUME TypeOK, Ordered, Cache, World, UNCHANGED dbVars, History,
         NEW q \in Requests, Request(q), \A p \in Requests : Request(p)', Typed',
         LookupStep(q)
  PROVE  Cache'
<1>1. CASE WriteData(q)
  BY <1>1, WriteCache
<1>2. CASE ~WriteData(q)
  <2>1. data' = data /\ (revived => revived')
    BY <1>2, LookupFrame
  <2>2. log' = log /\ Now' = Now /\ Applied' = Applied
    BY Same
  <2>3. data' # NoBlob => Sound(data)'
    BY <2>1, <2>2 DEF Cache, Sound, HasGrants, HasPaths
  <2>4. CASE Quiet'
    BY <2>3, <2>4, AtRest DEF Cache
  <2>5. CASE ~Quiet'
    <3>1. base' = base /\ (~unwritten' => ~unwritten)
      BY <2>5 DEF History
    <3>2. base' <= Applied'
      BY <2>2, <3>1 DEF Cache
    <3>3. ASSUME ~revived', ~unwritten'
          PROVE  (marker' => Fresh') /\ \A p \in Requests : Vouching(p)'
      BY <1>2, <2>1, <3>1, <3>3, OwnVouching DEF Cache
    <3> QED BY <2>3, <3>2, <3>3 DEF Cache
  <2> QED BY <2>4, <2>5
<1> QED BY <1>1, <1>2

-----------------------------------------------------------------------------
(* The invariant and the properties *)

LEMMA InitIInv == Init => IInv
<1> SUFFICES ASSUME Init PROVE IInv
  OBVIOUS
<1>1. /\ 0 \in Count /\ NoStamp \in Stamp /\ NoData \in Data /\ MaxCommits \in Nat /\ MaxFaults \in Nat
      /\ NoStamp.member = Unread /\ NoStamp.version = Unread
  BY Blanks, PermissionCacheAssumption
<1>2. log \in Seq(State) /\ Len(log) = 1 /\ \A i \in 1 .. Len(log) : i = 1
  BY <1>1 DEF Init, State
<1>3. TypeOK
  <2>1. /\ log \in Seq(State) /\ Len(log) \in 1 .. MaxCommits + 1 /\ 1 \in 1 .. Len(log)
        /\ 0 \in 0 .. MaxFaults
    BY <1>1, <1>2
  <2> QED BY <1>1, <2>1 DEF Init, TypeOK, Phases
<1>4. log[1] = [member |-> 0, grants |-> 0, paths |-> 0, version |-> 0, bumps |-> 0, told |-> 0]
  BY DEF Init
<1>5. Counted /\ Ordered
  BY <1>2, <1>4 DEF Init, Counted, Within, Ordered
<1>6. Applied = 1
  <2>1. {at[r] : r \in Replicas} = {1} /\ \A r \in Replicas : at[r] = 1
    BY PermissionCacheAssumption DEF Init
  <2> QED BY <2>1 DEF Applied
<1>7. \A q \in Requests : Request(q)
  BY <1>1, <1>6 DEF Init, Request, Locals, Stamped, Recent, Fetched, Began
<1>8. Cache
  BY <1>6 DEF Init, Cache, Vouching
<1> QED BY <1>3, <1>5, <1>7, <1>8 DEF IInv

LEMMA NextIInv == IInv /\ [Next]_vars => IInv'
<1> SUFFICES ASSUME IInv, [Next]_vars PROVE IInv'
  OBVIOUS
<1>0. TypeOK /\ Counted /\ Ordered /\ Cache /\ Typed /\ \A q \in Requests : Request(q)
  BY DEF IInv, TypeOK, Typed
<1>1. ASSUME World, History, Typed', Cache', \A q \in Requests : Request(q)'
      PROVE  IInv'
  <2>1. TypeOK'
    BY <1>1, <1>0, BaseMoves DEF World, Typed, TypeOK
  <2> QED BY <1>1, <2>1 DEF World, IInv
<1>2. ASSUME World, History, UNCHANGED reqVars, UNCHANGED <<revived, faults>>,
             data' \in {data, NoBlob}, marker' \in BOOLEAN, marker' => marker
      PROVE  IInv'
  <2>1. \A q \in Requests : Request(q)'
    BY <1>0, <1>2, Unaffected DEF reqVars
  <2>2. Typed'
    <3>1. begin' \in [Requests -> 1 .. Len(log')]
      BY <1>0, <1>2 DEF Typed, reqVars, World, Moves
    <3> QED BY <1>0, <1>2, <3>1 DEF Typed, reqVars
  <2>3. Cache'
    BY <1>0, <1>2, <2>1, PassiveCache
  <2> QED BY <1>1, <1>2, <2>1, <2>2, <2>3
<1>3. CASE DatabaseStep /\ History
  <2>1. World /\ UNCHANGED <<data, marker, reqVars, revived, faults>>
    BY <1>0, <1>3, DatabaseMoves
  <2>2. marker' \in BOOLEAN
    BY <1>0, <2>1 DEF Typed
  <2> QED BY <1>2, <1>3, <2>1, <2>2
<1>4. CASE (DataExpires \/ MarkerExpires) /\ History
  <2>1. /\ UNCHANGED dbVars /\ UNCHANGED reqVars /\ UNCHANGED <<revived, faults>>
        /\ data' \in {data, NoBlob} /\ marker' \in BOOLEAN /\ (marker' => marker)
    <3>1. CASE DataExpires
      BY <1>0, <3>1 DEF DataExpires, Typed
    <3>2. CASE MarkerExpires
      BY <1>0, <3>2 DEF MarkerExpires, Typed
    <3> QED BY <1>4, <3>1, <3>2
  <2>2. World
    BY <1>0, <2>1, WorldStays
  <2> QED BY <1>2, <1>4, <2>1, <2>2
<1>5. ASSUME NEW q \in Requests, LookupStep(q), History PROVE IInv'
  <2>1. UNCHANGED dbVars /\ (revived => revived')
    BY <1>5, LookupFrame
  <2>2. World
    BY <1>0, <2>1, WorldStays
  <2>3. Typed'
    BY <1>0, <1>5, <2>1, <2>2, RequestTyped
  <2>4. Request(q)'
    BY <1>0, <1>5, <2>1, <2>2, OwnStep
  <2>5. ASSUME NEW p \in Requests \ {q}
        PROVE  /\ pc'[p] = pc[p] /\ vouched'[p] = vouched[p] /\ seen'[p] = seen[p]
               /\ stamp'[p] = stamp[p] /\ got'[p] = got[p] /\ begin'[p] = begin[p]
    BY <1>0, <1>5 DEF Typed, LookupStep, ReadMarker, ReadData, ReadDataFirst, ReadMarkerLast, ReadMembership, ReadVersion, Printed,
                PrintFails, FetchMembers, FetchGrants, FetchPaths, FetchFails, Return, Finish,
                WriteData, WriteMarker, Goto
  <2>6. \A p \in Requests : Request(p)'
    BY <1>0, <1>5, <2>1, <2>2, <2>4, <2>5, Unaffected
  <2>7. Cache'
    BY <1>0, <1>5, <2>1, <2>2, <2>3, <2>6, RequestCache
  <2> QED BY <1>1, <1>5, <2>2, <2>3, <2>6, <2>7
<1>6. CASE UNCHANGED vars
  <2>1. TypeOK' /\ Counted' /\ Ordered'
    BY <1>0, <1>6 DEF vars, dbVars, reqVars, TypeOK, Counted, Ordered
  <2>2. Applied' = Applied /\ Now' = Now /\ log' = log
    BY <1>6 DEF vars, dbVars, Applied, Now
  <2>3. \A q \in Requests : Request(q)'
    BY <1>0, <1>6, <2>2
    DEF vars, dbVars, reqVars, Request, Locals, Stamped, Recent, Fetched, Began, Sound, HasGrants,
        HasPaths, Complete, Reflects
  <2>4. Cache'
    BY <1>0, <1>6, <2>2
    DEF vars, dbVars, reqVars, Cache, Fresh, Vouching, Sound, HasGrants, HasPaths, Reflects
  <2> QED BY <2>1, <2>3, <2>4 DEF IInv
<1> QED
  BY <1>3, <1>4, <1>5, <1>6 DEF Next

\* Every variable keeps its type: no part of Postgres changes more often than
\* it is committed, and no request or key holds more than it can have read.
THEOREM Typing == Spec => []TypeOK
<1>1. IInv => TypeOK
  BY DEF IInv
<1> QED BY <1>1, InitIInv, NextIInv, PTL DEF Spec

\* Data that a request fetched, or found to carry the fingerprint it computed,
\* has every change of grants that each replica had when the request began, and
\* with a single replica every announced change.
THEOREM Validation == Spec => []ValidatedIsFresh
<1>1. IInv => ValidatedIsFresh
  BY DEF IInv, Request, Fetched, ValidatedIsFresh
<1> QED BY <1>1, InitIInv, NextIInv, PTL DEF Spec

\* Neither the data that a marker vouches for nor an answer lacks a change, in the
\* same sense, that was applied everywhere when the marker had run out and no
\* request was under way, whichever of marker and data each request reads first.
\* Only the answer of a request whose data was replaced between the two is excepted.
THEOREM Settling == Spec => []NothingOlder
<1>1. IInv => NothingOlder
  <2> SUFFICES ASSUME IInv, ~revived, ~unwritten
               PROVE  /\ marker /\ data # NoBlob => Reflects(data.payload, log[base])
                      /\ \A q \in Requests : pc[q] \in {"answer", "hit"} => Reflects(got[q], log[base])
    BY DEF NothingOlder
  <2>1. marker /\ data # NoBlob => Reflects(data.payload, log[base])
    BY DEF IInv, Cache, Fresh
  <2>2. ASSUME NEW q \in Requests, pc[q] = "answer"
        PROVE  Reflects(got[q], log[base])
    BY <2>2, Backwards DEF IInv, Request, Fetched, TypeOK
  <2>3. ASSUME NEW q \in Requests, pc[q] = "hit"
        PROVE  Reflects(got[q], log[base])
    BY <2>3 DEF IInv, Cache, Vouching
  <2> QED BY <2>1, <2>2, <2>3
<1> QED BY <1>1, InitIInv, NextIInv, PTL DEF Spec

=============================================================================
