--------------------------- MODULE PolicyStoreProofs ---------------------------
(***************************************************************************)
(* The versions of every policy, for any number of admins and policies.    *)
(* What is inductive is the shape of each history together with what the   *)
(* open requests have read of it: the version before the one they write.   *)
(* At the end, what moves the kill switch while admins edit and reset.     *)
(***************************************************************************)
EXTENDS AdminConsole, FiniteSetTheorems, TLAPS

Open == {a \in Admins : request[a] # NoValue}

\* What a request is about to write comes after a version that is there.
Follows(q) ==
  /\ q.by = "PATCH" => q.version > 1
  /\ q.version > 1 => q.version - 1 \in VersionsOf(q.policy)

RequestsFollow == \A a \in Open : Follows(request[a])

HistoryInv == StoreTypeOK /\ HistoryIsWhole /\ RequestsFollow

----------------------------------------------------------------------------
(* What a commit writes.                                                   *)

Kept(q, r) == IF Replaces(q, r) THEN [r EXCEPT !.active = FALSE] ELSE r
Added(q)   == [policy |-> q.policy, version |-> q.version, active |-> TRUE, by |-> q.by]

\* A commit writes the rows it keeps, replaced or not, and the row it adds.
LEMMA WrittenRows ==
  ASSUME NEW q
  PROVE  Written(q) = {Kept(q, r) : r \in table} \cup {Added(q)}
BY DEF Written, Kept, Added

\* A row that is kept changes nothing but whether it is active.
LEMMA KeptRow ==
  ASSUME NEW q \in Requests, NEW r \in Rows
  PROVE  /\ Kept(q, r) \in Rows
         /\ Kept(q, r).policy = r.policy
         /\ Kept(q, r).version = r.version
         /\ Kept(q, r).by = r.by
         /\ Kept(q, r).active = (r.active /\ ~Replaces(q, r))
BY DEF Kept, Rows, Requests, Replaces

\* The added row is a version in force, made the way its request was.
LEMMA AddedRow ==
  ASSUME NEW q \in Requests
  PROVE  Added(q) \in Rows
BY DEF Added, Rows, Requests

\* The versions after a commit: those there were, and the new one.
LEMMA VersionsWritten ==
  ASSUME StoreTypeOK, NEW q \in Requests, table' = Written(q), NEW p
  PROVE  VersionsOf(p)' = VersionsOf(p) \cup (IF p = q.policy THEN {q.version} ELSE {})
<1>1. table \subseteq Rows
  BY DEF StoreTypeOK
<1>2. table' = {Kept(q, r) : r \in table} \cup {Added(q)}
  BY WrittenRows
<1>3. \A r \in table : Kept(q, r).policy = r.policy /\ Kept(q, r).version = r.version
  BY <1>1, KeptRow
<1>4. Added(q).policy = q.policy /\ Added(q).version = q.version
  BY DEF Added
<1>5. ASSUME NEW v \in VersionsOf(p)'
      PROVE  v \in VersionsOf(p) \cup (IF p = q.policy THEN {q.version} ELSE {})
  <2>1. PICK s \in table' : s.policy = p /\ s.version = v
    BY <1>5 DEF VersionsOf
  <2>2. CASE s = Added(q)
    BY <2>1, <2>2, <1>4
  <2>3. CASE \E r \in table : s = Kept(q, r)
    BY <2>1, <2>3, <1>3 DEF VersionsOf
  <2> QED BY <1>2, <2>2, <2>3
<1>6. ASSUME NEW v \in VersionsOf(p) PROVE v \in VersionsOf(p)'
  <2>1. PICK r \in table : r.policy = p /\ r.version = v
    BY <1>6 DEF VersionsOf
  <2>2. Kept(q, r) \in table'
    BY <1>2
  <2> QED BY <1>3, <2>1, <2>2 DEF VersionsOf
<1>7. p = q.policy => q.version \in VersionsOf(p)'
  BY <1>2, <1>4 DEF VersionsOf
<1> QED BY <1>5, <1>6, <1>7

----------------------------------------------------------------------------
(* The invariant.                                                          *)

\* An open request writes a version of a policy, from the first on.
LEMMA RequestTyped ==
  ASSUME StoreTypeOK, NEW a \in Admins, request[a] # NoValue
  PROVE  request[a] \in Requests
BY DEF StoreTypeOK

\* What a create computes is the version after the highest, or the first.
LEMMA NextVersionFollows ==
  ASSUME StoreTypeOK, NEW p \in Policies, NEW v \in 0..MaxVersion, IsNextVersion(p, v)
  PROVE  /\ v \in Nat \ {0}
         /\ v > 1 => v - 1 \in VersionsOf(p)
<1>1. VersionsOf(p) \subseteq Nat \ {0}
  BY DEF StoreTypeOK, VersionsOf, Rows
<1>2. v \in Nat
  BY StoreAssumption
<1>3. CASE VersionsOf(p) = {}
  BY <1>3 DEF IsNextVersion
<1>4. CASE VersionsOf(p) # {}
  <2>1. v - 1 \in VersionsOf(p)
    BY <1>4 DEF IsNextVersion
  <2> QED BY <1>1, <1>2, <2>1
<1> QED BY <1>3, <1>4

\* A request that is opened keeps the invariant if it follows what it has read.
LEMMA OpenKeepsHistory ==
  ASSUME HistoryInv, NEW a \in Admins, NEW q \in Requests, Follows(q),
         request' = [request EXCEPT ![a] = q], UNCHANGED table
  PROVE  HistoryInv'
<1>1. \A p : VersionsOf(p)' = VersionsOf(p)
  BY DEF VersionsOf
<1>2. StoreTypeOK'
  BY DEF HistoryInv, StoreTypeOK
<1>3. HistoryIsWhole'
  BY <1>1 DEF HistoryInv, HistoryIsWhole
<1>4. RequestsFollow'
  <2> SUFFICES ASSUME NEW b \in Admins, request'[b] # NoValue
               PROVE  Follows(request[b])'
    BY DEF RequestsFollow, Open
  <2>1. CASE b = a
    <3>1. request'[b] = q
      BY <2>1 DEF HistoryInv, StoreTypeOK
    <3> QED BY <1>1, <3>1 DEF Follows
  <2>2. CASE b # a
    <3>1. request'[b] = request[b]
      BY <2>2 DEF HistoryInv, StoreTypeOK
    <3>2. Follows(request[b])
      BY <3>1 DEF HistoryInv, RequestsFollow, Open
    <3> QED BY <1>1, <3>1, <3>2 DEF Follows
  <2> QED BY <2>1, <2>2
<1> QED BY <1>2, <1>3, <1>4 DEF HistoryInv

\* A commit that takes a free version extends one history and breaks none.
LEMMA CommitKeepsHistory ==
  ASSUME HistoryInv, NEW a \in Admins, request[a] # NoValue, ~Taken(request[a]),
         table' = Written(request[a]),
         request' = [request EXCEPT ![a] = NoValue]
  PROVE  HistoryInv'
<1> DEFINE q == request[a]
<1>1. /\ table \subseteq Rows
      /\ request \in [Admins -> Requests \cup {NoValue}]
      /\ q \in Requests
  BY RequestTyped DEF HistoryInv, StoreTypeOK
<1>2. table' = {Kept(q, r) : r \in table} \cup {Added(q)}
  BY WrittenRows
<1>3. \A r \in table : /\ Kept(q, r) \in Rows
                       /\ Kept(q, r).policy = r.policy
                       /\ Kept(q, r).version = r.version
                       /\ Kept(q, r).active = (r.active /\ ~Replaces(q, r))
  BY <1>1, KeptRow
<1>4. Added(q) \in Rows /\ Added(q).policy = q.policy /\ Added(q).version = q.version
  BY <1>1, AddedRow DEF Added
<1>5. \A p : VersionsOf(p)' = VersionsOf(p) \cup (IF p = q.policy THEN {q.version} ELSE {})
  BY <1>1, VersionsWritten DEF HistoryInv
<1>6. Follows(q)
  BY DEF HistoryInv, RequestsFollow, Open
<1>7. StoreTypeOK'
  BY <1>1, <1>2, <1>3, <1>4 DEF StoreTypeOK
<1>8. HistoryIsWhole'
  <2>1. ASSUME NEW r \in table', NEW s \in table', r.policy = s.policy, r.version = s.version
        PROVE  r = s
    <3>1. \A t \in table : ~(t.policy = q.policy /\ t.version = q.version)
      BY DEF Taken
    <3>2. CASE r = Added(q)
      BY <1>2, <1>3, <1>4, <2>1, <3>1, <3>2
    <3>3. CASE s = Added(q)
      BY <1>2, <1>3, <1>4, <2>1, <3>1, <3>3
    <3>4. CASE r # Added(q) /\ s # Added(q)
      <4>1. PICK x \in table : r = Kept(q, x)
        BY <1>2, <3>4
      <4>2. PICK y \in table : s = Kept(q, y)
        BY <1>2, <3>4
      <4>3. x = y
        BY <1>3, <2>1, <4>1, <4>2 DEF HistoryInv, HistoryIsWhole
      <4> QED BY <4>1, <4>2, <4>3
    <3> QED BY <3>2, <3>3, <3>4
  <2>2. ASSUME NEW s \in table', s.version > 1
        PROVE  s.version - 1 \in VersionsOf(s.policy)'
    <3>1. CASE s = Added(q)
      BY <1>4, <1>5, <1>6, <2>2, <3>1 DEF Follows
    <3>2. CASE s # Added(q)
      <4>1. PICK x \in table : s = Kept(q, x)
        BY <1>2, <3>2
      <4>2. x.version - 1 \in VersionsOf(x.policy)
        BY <1>3, <2>2, <4>1 DEF HistoryInv, HistoryIsWhole
      <4> QED BY <1>3, <1>5, <4>1, <4>2
    <3> QED BY <3>1, <3>2
  <2>3. ASSUME NEW s \in table', ~s.active
        PROVE  s.version + 1 \in VersionsOf(s.policy)'
    <3>1. PICK x \in table : s = Kept(q, x)
      BY <1>2, <2>3 DEF Added
    <3>2. CASE Replaces(q, x)
      <4>1. x.policy = q.policy /\ x.version + 1 = q.version
        BY <1>1, <3>2 DEF Replaces, Rows, Requests
      <4> QED BY <1>3, <1>5, <3>1, <4>1
    <3>3. CASE ~Replaces(q, x)
      <4>1. ~x.active
        BY <1>1, <1>3, <2>3, <3>1, <3>3 DEF Rows
      <4>2. x.version + 1 \in VersionsOf(x.policy)
        BY <4>1 DEF HistoryInv, HistoryIsWhole
      <4> QED BY <1>3, <1>5, <3>1, <4>2
    <3> QED BY <3>2, <3>3
  <2> QED BY <2>1, <2>2, <2>3 DEF HistoryIsWhole
<1>9. RequestsFollow'
  <2> SUFFICES ASSUME NEW b \in Admins, request'[b] # NoValue
               PROVE  Follows(request[b])'
    BY DEF RequestsFollow, Open
  <2>1. request'[b] = request[b]
    BY <1>1
  <2>2. Follows(request[b])
    BY <2>1 DEF HistoryInv, RequestsFollow, Open
  <2> QED BY <1>5, <2>1, <2>2 DEF Follows
<1> QED BY <1>7, <1>8, <1>9 DEF HistoryInv

\* A request that ends without having written anything.
LEMMA CloseKeepsHistory ==
  ASSUME HistoryInv, NEW a \in Admins, request' = [request EXCEPT ![a] = NoValue],
         UNCHANGED table
  PROVE  HistoryInv'
<1>1. \A p : VersionsOf(p)' = VersionsOf(p)
  BY DEF VersionsOf
<1>2. StoreTypeOK' /\ HistoryIsWhole'
  BY <1>1 DEF HistoryInv, StoreTypeOK, HistoryIsWhole
<1>3. RequestsFollow'
  <2> SUFFICES ASSUME NEW b \in Admins, request'[b] # NoValue
               PROVE  Follows(request[b])'
    BY DEF RequestsFollow, Open
  <2>1. request'[b] = request[b]
    BY DEF HistoryInv, StoreTypeOK
  <2>2. Follows(request[b])
    BY <2>1 DEF HistoryInv, RequestsFollow, Open
  <2> QED BY <1>1, <2>1, <2>2 DEF Follows
<1> QED BY <1>2, <1>3 DEF HistoryInv

\* An empty table has no history to break.
LEMMA InitHistory == StoreInit => HistoryInv
<1> SUFFICES ASSUME StoreInit PROVE HistoryInv
  OBVIOUS
<1>1. StoreTypeOK
  BY DEF StoreInit, StoreTypeOK
<1>2. HistoryIsWhole
  BY DEF StoreInit, HistoryIsWhole
<1>3. RequestsFollow
  BY DEF StoreInit, RequestsFollow, Open
<1> QED BY <1>1, <1>2, <1>3 DEF HistoryInv

\* Every step of a request, reads and lost commits included, keeps the histories.
LEMMA NextHistory == HistoryInv /\ [StoreNext]_storeVars => HistoryInv'
<1> SUFFICES ASSUME HistoryInv, [StoreNext]_storeVars PROVE HistoryInv'
  OBVIOUS
<1>1. ASSUME NEW a \in Admins, ReadForCreate(a) PROVE HistoryInv'
  <2>1. PICK p \in Policies, v \in 0..MaxVersion :
          /\ IsNextVersion(p, v)
          /\ request' = [request EXCEPT ![a] = [policy |-> p, version |-> v, by |-> "POST"]]
    BY <1>1 DEF ReadForCreate
  <2> DEFINE q == [policy |-> p, version |-> v, by |-> "POST"]
  <2>2. v \in Nat \ {0} /\ (v > 1 => v - 1 \in VersionsOf(p))
    BY <2>1, NextVersionFollows DEF HistoryInv
  <2>3. q \in Requests /\ Follows(q)
    BY <2>2 DEF Requests, Follows
  <2>4. UNCHANGED table
    BY <1>1 DEF ReadForCreate
  <2> QED BY <2>1, <2>3, <2>4, OpenKeepsHistory
<1>2. ASSUME NEW a \in Admins, ReadForUpdate(a) PROVE HistoryInv'
  <2>1. PICK r \in table :
          request' = [request EXCEPT ![a] = [policy |-> r.policy, version |-> r.version + 1,
                                             by |-> "PATCH"]]
    BY <1>2 DEF ReadForUpdate
  <2> DEFINE q == [policy |-> r.policy, version |-> r.version + 1, by |-> "PATCH"]
  <2>2. r \in Rows
    BY DEF HistoryInv, StoreTypeOK
  <2>3. r.version \in VersionsOf(r.policy)
    BY DEF VersionsOf
  <2>4. q \in Requests /\ Follows(q)
    BY <2>2, <2>3 DEF Rows, Requests, Follows
  <2>5. UNCHANGED table
    BY <1>2 DEF ReadForUpdate
  <2> QED BY <2>1, <2>4, <2>5, OpenKeepsHistory
<1>3. ASSUME NEW a \in Admins, Commit(a) PROVE HistoryInv'
  <2>1. /\ request[a] # NoValue
        /\ request' = [request EXCEPT ![a] = NoValue]
        /\ table' = IF Taken(request[a]) THEN table ELSE Written(request[a])
    BY <1>3 DEF Commit
  <2>2. CASE Taken(request[a])
    BY <2>1, <2>2, CloseKeepsHistory
  <2>3. CASE ~Taken(request[a])
    BY <2>1, <2>3, CommitKeepsHistory
  <2> QED BY <2>2, <2>3
<1>4. CASE UNCHANGED storeVars
  <2>1. UNCHANGED <<table, request>>
    BY <1>4 DEF storeVars
  <2> QED BY <2>1 DEF HistoryInv, StoreTypeOK, HistoryIsWhole, RequestsFollow, Open,
                      Follows, VersionsOf
<1> QED BY <1>1, <1>2, <1>3, <1>4 DEF StoreNext, StoreStep

\* Every reachable table keeps whole histories, whichever requests overlap.
THEOREM HistoryHolds == StoreSpec => []HistoryInv
BY InitHistory, NextHistory, PTL DEF StoreSpec

\* The rows and the open requests keep their types, for any admins and policies.
THEOREM StoreTypeHolds == StoreSpec => []StoreTypeOK
<1>1. HistoryInv => StoreTypeOK
  BY DEF HistoryInv
<1> QED BY <1>1, HistoryHolds, PTL

\* No gap, no version twice and a successor for what is deactivated, however creates
\* and updates overlap.
THEOREM HistoryIsWholeHolds == StoreSpec => []HistoryIsWhole
<1>1. HistoryInv => HistoryIsWhole
  BY DEF HistoryInv
<1> QED BY <1>1, HistoryHolds, PTL

----------------------------------------------------------------------------
(* Versions in force.                                                      *)

Finite == \A p \in Policies : IsFiniteSet(ActiveVersions(p)) /\ IsFiniteSet(CreatedVersions(p))

ActiveInv == HistoryInv /\ Finite /\ ActiveOncePerCreate

\* A commit adds its version to those in force, and an update takes the one it
\* replaces from them.
LEMMA ActiveWritten ==
  ASSUME StoreTypeOK, NEW q \in Requests, table' = Written(q), NEW p \in Policies
  PROVE  ActiveVersions(p)' =
           IF p # q.policy THEN ActiveVersions(p)
           ELSE (ActiveVersions(p) \ (IF q.by = "PATCH" THEN {q.version - 1} ELSE {}))
                  \cup {q.version}
<1>1. table \subseteq Rows
  BY DEF StoreTypeOK
<1>2. table' = {Kept(q, r) : r \in table} \cup {Added(q)}
  BY WrittenRows
<1>3. \A r \in table : /\ Kept(q, r).policy = r.policy
                       /\ Kept(q, r).version = r.version
                       /\ Kept(q, r).active = (r.active /\ ~Replaces(q, r))
  BY <1>1, KeptRow
<1>4. Added(q).policy = q.policy /\ Added(q).version = q.version /\ Added(q).active
  BY DEF Added
<1> DEFINE Gone(v) == p = q.policy /\ q.by = "PATCH" /\ v = q.version - 1
<1>5. ASSUME NEW v \in ActiveVersions(p)'
      PROVE  (v \in ActiveVersions(p) /\ ~Gone(v)) \/ (p = q.policy /\ v = q.version)
  <2>1. PICK s \in table' : s.policy = p /\ s.version = v /\ s.active
    BY <1>5 DEF ActiveVersions
  <2>2. CASE s = Added(q)
    BY <2>1, <2>2, <1>4
  <2>3. CASE \E r \in table : s = Kept(q, r)
    <3>1. PICK r \in table : s = Kept(q, r)
      BY <2>3
    <3>2. r.policy = p /\ r.version = v /\ r.active /\ ~Replaces(q, r)
      BY <1>3, <2>1, <3>1
    <3> QED BY <3>2 DEF ActiveVersions, Replaces
  <2> QED BY <1>2, <2>2, <2>3
<1>6. ASSUME NEW v \in ActiveVersions(p), ~Gone(v) PROVE v \in ActiveVersions(p)'
  <2>1. PICK r \in table : r.policy = p /\ r.version = v /\ r.active
    BY <1>6 DEF ActiveVersions
  <2>2. ~Replaces(q, r)
    BY <1>6, <2>1 DEF Replaces
  <2>3. Kept(q, r) \in table' /\ Kept(q, r).active
    BY <1>2, <1>3, <2>1, <2>2
  <2> QED BY <1>3, <2>1, <2>3 DEF ActiveVersions
<1>7. p = q.policy => q.version \in ActiveVersions(p)'
  BY <1>2, <1>4 DEF ActiveVersions
<1>8. q.version # q.version - 1
  BY DEF Requests
<1> QED BY <1>5, <1>6, <1>7, <1>8

\* A commit adds its version to those created only when it is a create's.
LEMMA CreatedWritten ==
  ASSUME StoreTypeOK, NEW q \in Requests, table' = Written(q), NEW p \in Policies
  PROVE  CreatedVersions(p)' =
           CreatedVersions(p) \cup (IF p = q.policy /\ q.by = "POST" THEN {q.version} ELSE {})
<1>1. table \subseteq Rows
  BY DEF StoreTypeOK
<1>2. table' = {Kept(q, r) : r \in table} \cup {Added(q)}
  BY WrittenRows
<1>3. \A r \in table : /\ Kept(q, r).policy = r.policy
                       /\ Kept(q, r).version = r.version
                       /\ Kept(q, r).by = r.by
  BY <1>1, KeptRow
<1>4. Added(q).policy = q.policy /\ Added(q).version = q.version /\ Added(q).by = q.by
  BY DEF Added
<1>5. ASSUME NEW v \in CreatedVersions(p)'
      PROVE  v \in CreatedVersions(p) \/ (p = q.policy /\ q.by = "POST" /\ v = q.version)
  <2>1. PICK s \in table' : s.policy = p /\ s.version = v /\ s.by = "POST"
    BY <1>5 DEF CreatedVersions
  <2>2. CASE s = Added(q)
    BY <2>1, <2>2, <1>4
  <2>3. CASE \E r \in table : s = Kept(q, r)
    BY <2>1, <2>3, <1>3 DEF CreatedVersions
  <2> QED BY <1>2, <2>2, <2>3
<1>6. ASSUME NEW v \in CreatedVersions(p) PROVE v \in CreatedVersions(p)'
  <2>1. PICK r \in table : r.policy = p /\ r.version = v /\ r.by = "POST"
    BY <1>6 DEF CreatedVersions
  <2>2. Kept(q, r) \in table'
    BY <1>2
  <2> QED BY <1>3, <2>1, <2>2 DEF CreatedVersions
<1>7. p = q.policy /\ q.by = "POST" => q.version \in CreatedVersions(p)'
  BY <1>2, <1>4 DEF CreatedVersions
<1> QED BY <1>5, <1>6, <1>7

\* The version an update replaces is in force, or the one after it would be taken.
LEMMA ReplacedIsActive ==
  ASSUME HistoryInv, NEW q \in Requests, Follows(q), ~Taken(q), q.by = "PATCH"
  PROVE  q.version - 1 \in ActiveVersions(q.policy)
<1>1. q.version - 1 \in VersionsOf(q.policy)
  BY DEF Follows
<1>2. PICK r \in table : r.policy = q.policy /\ r.version = q.version - 1
  BY <1>1 DEF VersionsOf
<1>3. r.active
  <2> SUFFICES ASSUME ~r.active PROVE FALSE
    OBVIOUS
  <2>1. r.version + 1 \in VersionsOf(r.policy)
    BY DEF HistoryInv, HistoryIsWhole
  <2>2. r.version + 1 = q.version
    BY <1>2 DEF Requests
  <2> QED BY <1>2, <2>1, <2>2 DEF VersionsOf, Taken
<1> QED BY <1>2, <1>3 DEF ActiveVersions

\* A create adds one to both counts, an update to neither.
LEMMA CommitKeepsActive ==
  ASSUME ActiveInv, NEW q \in Requests, Follows(q), ~Taken(q), table' = Written(q)
  PROVE  Finite' /\ ActiveOncePerCreate'
<1>1. StoreTypeOK
  BY DEF ActiveInv, HistoryInv
<1> SUFFICES ASSUME NEW p \in Policies
             PROVE  /\ IsFiniteSet(ActiveVersions(p))' /\ IsFiniteSet(CreatedVersions(p))'
                    /\ Cardinality(ActiveVersions(p))' = Cardinality(CreatedVersions(p))'
  BY DEF Finite, ActiveOncePerCreate
<1>2. /\ IsFiniteSet(ActiveVersions(p)) /\ IsFiniteSet(CreatedVersions(p))
      /\ Cardinality(ActiveVersions(p)) = Cardinality(CreatedVersions(p))
      /\ Cardinality(ActiveVersions(p)) \in Nat
  BY FS_CardinalityType DEF ActiveInv, Finite, ActiveOncePerCreate
<1>3. p = q.policy => q.version \notin ActiveVersions(p) /\ q.version \notin CreatedVersions(p)
  BY DEF Taken, ActiveVersions, CreatedVersions
<1>4. ActiveVersions(p)' =
        IF p # q.policy THEN ActiveVersions(p)
        ELSE (ActiveVersions(p) \ (IF q.by = "PATCH" THEN {q.version - 1} ELSE {}))
               \cup {q.version}
  BY <1>1, ActiveWritten
<1>5. CreatedVersions(p)' =
        CreatedVersions(p) \cup (IF p = q.policy /\ q.by = "POST" THEN {q.version} ELSE {})
  BY <1>1, CreatedWritten
<1>6. CASE p # q.policy
  <2>1. /\ ActiveVersions(p)' = ActiveVersions(p)
        /\ CreatedVersions(p)' = CreatedVersions(p)
    BY <1>6, <1>4, <1>5
  <2> QED BY <1>2, <2>1
<1>7. CASE p = q.policy /\ q.by = "POST"
  <2>1. /\ ActiveVersions(p)' = ActiveVersions(p) \cup {q.version}
        /\ CreatedVersions(p)' = CreatedVersions(p) \cup {q.version}
    BY <1>7, <1>4, <1>5
  <2>2. /\ IsFiniteSet(ActiveVersions(p) \cup {q.version})
        /\ Cardinality(ActiveVersions(p) \cup {q.version}) = Cardinality(ActiveVersions(p)) + 1
    BY <1>2, <1>3, <1>7, FS_AddElement
  <2>3. /\ IsFiniteSet(CreatedVersions(p) \cup {q.version})
        /\ Cardinality(CreatedVersions(p) \cup {q.version}) = Cardinality(CreatedVersions(p)) + 1
    BY <1>2, <1>3, <1>7, FS_AddElement
  <2> QED BY <1>2, <2>1, <2>2, <2>3
<1>8. CASE p = q.policy /\ q.by = "PATCH"
  <2> DEFINE Rest == ActiveVersions(p) \ {q.version - 1}
  <2>1. /\ ActiveVersions(p)' = Rest \cup {q.version}
        /\ CreatedVersions(p)' = CreatedVersions(p)
    BY <1>8, <1>4, <1>5
  <2>2. q.version - 1 \in ActiveVersions(p)
    BY <1>8, ReplacedIsActive DEF ActiveInv
  <2>3. IsFiniteSet(Rest) /\ Cardinality(Rest) = Cardinality(ActiveVersions(p)) - 1
    BY <1>2, <2>2, FS_RemoveElement
  <2>4. q.version \notin Rest
    BY <1>3, <1>8
  <2>5. /\ IsFiniteSet(Rest \cup {q.version})
        /\ Cardinality(Rest \cup {q.version}) = Cardinality(Rest) + 1
    BY <2>3, <2>4, FS_AddElement
  <2> QED BY <1>2, <2>1, <2>3, <2>5
<1>9. q.by \in {"POST", "PATCH"}
  BY DEF Requests
<1> QED BY <1>6, <1>7, <1>8, <1>9

\* Both counts are of the table alone.
LEMMA SameTableKeepsActive ==
  ASSUME Finite, ActiveOncePerCreate, UNCHANGED table
  PROVE  Finite' /\ ActiveOncePerCreate'
BY DEF Finite, ActiveOncePerCreate, ActiveVersions, CreatedVersions

\* Only a commit of a free version writes the table.
LEMMA TableSteps ==
  ASSUME HistoryInv, [StoreNext]_storeVars
  PROVE  \/ UNCHANGED table
         \/ \E q \in Requests : Follows(q) /\ ~Taken(q) /\ table' = Written(q)
<1>1. ASSUME NEW a \in Admins, Commit(a), ~Taken(request[a])
      PROVE  request[a] \in Requests /\ Follows(request[a]) /\ table' = Written(request[a])
  <2>1. request[a] # NoValue /\ table' = Written(request[a])
    BY <1>1 DEF Commit
  <2>2. request[a] \in Requests
    BY <2>1, RequestTyped DEF HistoryInv
  <2>3. Follows(request[a])
    BY <2>1 DEF HistoryInv, RequestsFollow, Open
  <2> QED BY <2>1, <2>2, <2>3
<1>2. ASSUME NEW a \in Admins, Commit(a), Taken(request[a]) PROVE UNCHANGED table
  BY <1>2 DEF Commit
<1>3. ASSUME NEW a \in Admins, ReadForCreate(a) \/ ReadForUpdate(a) PROVE UNCHANGED table
  BY <1>3 DEF ReadForCreate, ReadForUpdate
<1> QED BY <1>1, <1>2, <1>3 DEF StoreNext, StoreStep, storeVars

\* A policy has as many versions in force as it was created, in every interleaving.
THEOREM ActiveOnceHolds == StoreSpec => []ActiveOncePerCreate
<1>1. StoreInit => ActiveInv
  <2> SUFFICES ASSUME StoreInit PROVE ActiveInv
    OBVIOUS
  <2>1. \A p : ActiveVersions(p) = {} /\ CreatedVersions(p) = {}
    BY DEF StoreInit, ActiveVersions, CreatedVersions
  <2> QED BY <2>1, InitHistory, FS_EmptySet DEF ActiveInv, Finite, ActiveOncePerCreate
<1>2. ActiveInv /\ [StoreNext]_storeVars => ActiveInv'
  <2> SUFFICES ASSUME ActiveInv, [StoreNext]_storeVars PROVE ActiveInv'
    OBVIOUS
  <2>1. HistoryInv'
    BY NextHistory DEF ActiveInv
  <2>2. Finite' /\ ActiveOncePerCreate'
    BY TableSteps, SameTableKeepsActive, CommitKeepsActive DEF ActiveInv
  <2> QED BY <2>1, <2>2 DEF ActiveInv
<1>3. ActiveInv => ActiveOncePerCreate
  BY DEF ActiveInv
<1> QED BY <1>1, <1>2, <1>3, PTL DEF StoreSpec

\* An active version with a successor is never deactivated: the update that could
\* do it finds its version taken.
THEOREM OvertakenHolds == StoreSpec => OvertakenStaysActive
<1> DEFINE Stays == \A p \in Policies : \A v \in ActiveVersions(p) :
                      v + 1 \in VersionsOf(p) => v \in ActiveVersions(p)'
<1>1. HistoryInv /\ [StoreNext]_storeVars => Stays
  <2> SUFFICES ASSUME HistoryInv, [StoreNext]_storeVars, NEW p \in Policies,
                      NEW v \in ActiveVersions(p), v + 1 \in VersionsOf(p)
               PROVE  v \in ActiveVersions(p)'
    OBVIOUS
  <2>1. CASE UNCHANGED table
    BY <2>1 DEF ActiveVersions
  <2>2. ASSUME NEW q \in Requests, ~Taken(q), table' = Written(q)
        PROVE  v \in ActiveVersions(p)'
    <3>1. StoreTypeOK
      BY DEF HistoryInv
    <3>2. v \in Nat
      BY <3>1 DEF StoreTypeOK, ActiveVersions, Rows
    <3>3. ~(p = q.policy /\ v = q.version - 1)
      <4> SUFFICES ASSUME p = q.policy, v = q.version - 1 PROVE FALSE
        OBVIOUS
      <4>1. v + 1 = q.version
        BY <3>2 DEF Requests
      <4> QED BY <2>2, <4>1 DEF VersionsOf, Taken
    <3> QED BY <2>2, <3>1, <3>3, ActiveWritten
  <2> QED BY <2>1, <2>2, TableSteps
<1>2. HistoryInv /\ [StoreNext]_storeVars => [Stays]_storeVars
  BY <1>1
<1> QED BY <1>2, HistoryHolds, PTL DEF StoreSpec, OvertakenStaysActive

----------------------------------------------------------------------------
(* The console changes policies only through the two requests.             *)

\* What is proved of the store holds while configuration edits and simulations run
\* beside it.
THEOREM ConsoleKeepsStore == Spec => StoreSpec
<1>1. Init => StoreInit
  BY DEF Init
<1>2. [Next]_vars => [StoreNext]_storeVars
  <2> SUFFICES ASSUME [Next]_vars PROVE [StoreNext]_storeVars
    OBVIOUS
  <2>1. ASSUME NEW a \in Admins, StoreStep(a) PROVE StoreNext
    BY <2>1 DEF StoreNext
  <2>2. ASSUME NEW a \in Admins, Edit(a) PROVE UNCHANGED storeVars
    BY <2>2 DEF Edit, AskForEdit, ReadRow, ToggleSwitch, SetDryRun, EditFails
  <2>5. ASSUME NEW a \in Admins, ResetDemo(a) PROVE UNCHANGED storeVars
    BY <2>5 DEF ResetDemo, ReadSwitchForReset, ReadDryRunForReset, CommitReset
  <2>3. ASSUME NEW s \in Simulated, Simulate(s) PROVE UNCHANGED storeVars
    BY <2>3 DEF Simulate, FailOnImport, PassWithoutTrace
  <2>4. CASE UNCHANGED vars
    BY <2>4 DEF vars
  <2> QED BY <2>1, <2>2, <2>3, <2>4, <2>5 DEF Next
<1> QED BY <1>1, <1>2, PTL DEF Spec, StoreSpec

----------------------------------------------------------------------------
(* The console: what moves the kill switch.                                *)

Points == {"switch", "toggle", "dryRun", "set", "resetDryRun", "reset"}

EditRows == [at : Points, switch : BOOLEAN \cup {NoValue}, dryRun : BOOLEAN \cup {NoValue},
             seenSwitch : BOOLEAN \cup {NoValue}, seenDryRun : BOOLEAN \cup {NoValue}]

\* A request that writes the kill switch has a value for it; the rows and what was
\* read of them are booleans, or not there.
ConsoleInv ==
  /\ switch \in BOOLEAN \cup {NoValue}
  /\ dryRun \in BOOLEAN \cup {NoValue}
  /\ edit \in [Admins -> EditRows \cup {NoValue}]
  /\ \A a \in Admins : edit[a] # NoValue /\ edit[a].at \in {"switch", "toggle"} =>
       edit[a].switch \in BOOLEAN

\* No request is open at first.
LEMMA ConsoleInit == Init => ConsoleInv
BY DEF Init, ConsoleInv

\* A step of one admin keeps the invariant if its own request fits.
LEMMA OneEdits ==
  ASSUME ConsoleInv, NEW a \in Admins, NEW e \in EditRows \cup {NoValue},
         e # NoValue /\ e.at \in {"switch", "toggle"} => e.switch \in BOOLEAN,
         edit' = [edit EXCEPT ![a] = e],
         switch' \in BOOLEAN \cup {NoValue}, dryRun' \in BOOLEAN \cup {NoValue}
  PROVE  ConsoleInv'
BY DEF ConsoleInv

\* What an upsert leaves in a row is what it held or what was written.
LEMMA UpsertedIsEither ==
  ASSUME NEW seen, NEW old, NEW new
  PROVE  Upserted(seen, old, new) \in {old, new} /\ ResetRow(seen, old) \in {old, FALSE}
BY DEF Upserted, ResetRow

\* Every step of an edit keeps the invariant.
LEMMA EditKeeps ==
  ASSUME ConsoleInv, NEW a \in Admins, Edit(a)
  PROVE  ConsoleInv'
<1>1. CASE AskForEdit(a)
  <2>1. PICK e \in Edits : edit' = [edit EXCEPT ![a] =
               [at |-> IF e.switch = NoValue THEN "dryRun" ELSE "switch",
                switch |-> e.switch, dryRun |-> e.dryRun,
                seenSwitch |-> NoValue, seenDryRun |-> NoValue]]
    BY <1>1 DEF AskForEdit
  <2>2. e.switch \in BOOLEAN \cup {NoValue} /\ e.dryRun \in BOOLEAN \cup {NoValue}
    BY ConsoleAssumption DEF Edits
  <2> DEFINE n == [at |-> IF e.switch = NoValue THEN "dryRun" ELSE "switch",
                   switch |-> e.switch, dryRun |-> e.dryRun,
                   seenSwitch |-> NoValue, seenDryRun |-> NoValue]
  <2>3. n \in EditRows /\ (n.at \in {"switch", "toggle"} => n.switch \in BOOLEAN)
    BY <2>2 DEF EditRows, Points
  <2>4. UNCHANGED <<switch, dryRun>>
    BY <1>1 DEF AskForEdit
  <2>5. edit' = [edit EXCEPT ![a] = n]
    BY <2>1
  <2> HIDE DEF n
  <2> QED BY <2>3, <2>4, <2>5, OneEdits DEF ConsoleInv
<1>2. CASE ReadRow(a)
  <2>1. edit[a] \in EditRows
    BY <1>2 DEF ReadRow, Editing, ConsoleInv
  <2>2. UNCHANGED <<switch, dryRun>>
    BY <1>2 DEF ReadRow
  <2>3. CASE Editing(a, "switch") /\ edit' = [edit EXCEPT ![a].at = "toggle", ![a].seenSwitch = switch]
    <3> DEFINE n == [edit[a] EXCEPT !.at = "toggle", !.seenSwitch = switch]
    <3>1. n \in EditRows /\ n.at = "toggle" /\ n.switch = edit[a].switch
      BY <2>1 DEF EditRows, Points, ConsoleInv
    <3>2. edit[a].switch \in BOOLEAN
      BY <2>3 DEF Editing, ConsoleInv
    <3>3. edit' = [edit EXCEPT ![a] = n]
      BY <2>3 DEF ConsoleInv
    <3> HIDE DEF n
    <3> QED BY <2>2, <3>1, <3>2, <3>3, OneEdits DEF ConsoleInv
  <2>4. CASE Editing(a, "dryRun") /\ edit' = [edit EXCEPT ![a].at = "set", ![a].seenDryRun = dryRun]
    <3> DEFINE n == [edit[a] EXCEPT !.at = "set", !.seenDryRun = dryRun]
    <3>1. n \in EditRows /\ n.at = "set"
      BY <2>1 DEF EditRows, Points, ConsoleInv
    <3>2. edit' = [edit EXCEPT ![a] = n]
      BY <2>4 DEF ConsoleInv
    <3> HIDE DEF n
    <3> QED BY <2>2, <3>1, <3>2, OneEdits DEF ConsoleInv
  <2> QED BY <1>2, <2>3, <2>4 DEF ReadRow
<1>3. CASE ToggleSwitch(a)
  <2> DEFINE n == [edit[a] EXCEPT !.at = "dryRun"]
  <2>1. edit[a] \in EditRows /\ edit[a].switch \in BOOLEAN
    BY <1>3 DEF ToggleSwitch, Editing, ConsoleInv
  <2>2. n \in EditRows /\ n.at = "dryRun"
    BY <2>1 DEF EditRows, Points
  <2>3. switch' \in {switch, edit[a].switch} /\ UNCHANGED dryRun
    BY <1>3, UpsertedIsEither DEF ToggleSwitch
  <2>4. edit' = [edit EXCEPT ![a] = n]
    BY <1>3 DEF ToggleSwitch, ConsoleInv
  <2> HIDE DEF n
  <2> QED BY <2>1, <2>2, <2>3, <2>4, OneEdits DEF ConsoleInv
<1>4. CASE SetDryRun(a)
  <2>1. edit[a] \in EditRows /\ edit[a].dryRun \in BOOLEAN \cup {NoValue}
    BY <1>4 DEF SetDryRun, Editing, ConsoleInv, EditRows
  <2>2. UNCHANGED switch /\ edit' = [edit EXCEPT ![a] = NoValue]
    BY <1>4 DEF SetDryRun
  <2>3. dryRun' \in {dryRun, edit[a].dryRun}
    <3>1. Upserted(edit[a].seenDryRun, dryRun, edit[a].dryRun) \in {dryRun, edit[a].dryRun}
      BY UpsertedIsEither
    <3>2. dryRun' = dryRun \/ dryRun' = Upserted(edit[a].seenDryRun, dryRun, edit[a].dryRun)
      BY <1>4 DEF SetDryRun
    <3> QED BY <3>1, <3>2
  <2>4. dryRun' \in BOOLEAN \cup {NoValue} /\ switch' \in BOOLEAN \cup {NoValue}
    BY <2>1, <2>2, <2>3 DEF ConsoleInv
  <2> QED BY <2>2, <2>4, OneEdits
<1>5. CASE EditFails(a)
  BY <1>5, OneEdits DEF EditFails, ConsoleInv
<1> QED BY <1>1, <1>2, <1>3, <1>4, <1>5 DEF Edit

\* Every step of a demo reset keeps the invariant.
LEMMA ResetKeeps ==
  ASSUME ConsoleInv, NEW a \in Admins, ResetDemo(a)
  PROVE  ConsoleInv'
<1>1. CASE ReadSwitchForReset(a)
  <2> DEFINE n == [at |-> "resetDryRun", switch |-> FALSE, dryRun |-> FALSE,
                   seenSwitch |-> switch, seenDryRun |-> NoValue]
  <2>1. n \in EditRows /\ n.switch = FALSE
    BY DEF EditRows, Points, ConsoleInv
  <2>2. edit' = [edit EXCEPT ![a] = n] /\ UNCHANGED <<switch, dryRun>>
    BY <1>1 DEF ReadSwitchForReset
  <2> HIDE DEF n
  <2> QED BY <2>1, <2>2, OneEdits DEF ConsoleInv
<1>2. CASE ReadDryRunForReset(a)
  <2> DEFINE n == [edit[a] EXCEPT !.at = "reset", !.seenDryRun = dryRun]
  <2>1. edit[a] \in EditRows
    BY <1>2 DEF ReadDryRunForReset, Editing, ConsoleInv
  <2>2. n \in EditRows /\ n.at = "reset"
    BY <2>1 DEF EditRows, Points, ConsoleInv
  <2>3. edit' = [edit EXCEPT ![a] = n] /\ UNCHANGED <<switch, dryRun>>
    BY <1>2 DEF ReadDryRunForReset, ConsoleInv
  <2> HIDE DEF n
  <2> QED BY <2>2, <2>3, OneEdits DEF ConsoleInv
<1>3. CASE CommitReset(a)
  <2>1. switch' \in {switch, FALSE} /\ dryRun' \in {dryRun, FALSE}
    BY <1>3, UpsertedIsEither DEF CommitReset
  <2> QED BY <1>3, <2>1, OneEdits DEF CommitReset, ConsoleInv
<1> QED BY <1>1, <1>2, <1>3 DEF ResetDemo

\* The configuration keeps its types, and a request that writes the kill switch has a
\* value for it, for any admins.
THEOREM ConsoleHolds == Spec => []ConsoleInv
<1>1. ConsoleInv /\ [Next]_vars => ConsoleInv'
  <2> SUFFICES ASSUME ConsoleInv, [Next]_vars PROVE ConsoleInv'
    OBVIOUS
  <2>1. ASSUME NEW a \in Admins, Edit(a) \/ ResetDemo(a) PROVE ConsoleInv'
    BY <2>1, EditKeeps, ResetKeeps
  <2>2. CASE UNCHANGED <<switch, dryRun, edit>>
    BY <2>2 DEF ConsoleInv
  <2> QED BY <2>1, <2>2 DEF Next, consoleVars, Simulate, FailOnImport, PassWithoutTrace, vars
<1> QED BY <1>1, ConsoleInit, PTL DEF Spec

\* The steps that move the switch.
LEMMA SwitchMoves ==
  ASSUME ConsoleInv, [Next]_vars, switch' # switch
  PROVE  \E a \in Admins : ToggleSwitch(a) \/ CommitReset(a)
BY DEF Next, consoleVars, Edit, AskForEdit, ReadRow, SetDryRun, EditFails, ResetDemo,
       ReadSwitchForReset, ReadDryRunForReset, Simulate, FailOnImport, PassWithoutTrace, vars

\* The stop is never lifted or made unaudited, but for the demo reset.
THEOREM OnlyResetsHolds == Spec => OnlyResetsGoUnaudited
<1> DEFINE Audited == switch' # switch =>
                        \/ toggles' = switch'
                        \/ switch' = FALSE /\ \E a \in Admins : Editing(a, "reset") /\ edit[a]' = NoValue
<1>1. ConsoleInv /\ [Next]_vars => Audited
  <2> SUFFICES ASSUME ConsoleInv, [Next]_vars, switch' # switch
               PROVE  \/ toggles' = switch'
                      \/ switch' = FALSE /\ \E a \in Admins : Editing(a, "reset") /\ edit[a]' = NoValue
    OBVIOUS
  <2>1. PICK a \in Admins : ToggleSwitch(a) \/ CommitReset(a)
    BY SwitchMoves
  <2>2. CASE ToggleSwitch(a)
    BY <2>2, UpsertedIsEither DEF ToggleSwitch
  <2>3. CASE CommitReset(a)
    <3>1. switch' = FALSE
      BY <2>3, UpsertedIsEither DEF CommitReset
    <3> QED BY <2>3, <3>1 DEF CommitReset, ConsoleInv
  <2> QED BY <2>1, <2>2, <2>3
<1> QED BY <1>1, ConsoleHolds, PTL DEF Spec, OnlyResetsGoUnaudited

\* Whoever lifts the stop has read it, for any number of admins.
THEOREM SeenBeforeHolds == Spec => SeenBeforeTurnedOff
<1> DEFINE Seen == switch = TRUE /\ switch' = FALSE =>
                     \E a \in Admins : /\ edit[a] # NoValue /\ edit[a].seenSwitch = TRUE
                                       /\ edit[a]' # edit[a]
<1>1. ConsoleInv /\ [Next]_vars => Seen
  <2> SUFFICES ASSUME ConsoleInv, [Next]_vars, switch = TRUE, switch' = FALSE
               PROVE  \E a \in Admins : /\ edit[a] # NoValue /\ edit[a].seenSwitch = TRUE
                                        /\ edit[a]' # edit[a]
    OBVIOUS
  <2>1. PICK a \in Admins : ToggleSwitch(a) \/ CommitReset(a)
    BY SwitchMoves
  <2>2. edit[a] \in EditRows
    BY <2>1 DEF ToggleSwitch, CommitReset, Editing, ConsoleInv
  <2>3. edit[a].seenSwitch \in {NoValue, TRUE, FALSE} /\ edit[a].switch \in {NoValue, TRUE, FALSE}
    BY <2>2 DEF EditRows
  <2>4. CASE ToggleSwitch(a)
    <3>1. edit[a].at = "toggle" /\ edit[a].switch \in {TRUE, FALSE}
      BY <2>4 DEF ToggleSwitch, Editing, ConsoleInv
    <3>2. edit[a].switch = FALSE /\ edit[a].seenSwitch # FALSE
      BY <2>4, <3>1 DEF ToggleSwitch, Upserted
    <3>3. edit[a].seenSwitch # NoValue
      BY <2>4, ConsoleAssumption DEF ToggleSwitch, InsertClashes
    <3>4. edit[a]'.at = "dryRun"
      BY <2>2, <2>4 DEF ToggleSwitch, ConsoleInv, EditRows
    <3> QED BY <2>3, <2>4, <3>1, <3>2, <3>3, <3>4 DEF ToggleSwitch, Editing
  <2>5. CASE CommitReset(a)
    <3>1. edit[a].seenSwitch # NoValue /\ edit[a].seenSwitch # FALSE
      BY <2>5 DEF CommitReset, ResetRow, Upserted
    <3>2. edit[a] # NoValue /\ edit[a]' = NoValue
      BY <2>5 DEF CommitReset, Editing, ConsoleInv
    <3> QED BY <2>3, <3>1, <3>2
  <2> QED BY <2>1, <2>4, <2>5
<1> QED BY <1>1, ConsoleHolds, PTL DEF Spec, SeenBeforeTurnedOff

===============================================================================
