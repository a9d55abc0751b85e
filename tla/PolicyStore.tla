----------------------------- MODULE PolicyStore -----------------------------
(***************************************************************************)
(* The versions of the controller's policies and the two requests that     *)
(* write them (backend/app/api/routes/policies.py).  A request reads the   *)
(* table, computes the next version and commits later: between the two,    *)
(* another admin may have taken that version, and the unique constraint    *)
(* on (policy_id, version) is all that stands between them.                *)
(***************************************************************************)
EXTENDS Integers, FiniteSets

CONSTANTS
  Admins,         \* the requests that may be open at the same time
  Policies,       \* policy_id
  MaxVersion,     \* bound: no request starts for a later version
  NoValue         \* no request

ASSUME StoreAssumption ==
  /\ MaxVersion \in Nat
  /\ IsFiniteSet(Admins)

VARIABLES
  table,          \* the rows: a policy, a version, whether it is ACTIVE, how it was made
  request         \* per admin: the version the open request is about to write

storeVars == <<table, request>>

Rows     == [policy : Policies, version : Nat \ {0}, active : BOOLEAN, by : {"POST", "PATCH"}]
Requests == [policy : Policies, version : Nat \ {0}, by : {"POST", "PATCH"}]

----------------------------------------------------------------------------
VersionsOf(p) == {r.version : r \in {s \in table : s.policy = p}}

StoreInit ==
  /\ table = {}
  /\ request = [a \in Admins |-> NoValue]

IsNextVersion_FromZero(p, v) ==
  IF VersionsOf(p) = {} THEN v = 0
  ELSE v - 1 \in VersionsOf(p) /\ \A w \in VersionsOf(p) : w < v

\* The version after the highest, 1 if there is none.
IsNextVersion(p, v) ==
  IF VersionsOf(p) = {} THEN v = 1
  ELSE v - 1 \in VersionsOf(p) /\ \A w \in VersionsOf(p) : w < v

\* create_policy, up to its commit.
ReadForCreate(a) ==
  /\ request[a] = NoValue
  /\ \E p \in Policies : \E v \in 0..MaxVersion :
       /\ IsNextVersion(p, v)
       /\ request' = [request EXCEPT ![a] = [policy |-> p, version |-> v, by |-> "POST"]]
  /\ UNCHANGED table

\* update_policy, up to its commit: any version may be the one that is updated.
ReadForUpdate(a) ==
  /\ request[a] = NoValue
  /\ \E r \in table :
       /\ r.version < MaxVersion
       /\ request' = [request EXCEPT ![a] = [policy |-> r.policy, version |-> r.version + 1,
                                             by |-> "PATCH"]]
  /\ UNCHANGED table

Taken(q) == \E r \in table : r.policy = q.policy /\ r.version = q.version

Replaces_AllOlder(q, r) == q.by = "PATCH" /\ r.policy = q.policy /\ r.version < q.version

\* An update deactivates the version it was called for, whatever its status.
Replaces(q, r) == q.by = "PATCH" /\ r.policy = q.policy /\ r.version = q.version - 1

Written(q) ==
  {IF Replaces(q, r) THEN [r EXCEPT !.active = FALSE] ELSE r : r \in table}
    \cup {[policy |-> q.policy, version |-> q.version, active |-> TRUE, by |-> q.by]}

Commit_NoConstraint(a) ==
  /\ request[a] # NoValue
  /\ table' = Written(request[a])
  /\ request' = [request EXCEPT ![a] = NoValue]

Commit_DeactivatesFirst(a) ==
  /\ request[a] # NoValue
  /\ table' = IF Taken(request[a])
              THEN {IF Replaces(request[a], r) THEN [r EXCEPT !.active = FALSE] ELSE r :
                      r \in table}
              ELSE Written(request[a])
  /\ request' = [request EXCEPT ![a] = NoValue]

\* One commit: when the version is taken, nothing of it is kept.
Commit(a) ==
  /\ request[a] # NoValue
  /\ table' = IF Taken(request[a]) THEN table ELSE Written(request[a])
  /\ request' = [request EXCEPT ![a] = NoValue]

StoreStep(a) == ReadForCreate(a) \/ ReadForUpdate(a) \/ Commit(a)

StoreNext == \E a \in Admins : StoreStep(a)

StoreSpec == StoreInit /\ [][StoreNext]_storeVars

----------------------------------------------------------------------------
(* Properties.                                                             *)

ActiveVersions(p)  == {r.version : r \in {s \in table : s.policy = p /\ s.active}}
CreatedVersions(p) == {r.version : r \in {s \in table : s.policy = p /\ s.by = "POST"}}

\* The type of every part of the state (models/controller.py).
StoreTypeOK ==
  /\ table \subseteq Rows
  /\ request \in [Admins -> Requests \cup {NoValue}]

\* The history of a policy has no gap and no version twice, and a version that was
\* deactivated has one that replaced it, however creates and updates overlap.
HistoryIsWhole ==
  /\ \A r, s \in table : r.policy = s.policy /\ r.version = s.version => r = s
  /\ \A r \in table : r.version > 1 => r.version - 1 \in VersionsOf(r.policy)
  /\ \A r \in table : ~r.active => r.version + 1 \in VersionsOf(r.policy)

\* A policy has exactly as many versions in force as it was created: an update
\* replaces the one it is called for, a create adds one beside those that are
\* active.  The engine reads all of them, in no order.
ActiveOncePerCreate ==
  \A p \in Policies : Cardinality(ActiveVersions(p)) = Cardinality(CreatedVersions(p))

\* A version in force that a later create has overtaken stays in force for good:
\* every update of it fails, since the version after it is taken.
OvertakenStaysActive ==
  [][\A p \in Policies : \A v \in ActiveVersions(p) :
       v + 1 \in VersionsOf(p) => v \in ActiveVersions(p)']_storeVars
===============================================================================
