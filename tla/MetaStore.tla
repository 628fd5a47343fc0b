----------------------------- MODULE MetaStore -----------------------------
(***************************************************************************)
(* The part of the MetaStore (internal/state) that query execution relies  *)
(* on: the records and, beside them, the lease keys.  Every operation here *)
(* is one atomic step of the store.  A lease is present or absent: its TTL *)
(* is the action LeaseExpires.                                             *)
(***************************************************************************)
EXTENDS QueryStates

CONSTANT Query

VARIABLES
  queries,   \* the record of each query, NoRecord when there is none
  leases     \* the queries whose lease key exists

storeVars == <<queries, leases>>

Exists(q) == queries[q] # NoRecord

Active(q) == queries[q].state \in {"PENDING", "RUNNING"}

(* store() / writeQuery(): a terminal record gives up its lease. *)
PutQuery(q, rec) ==
  /\ queries' = [queries EXCEPT ![q] = rec]
  /\ leases' = IF IsTerminal(rec.state) THEN leases \ {q} ELSE leases

(***************************************************************************)
(* A PutQuery that returns an error.  The Redis pipeline is not a          *)
(* transaction: none of it, the SET alone or all of it may have been       *)
(* applied when the call fails or times out.                               *)
(***************************************************************************)
PutQueryError(q, rec) ==
  \/ UNCHANGED storeVars
  \/ queries' = [queries EXCEPT ![q] = rec] /\ UNCHANGED leases
  \/ PutQuery(q, rec)

(* Mutant of UpdateQueryIfState: the fence is not looked at. *)
UpdateQueryUnfenced(q, rec, expected) == PutQuery(q, rec)

(* The fenced write: rec is stored only over one of the expected states. *)
UpdateQueryIfState(q, rec, expected) ==
  IF queries[q].state \in expected THEN PutQuery(q, rec) ELSE UNCHANGED storeVars

(* Heartbeat sets a lease key for each id it is given and reads no record. *)
HeartbeatLeases(ids) == leases' = leases \cup ids /\ UNCHANGED queries

(* Non-terminal records without a lease. *)
ListStaleQueries == {q \in Query : Active(q) /\ q \notin leases}

(* The TTL of a lease key runs out. *)
ExpireLease(q) == q \in leases /\ leases' = leases \ {q} /\ UNCHANGED queries
=============================================================================
