---------------------------- MODULE Idempotency ----------------------------
(***************************************************************************)
(* One idempotency key and the submissions that carry it: SubmitQuery and  *)
(* resolveIdempotency from claiming the key to the reply, the re-arming of *)
(* the key in complete(), its release by the garbage collector and its own *)
(* expiry.  Requests may reach different instances, so every store call is *)
(* a step of its own, any of them may fail, and any process may die.       *)
(*                                                                         *)
(* A request is identified with the query id it generates.                 *)
(***************************************************************************)
EXTENDS Naturals, FiniteSets

CONSTANTS
  Request,
  None,        \* the key is not set
  MaxOverlap   \* bound: requests being handled at the same time

ASSUME RequestsFinite == IsFiniteSet(Request)
ASSUME NoneIsNoRequest == None \notin Request
ASSUME OverlapPositive == MaxOverlap \in Nat \ {0}

VARIABLES
  key,       \* the query id stored under the key, or None
  rec,       \* the record of each query: "none", "active" or "terminal"
  pc,        \* where each submission, then its run, is
  seen,      \* existingID, as the submission has read it
  reply,     \* the query id a submission answered with
  started,   \* queries whose execution was launched
  over,      \* queries whose retention window has ended
  short,     \* queries whose key runs out before their retention window ends
  gc,        \* queries whose key the garbage collector has dealt with
  fault,     \* requests one of whose own calls failed, or whose process died
  leak       \* requests whose claim could not be undone

vars == <<key, rec, pc, seen, reply, started, over, short, gc, fault, leak>>

Handling == {"lookup", "check", "reclaim", "retry", "lookupAgain", "checkAgain", "claimed",
             "rollback"}
Executing == {"running", "finished"}
Settled == {"failed", "done"}

Init ==
  /\ key = None
  /\ rec = [r \in Request |-> "none"]
  /\ pc = [r \in Request |-> "new"]
  /\ seen = [r \in Request |-> None]
  /\ reply = [r \in Request |-> None]
  /\ started = {}
  /\ over = {}
  /\ short = {}
  /\ gc = {}
  /\ fault = {}
  /\ leak = {}

Goto(r, l) == pc' = [pc EXCEPT ![r] = l]

(* The submission answers with an error; its own failure is on record. *)
Fail(r) == Goto(r, "failed") /\ fault' = fault \cup {r}

-----------------------------------------------------------------------------
(* The key.                                                                *)

(* SetNX: the key when it was free. *)
SetNX(r) == key' = IF key = None THEN r ELSE key

(* ReleaseIdempotency: compare and delete. *)
Release(r) == key' = IF key = r THEN None ELSE key

(* AcquireIdempotency, up to the SetNX.  A lost reply may hide a success. *)
Acquire(r, taken) ==
  \/ key = None /\ SetNX(r) /\ Goto(r, "claimed") /\ UNCHANGED <<fault, leak>>
  \/ key # None /\ Goto(r, taken) /\ UNCHANGED <<key, fault, leak>>
  \/ (SetNX(r) \/ UNCHANGED key) /\ Fail(r) /\ leak' = leak \cup {r}

-----------------------------------------------------------------------------
(* SubmitQuery with an idempotency key.                                    *)

Submit(r) ==
  /\ pc[r] = "new"
  /\ Cardinality({s \in Request : pc[s] \in Handling}) < MaxOverlap
  /\ Acquire(r, "lookup")
  /\ UNCHANGED <<rec, seen, reply, started, over, short, gc>>

(* The Get of AcquireIdempotency.  A key that has gone since is an error. *)
ReadKey(r) ==
  /\ pc[r] \in {"lookup", "lookupAgain"}
  /\ \/ /\ key # None
        /\ seen' = [seen EXCEPT ![r] = key]
        /\ Goto(r, IF pc[r] = "lookup" THEN "check" ELSE "checkAgain")
        /\ UNCHANGED fault
     \/ Fail(r) /\ UNCHANGED seen
  /\ UNCHANGED <<key, rec, reply, started, over, short, gc, leak>>

(* Mutant of CheckRecord: any error of GetQuery is taken for ErrNotFound. *)
CheckRecordAnyError(r) ==
  /\ pc[r] \in {"check", "checkAgain"}
  /\ \/ /\ rec[seen[r]] # "none"
        /\ reply' = [reply EXCEPT ![r] = seen[r]]
        /\ Goto(r, "matched")
     \/ Goto(r, IF pc[r] = "check" THEN "reclaim" ELSE "failed") /\ UNCHANGED reply
  /\ UNCHANGED <<key, rec, seen, started, over, short, gc, fault, leak>>

(* Mutant of CheckRecord: a key without a record refuses the query. *)
CheckRecordRefusing(r) ==
  /\ pc[r] \in {"check", "checkAgain"}
  /\ \/ /\ rec[seen[r]] # "none"
        /\ reply' = [reply EXCEPT ![r] = seen[r]]
        /\ Goto(r, "matched")
     \/ rec[seen[r]] = "none" /\ Goto(r, "failed") /\ UNCHANGED reply
  /\ UNCHANGED <<key, rec, seen, started, over, short, gc, fault, leak>>

(* GetQuery(existingID): a match is returned as is, a missing record means *)
(* that the key outlived it.                                               *)
CheckRecord(r) ==
  /\ pc[r] \in {"check", "checkAgain"}
  /\ \/ /\ rec[seen[r]] # "none"
        /\ reply' = [reply EXCEPT ![r] = seen[r]]
        /\ Goto(r, "matched")
        /\ UNCHANGED fault
     \/ /\ rec[seen[r]] = "none"
        /\ Goto(r, IF pc[r] = "check" THEN "reclaim" ELSE "failed")
        /\ UNCHANGED <<reply, fault>>
     \/ Fail(r) /\ UNCHANGED reply
  /\ UNCHANGED <<key, rec, seen, started, over, short, gc, leak>>

Reclaim(r) ==
  /\ pc[r] = "reclaim"
  /\ \/ Release(seen[r]) /\ Goto(r, "retry") /\ UNCHANGED fault
     \/ (Release(seen[r]) \/ UNCHANGED key) /\ Fail(r)
  /\ UNCHANGED <<rec, seen, reply, started, over, short, gc, leak>>

Retry(r) ==
  /\ pc[r] = "retry"
  /\ Acquire(r, "lookupAgain")
  /\ UNCHANGED <<rec, seen, reply, started, over, short, gc>>

(* Ping, acquireSlot and admit can each refuse the query. *)
Refuse(r) ==
  /\ pc[r] = "claimed"
  /\ Goto(r, "rollback")
  /\ fault' = fault \cup {r}
  /\ UNCHANGED <<key, rec, seen, reply, started, over, short, gc, leak>>

(* Mutant of Persist: its error path does not call release(). *)
PersistKeepsClaim(r) ==
  /\ pc[r] = "claimed"
  /\ \/ /\ rec' = [rec EXCEPT ![r] = "active"]
        /\ started' = started \cup {r}
        /\ reply' = [reply EXCEPT ![r] = r]
        /\ Goto(r, "running")
        /\ UNCHANGED fault
     \/ Fail(r) /\ UNCHANGED <<rec, started, reply>>
  /\ UNCHANGED <<key, seen, over, short, gc, leak>>

(* PutQuery; a failed one may have stored the record. *)
Persist(r) ==
  /\ pc[r] = "claimed"
  /\ \/ /\ rec' = [rec EXCEPT ![r] = "active"]
        /\ started' = started \cup {r}
        /\ reply' = [reply EXCEPT ![r] = r]
        /\ Goto(r, "running")
        /\ UNCHANGED fault
     \/ /\ \E state \in {"none", "active"} : rec' = [rec EXCEPT ![r] = state]
        /\ Goto(r, "rollback")
        /\ fault' = fault \cup {r}
        /\ UNCHANGED <<started, reply>>
  /\ UNCHANGED <<key, seen, over, short, gc, leak>>

(* release(): an error is only logged. *)
Rollback(r) ==
  /\ pc[r] = "rollback"
  /\ \/ Release(r) /\ UNCHANGED leak
     \/ UNCHANGED key /\ leak' = leak \cup {r}
  /\ Goto(r, "failed")
  /\ UNCHANGED <<rec, seen, reply, started, over, short, gc, fault>>

-----------------------------------------------------------------------------
(* The rest of a query's life.                                             *)

(* The terminal write of complete(); one that is given up is left to Reap. *)
(* A run may outlast the slack of idempotencySubmitTTL.                    *)
Finish(r) ==
  /\ pc[r] = "running"
  /\ Goto(r, "finished")
  /\ \/ rec' = [rec EXCEPT ![r] = "terminal"] /\ UNCHANGED fault
     \/ fault' = fault \cup {r} /\ UNCHANGED rec
  /\ short' \in {short, short \cup {r}}
  /\ UNCHANGED <<key, seen, reply, started, over, gc, leak>>

(* Mutant of Refresh: complete() does not re-arm the key. *)
RefreshNever(r) ==
  /\ pc[r] = "finished"
  /\ Goto(r, "done")
  /\ UNCHANGED <<key, rec, seen, reply, started, over, short, gc, fault, leak>>

(* RefreshIdempotency: the key lasts as long as the result, from FinishedAt. *)
Refresh(r) ==
  /\ pc[r] = "finished"
  /\ Goto(r, "done")
  /\ \/ short' = short \ {r} /\ UNCHANGED fault
     \/ fault' = fault \cup {r} /\ UNCHANGED short
  /\ UNCHANGED <<key, rec, seen, reply, started, over, gc, leak>>

Crash(r) ==
  /\ pc[r] \in Handling \cup Executing
  /\ Fail(r)
  /\ leak' = leak \cup {r}
  /\ UNCHANGED <<key, rec, seen, reply, started, over, short, gc>>

(* failOwnerLost sets a FinishedAt of its own and does not re-arm the key. *)
Reap(r) ==
  /\ rec[r] = "active"
  /\ rec' = [rec EXCEPT ![r] = "terminal"]
  /\ short' \in {short, IF pc[r] \in Settled THEN short \cup {r} ELSE short}
  /\ UNCHANGED <<key, pc, seen, reply, started, over, gc, fault, leak>>

(* FinishedAt + ResultTTL is reached. *)
RetentionEnds(r) ==
  /\ rec[r] = "terminal"
  /\ pc[r] \in Settled
  /\ over' = over \cup {r}
  /\ UNCHANGED <<key, rec, pc, seen, reply, started, short, gc, fault, leak>>

(* collectQuery releases the key (an error is only logged), ... *)
CollectKey(r) ==
  /\ r \in over \ gc
  /\ rec[r] = "terminal"
  /\ gc' = gc \cup {r}
  /\ \/ Release(r) /\ UNCHANGED leak
     \/ UNCHANGED key /\ leak' = leak \cup {r}
  /\ UNCHANGED <<rec, pc, seen, reply, started, over, short, fault>>

(* ... then deletes the record; a failed pass is repeated from the start. *)
CollectRecord(r) ==
  /\ r \in gc
  /\ rec[r] = "terminal"
  /\ \/ rec' = [rec EXCEPT ![r] = "none"] /\ UNCHANGED gc
     \/ gc' = gc \ {r} /\ UNCHANGED rec
  /\ UNCHANGED <<key, pc, seen, reply, started, over, short, fault, leak>>

(* The TTL of the key runs out: not before the retention of its query has  *)
(* ended, unless it is short or there is no such query.                    *)
KeyExpires ==
  /\ key # None
  /\ pc[key] \in Settled
  /\ key \in over \cup short \/ rec[key] = "none"
  /\ key' = None
  /\ UNCHANGED <<rec, pc, seen, reply, started, over, short, gc, fault, leak>>

-----------------------------------------------------------------------------
Handle(r) ==
  \/ Submit(r) \/ ReadKey(r) \/ CheckRecord(r) \/ Reclaim(r) \/ Retry(r)
  \/ Refuse(r) \/ Persist(r) \/ Rollback(r)

Next ==
  \/ \E r \in Request :
       \/ Handle(r) \/ Finish(r) \/ Refresh(r) \/ Crash(r) \/ Reap(r)
       \/ RetentionEnds(r) \/ CollectKey(r) \/ CollectRecord(r)
  \/ KeyExpires

Spec == Init /\ [][Next]_vars

-----------------------------------------------------------------------------
(* Every variable keeps its type, and a submission that looks a record up  *)
(* has an id to look up.                                                   *)
TypeOK ==
  /\ key \in Request \cup {None}
  /\ rec \in [Request -> {"none", "active", "terminal"}]
  /\ pc \in [Request -> {"new", "matched"} \cup Settled \cup Handling \cup Executing]
  /\ seen \in [Request -> Request \cup {None}]
  /\ \A r \in Request : pc[r] \in {"check", "checkAgain", "reclaim"} => seen[r] \in Request
  /\ reply \in [Request -> Request \cup {None}]
  /\ {started, over, short, gc, fault, leak} \subseteq SUBSET Request

(***************************************************************************)
(* I3: "repeating StartQuery with the same key within the retention window *)
(* returns the same query_id and does not trigger a second execution".     *)
(* The window ends with the retention of the query; it ends early for a    *)
(* query whose key RefreshIdempotency failed to re-arm, or that was left   *)
(* to the reaper, which re-arms nothing.                                   *)
(***************************************************************************)
Retained == Request \ (over \cup (short \cap fault))

(***************************************************************************)
(* No second execution.  This holds for repeats that do not overlap,       *)
(* across crashes, lost replies, failed rollbacks and garbage collection.  *)
(* It fails for repeats that do: resolveIdempotency takes a key whose      *)
(* record is not written yet for a leftover, and reclaims it.              *)
(***************************************************************************)
OneExecution == \A r, s \in started \cap Retained : r = s

(* The same query_id: repeats that got an answer all got the same one. *)
RepeatsAgree ==
  \A r, s \in Request : {reply[r], reply[s]} \subseteq Retained => reply[r] = reply[s]

(***************************************************************************)
(* SubmitQuery: a key that outlives its query "blocks every retry".        *)
(* Whatever earlier submissions and the garbage collector left behind, a   *)
(* submission that overlaps no other fails only if a call of its own does. *)
(***************************************************************************)
NotBlocked == \A r \in Request : pc[r] = "failed" => r \in fault

(***************************************************************************)
(* SubmitQuery: "every failure has to undo the idempotency claim".  A key  *)
(* that points at no record belongs to a submission still being handled,   *)
(* or to one whose claim could not be undone: the process died, or the     *)
(* store did not answer the call that set or released the key.             *)
(***************************************************************************)
NoStrayKey == key # None /\ rec[key] = "none" => pc[key] \in Handling \/ key \in leak

-----------------------------------------------------------------------------
(* The inductive invariant behind NoStrayKey.                              *)

(* A submission that has not claimed the key does not hold it. *)
Unclaimed == {"new", "lookup", "check", "reclaim", "retry", "lookupAgain", "checkAgain", "matched"}

ClaimsMatch == \A r \in Request : pc[r] \in Unclaimed => key # r

(* A launched query has a record until it is collected, and is collected   *)
(* only once it has ended and its key was released.                        *)
RecordKept == \A r \in Request : pc[r] \in Executing => rec[r] # "none"

CollectedLast ==
  /\ gc \subseteq over
  /\ \A r \in over : pc[r] \in Settled
  /\ \A r \in gc : key = r => r \in leak

IInv == TypeOK /\ ClaimsMatch /\ RecordKept /\ CollectedLast /\ NoStrayKey

-----------------------------------------------------------------------------
(* The inductive invariant behind OneExecution, RepeatsAgree and           *)
(* NotBlocked, when submissions do not overlap (MaxOverlap = 1).           *)

OneHandler == \A r, s \in Request : pc[r] \in Handling /\ pc[s] \in Handling => r = s

(* A rollback, a key that runs out early once its run has ended, and a     *)
(* terminal write that was given up each have a failure behind them.       *)
FaultBehind ==
  \A r \in Request :
    /\ pc[r] = "rollback" => r \in fault
    /\ r \in short \ fault => pc[r] = "finished"
    /\ pc[r] \in {"finished", "done"} /\ rec[r] = "active" => r \in fault

(* A claim is held until the run it leads to has re-armed it. *)
ClaimHeld == \A r \in Request : pc[r] \in Executing \cup {"claimed"} => key = r

(* What a submission has read of the key can have expired, never changed. *)
LookupHolds ==
  \A r \in Request :
    /\ pc[r] \notin {"lookupAgain", "checkAgain"}
    /\ pc[r] = "retry" => key = None
    /\ pc[r] \in {"check", "reclaim"} =>
         key \in {None, seen[r]} /\ pc[seen[r]] \in Executing \cup Settled
    /\ pc[r] = "reclaim" => rec[seen[r]] = "none"
    /\ pc[r] = "check" /\ seen[r] \in Retained /\ rec[seen[r]] # "none" => key = seen[r]

(* Queries that were launched or named in an answer. *)
Known == started \cup {r \in Request : \E s \in Request : reply[s] = r}

(* Such a query has left the submission, and keeps its record and its key  *)
(* until its window ends.                                                  *)
KnownIsKept ==
  \A r \in Known :
    /\ pc[r] \in Executing \cup Settled
    /\ rec[r] = "none" => r \in over
    /\ r \in Retained => key = r

SoloInv ==
  /\ TypeOK /\ ClaimsMatch /\ RecordKept /\ CollectedLast
  /\ OneHandler /\ NotBlocked /\ FaultBehind /\ ClaimHeld /\ LookupHolds /\ KnownIsKept
=============================================================================
