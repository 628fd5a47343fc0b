------------------------- MODULE Idempotency_proofs -------------------------
(* Theorems about the idempotency keys: no submission leaves a stray key,  *)
(* for any number of requests handled at the same time; and I3, for any    *)
(* number of submissions of one key that do not overlap.                   *)
EXTENDS Idempotency, FiniteSetTheorems, TLAPS

(* The key is unset and nothing is recorded. *)
LEMMA InitIInv == Init => IInv
  BY NoneIsNoRequest
     DEF Init, IInv, TypeOK, ClaimsMatch, RecordKept, CollectedLast, NoStrayKey, Settled, Executing

(* The steps of a submission, which set and release the key. *)
LEMMA HandleIInv ==
  ASSUME IInv, NEW r \in Request, Handle(r)
  PROVE  IInv'
<1> USE NoneIsNoRequest DEF IInv, TypeOK, ClaimsMatch, RecordKept, CollectedLast, NoStrayKey,
    Handling, Executing, Settled, Unclaimed, Goto, Fail
<1>1. CASE Submit(r)
  BY <1>1 DEF Submit, Acquire, SetNX
<1>2. CASE ReadKey(r)
  BY <1>2 DEF ReadKey
<1>3. CASE CheckRecord(r)
  BY <1>3 DEF CheckRecord
<1>4. CASE Reclaim(r)
  BY <1>4 DEF Reclaim, Release
<1>5. CASE Retry(r)
  BY <1>5 DEF Retry, Acquire, SetNX
<1>6. CASE Refuse(r)
  BY <1>6 DEF Refuse
<1>7. CASE Persist(r)
  BY <1>7 DEF Persist
<1>8. CASE Rollback(r)
  BY <1>8 DEF Rollback, Release
<1> QED
  BY <1>1, <1>2, <1>3, <1>4, <1>5, <1>6, <1>7, <1>8, Zenon DEF Handle

(* The steps after the reply, which write and delete the record. *)
LEMMA AfterwardsIInv ==
  ASSUME IInv, NEW r \in Request,
         \/ Finish(r) \/ Refresh(r) \/ Crash(r) \/ Reap(r)
         \/ RetentionEnds(r) \/ CollectKey(r) \/ CollectRecord(r)
  PROVE  IInv'
<1> USE NoneIsNoRequest DEF IInv, TypeOK, ClaimsMatch, RecordKept, CollectedLast, NoStrayKey,
    Handling, Executing, Settled, Unclaimed, Goto, Fail
<1>1. CASE Finish(r)
  BY <1>1 DEF Finish
<1>2. CASE Refresh(r)
  BY <1>2 DEF Refresh
<1>3. CASE Crash(r)
  BY <1>3 DEF Crash
<1>4. CASE Reap(r)
  BY <1>4 DEF Reap
<1>5. CASE RetentionEnds(r)
  BY <1>5 DEF RetentionEnds
<1>6. CASE CollectKey(r)
  BY <1>6 DEF CollectKey, Release
<1>7. CASE CollectRecord(r)
  BY <1>7 DEF CollectRecord
<1> QED
  BY <1>1, <1>2, <1>3, <1>4, <1>5, <1>6, <1>7, Zenon

(* A key that expires leaves the invariant as it was. *)
LEMMA ExpiryIInv == IInv /\ KeyExpires => IInv'
  BY NoneIsNoRequest
     DEF KeyExpires, IInv, TypeOK, ClaimsMatch, RecordKept, CollectedLast, NoStrayKey, Settled

(* Every step keeps the inductive invariant. *)
LEMMA NextIInv == IInv /\ [Next]_vars => IInv'
<1> SUFFICES ASSUME IInv, [Next]_vars PROVE IInv'
  OBVIOUS
<1>1. CASE UNCHANGED vars
  BY <1>1, Zenon DEF vars, IInv, TypeOK, ClaimsMatch, RecordKept, CollectedLast, NoStrayKey
<1>2. CASE \E r \in Request : Handle(r)
  BY <1>2, HandleIInv, Zenon
<1>3. CASE \E r \in Request :
             \/ Finish(r) \/ Refresh(r) \/ Crash(r) \/ Reap(r)
             \/ RetentionEnds(r) \/ CollectKey(r) \/ CollectRecord(r)
  BY <1>3, AfterwardsIInv, Zenon
<1>4. CASE KeyExpires
  BY <1>4, ExpiryIInv, Zenon
<1> QED
  BY <1>1, <1>2, <1>3, <1>4, Zenon DEF Next

(* Every failing path of SubmitQuery undoes its claim on the key, unless   *)
(* the process dies or the store does not answer, and the garbage          *)
(* collector never deletes a record while its key still points at it.      *)
THEOREM ClaimsUndone == Spec => []NoStrayKey
<1>1. IInv => NoStrayKey
  BY Zenon DEF IInv
<1> QED
  BY <1>1, InitIInv, NextIInv, PTL DEF Spec

(* Every variable keeps its type; in particular a submission that looks a  *)
(* record up has read a key to look up.                                    *)
THEOREM TypeCorrect == Spec => []TypeOK
<1>1. IInv => TypeOK
  BY Zenon DEF IInv
<1> QED
  BY <1>1, InitIInv, NextIInv, PTL DEF Spec

-----------------------------------------------------------------------------
(* Submissions of one key that do not overlap, any number of them: I3.     *)

(* Nothing is claimed, known or being handled at the start. *)
LEMMA InitSolo == Init => SoloInv
<1> SUFFICES ASSUME Init PROVE SoloInv
  OBVIOUS
<1> USE NoneIsNoRequest DEF Init
<1>1. TypeOK /\ ClaimsMatch /\ RecordKept /\ CollectedLast
  BY Zenon DEF TypeOK, ClaimsMatch, RecordKept, CollectedLast, Settled, Executing
<1>2. OneHandler /\ NotBlocked /\ FaultBehind /\ ClaimHeld /\ LookupHolds
  BY Zenon DEF OneHandler, NotBlocked, FaultBehind, ClaimHeld, LookupHolds, Handling, Executing
<1>3. KnownIsKept
  BY Zenon DEF KnownIsKept, Known
<1> QED
  BY <1>1, <1>2, <1>3, Zenon DEF SoloInv

(* With one request at a time, a submission begins when none is handled. *)
LEMMA NoneHandled ==
  ASSUME MaxOverlap = 1, NEW r \in Request, Submit(r)
  PROVE  \A s \in Request : pc[s] \notin Handling
<1> DEFINE busy == {s \in Request : pc[s] \in Handling}
<1>1. Cardinality(busy) < 1
  BY Zenon DEF Submit
<1>2. IsFiniteSet(busy)
  BY RequestsFinite, FS_Subset, Zenon
<1>3. busy = {}
  BY <1>1, <1>2, FS_CardinalityType, FS_EmptySet, SMTT(20)
<1> QED
  BY <1>3, Zenon

(* The steps of a submission. *)
LEMMA HandleSolo ==
  ASSUME SoloInv, MaxOverlap = 1, NEW r \in Request, Handle(r)
  PROVE  SoloInv'
<1> USE NoneIsNoRequest DEF SoloInv, TypeOK, ClaimsMatch, RecordKept, CollectedLast, OneHandler,
    NotBlocked, FaultBehind, ClaimHeld, LookupHolds, KnownIsKept, Known, Retained,
    Handling, Executing, Settled, Unclaimed, Goto, Fail
<1>1. CASE Submit(r)
  BY <1>1, NoneHandled, SMTT(20) DEF Submit, Acquire, SetNX
<1>2. CASE ReadKey(r)
  BY <1>2 DEF ReadKey
<1>3. CASE CheckRecord(r)
  BY <1>3, SMTT(20) DEF CheckRecord
<1>4. CASE Reclaim(r)
  BY <1>4, SMTT(20) DEF Reclaim, Release
<1>5. CASE Retry(r)
  BY <1>5, SMTT(20) DEF Retry, Acquire, SetNX
<1>6. CASE Refuse(r)
  BY <1>6, SMTT(20) DEF Refuse
<1>7. CASE Persist(r)
  BY <1>7, SMTT(20) DEF Persist
<1>8. CASE Rollback(r)
  BY <1>8, SMTT(20) DEF Rollback, Release
<1> QED
  BY <1>1, <1>2, <1>3, <1>4, <1>5, <1>6, <1>7, <1>8, Zenon DEF Handle

(* The steps after the reply. *)
LEMMA AfterwardsSolo ==
  ASSUME SoloInv, NEW r \in Request,
         \/ Finish(r) \/ Refresh(r) \/ Crash(r) \/ Reap(r)
         \/ RetentionEnds(r) \/ CollectKey(r) \/ CollectRecord(r)
  PROVE  SoloInv'
<1> USE NoneIsNoRequest DEF SoloInv, TypeOK, ClaimsMatch, RecordKept, CollectedLast, OneHandler,
    NotBlocked, FaultBehind, ClaimHeld, LookupHolds, KnownIsKept, Known, Retained,
    Handling, Executing, Settled, Unclaimed, Goto, Fail
<1>1. CASE Finish(r)
  BY <1>1, SMTT(20) DEF Finish
<1>2. CASE Refresh(r)
  BY <1>2, SMTT(20) DEF Refresh
<1>3. CASE Crash(r)
  BY <1>3, SMTT(20) DEF Crash
<1>4. CASE Reap(r)
  BY <1>4, SMTT(20) DEF Reap
<1>5. CASE RetentionEnds(r)
  BY <1>5, SMTT(20) DEF RetentionEnds
<1>6. CASE CollectKey(r)
  BY <1>6, SMTT(20) DEF CollectKey, Release
<1>7. CASE CollectRecord(r)
  BY <1>7, SMTT(20) DEF CollectRecord
<1> QED
  BY <1>1, <1>2, <1>3, <1>4, <1>5, <1>6, <1>7, Zenon

(* The TTL of the key runs out. *)
LEMMA ExpirySolo == SoloInv /\ KeyExpires => SoloInv'
  BY NoneIsNoRequest, SMTT(20)
     DEF KeyExpires, SoloInv, TypeOK, ClaimsMatch, RecordKept, CollectedLast, OneHandler,
         NotBlocked, FaultBehind, ClaimHeld, LookupHolds, KnownIsKept, Known, Retained,
         Handling, Executing, Settled, Unclaimed

(* Every step preserves the stronger invariant while claims do not overlap. *)
LEMMA NextSolo ==
  ASSUME SoloInv, MaxOverlap = 1, [Next]_vars
  PROVE  SoloInv'
<1>1. CASE UNCHANGED vars
  BY <1>1, Zenon
     DEF vars, SoloInv, TypeOK, ClaimsMatch, RecordKept, CollectedLast, OneHandler, NotBlocked,
         FaultBehind, ClaimHeld, LookupHolds, KnownIsKept, Known, Retained
<1>2. CASE \E r \in Request : Handle(r)
  BY <1>2, HandleSolo, Zenon
<1>3. CASE \E r \in Request : \/ Finish(r) \/ Refresh(r) \/ Crash(r) \/ Reap(r)
                             \/ RetentionEnds(r) \/ CollectKey(r) \/ CollectRecord(r)
  BY <1>3, AfterwardsSolo, Zenon
<1>4. CASE KeyExpires
  BY <1>4, ExpirySolo, Zenon
<1> QED
  BY <1>1, <1>2, <1>3, <1>4, Zenon DEF Next

(* The invariant that the three theorems below read their property off. *)
LEMMA SoloAlways ==
  ASSUME MaxOverlap = 1
  PROVE  Spec => []SoloInv
<1>1. Init => SoloInv
  BY InitSolo, Zenon
<1>2. SoloInv /\ [Next]_vars => SoloInv'
  BY NextSolo, Zenon
<1> QED
  BY <1>1, <1>2, PTL DEF Spec

-----------------------------------------------------------------------------
(* I3, no second execution: of the submissions of one key that do not      *)
(* overlap, however many, one at most is executed within its window.       *)
THEOREM OneExecutionSolo ==
  ASSUME MaxOverlap = 1
  PROVE  Spec => []OneExecution
<1>1. SoloInv => OneExecution
  BY Zenon DEF SoloInv, KnownIsKept, Known, OneExecution, Retained
<1> QED
  BY <1>1, SoloAlways, PTL

(* I3, the same query_id: their answers agree within its window. *)
THEOREM RepeatsAgreeSolo ==
  ASSUME MaxOverlap = 1
  PROVE  Spec => []RepeatsAgree
<1>1. SoloInv => RepeatsAgree
  BY Zenon DEF SoloInv, KnownIsKept, Known, RepeatsAgree, Retained
<1> QED
  BY <1>1, SoloAlways, PTL

(* resolveIdempotency: no leftover of an earlier submission or of the      *)
(* collector makes a later one fail.                                       *)
THEOREM NotBlockedSolo ==
  ASSUME MaxOverlap = 1
  PROVE  Spec => []NotBlocked
<1>1. SoloInv => NotBlocked
  BY Zenon DEF SoloInv
<1> QED
  BY <1>1, SoloAlways, PTL
=============================================================================
