-------------------------- MODULE Execution_proofs --------------------------
(* Theorems about Execution, for every set of instances and queries and    *)
(* every value of the bounds.                                              *)
EXTENDS Execution, FiniteSetTheorems, TLAPS

-----------------------------------------------------------------------------
(* The goroutine of one query, from SubmitQuery to the end of run(), keeps *)
(* the inductive invariant.                                                *)

(* Every record an action writes is a record. *)
LEMMA RecordTypes ==
  /\ Pending \in QueryRecord /\ Running \in QueryRecord /\ Lost \in QueryRecord
  /\ NoRecord \notin QueryRecord
  /\ \A c, e \in CtxErr \cup {"other"} : terminalFor(c, e) \in OwnVerdict
  /\ Record("FAILED", "failed") \in OwnVerdict
  /\ [state |-> "SUCCEEDED", result |-> TRUE, error |-> "none"] \in OwnVerdict
BY Zenon DEF Pending, Running, Lost, NoRecord, Record, QueryRecord, QueryState, QueryError,
       OwnVerdict, terminalFor, CtxErr

(* IInv holds of the initial states. *)
LEMMA InitIInv == Init => IInv
<1> SUFFICES ASSUME Init PROVE IInv
  OBVIOUS
<1>1. TypeOK
  BY AttemptsPositive, EndsNat
  DEF Init, TypeOK, Phases, PCs, CtxErr
<1>2. RecordsFit
  BY Zenon DEF Init, RecordsFit, RecordFits, ResultFits, NoRecord, Record
<1>3. RegistryExact
  BY Zenon DEF Init, RegistryExact, Registered
<1> QED
  BY <1>1, <1>2, <1>3, Zenon DEF IInv

(***************************************************************************)
(* The two ways a goroutine writes its record: a put that succeeds and one *)
(* that fails leave every other record alone, and a failed one leaves      *)
(* either the old record or the new one.                                   *)
(***************************************************************************)
LEMMA PutEffect ==
  ASSUME TypeOK, NEW q \in Query, NEW rec \in QueryRecord, PutQuery(q, rec)
  PROVE  /\ queries' \in [Query -> QueryRecord \cup {NoRecord}]
         /\ leases' \subseteq Query
         /\ queries'[q] = rec
         /\ \A p \in Query \ {q} : queries'[p] = queries[p]
BY Zenon DEF PutQuery, TypeOK

(* What a failed write to the store changes. *)
LEMMA PutErrorEffect ==
  ASSUME TypeOK, NEW q \in Query, NEW rec \in QueryRecord, PutQueryError(q, rec)
  PROVE  /\ queries' \in [Query -> QueryRecord \cup {NoRecord}]
         /\ leases' \subseteq Query
         /\ queries'[q] \in {queries[q], rec}
         /\ \A p \in Query \ {q} : queries'[p] = queries[p]
BY PutEffect DEF PutQueryError, TypeOK, storeVars

(***************************************************************************)
(* What every step that belongs to one goroutine needs to show: q moves    *)
(* between two program counters, stays registered accordingly, and its     *)
(* record still fits.                                                      *)
(***************************************************************************)
LEMMA GoroutineStep ==
  ASSUME IInv, TypeOK', NEW q \in Query, UNCHANGED owner,
         \A p \in Query \ {q} : /\ pc'[p] = pc[p] /\ queries'[p] = queries[p]
                                /\ local'[p] = local[p] /\ object'[p] = object[p],
         RecordFits(q)', ResultFits(q)',
         \/ UNCHANGED activeReg /\ (pc[q] \in Registered <=> pc'[q] \in Registered)
         \/ register(q) /\ pc'[q] \in Registered
         \/ deregister(q) /\ pc'[q] \notin Registered
  PROVE  IInv'
<1>1. RecordsFit'
  BY DEF RecordsFit, RecordFits, ResultFits, IInv
<1>2. RegistryExact'
  <2> SUFFICES ASSUME NEW i \in Instance
               PROVE activeReg'[i] = {p \in Query : owner[p] = i /\ pc'[p] \in Registered}
    BY DEF RegistryExact
  <2>1. activeReg[i] = {p \in Query : owner[p] = i /\ pc[p] \in Registered}
    BY Zenon DEF IInv, RegistryExact
  <2>2. CASE UNCHANGED activeReg /\ (pc[q] \in Registered <=> pc'[q] \in Registered)
    BY <2>1, <2>2, Zenon
  <2>3. CASE register(q) /\ pc'[q] \in Registered
    BY <2>1, <2>3 DEF register, IInv, TypeOK
  <2>4. CASE deregister(q) /\ pc'[q] \notin Registered
    BY <2>1, <2>4, Zenon DEF deregister, IInv, TypeOK
  <2> QED
    BY <2>2, <2>3, <2>4, Zenon
<1> QED
  BY <1>1, <1>2, Zenon DEF IInv

(* The registry and the semaphore keep their types. *)
LEMMA DeregisterType ==
  ASSUME TypeOK, NEW q \in Query, deregister(q)
  PROVE  activeReg' \in [Instance -> SUBSET Query]
BY Zenon DEF TypeOK, deregister

(* Releasing a slot keeps the types. *)
LEMMA ReleaseSlotType ==
  ASSUME TypeOK, NEW q \in Query, releaseSlot(owner[q])
  PROVE  slots' \in [Instance -> Nat]
BY SMTT(20) DEF TypeOK, releaseSlot

-----------------------------------------------------------------------------
(* One lemma per group of steps: each preserves IInv. *)

(* The steps of a submission preserve the invariant. *)
LEMMA SubmissionIInv ==
  ASSUME IInv, NEW q \in Query, Submission(q)
  PROVE  IInv'
<1> USE DEF IInv
<1>0. /\ owner[q] \in Instance /\ RecordFits(q) /\ ResultFits(q)
      /\ NoRecord.state = "NONE" /\ Pending.state = "PENDING"
  BY Zenon DEF TypeOK, RecordsFit, NoRecord, Pending, Record
<1>t. /\ pc \in [Query -> PCs] /\ local \in [Query -> QueryRecord \cup {NoRecord}]
      /\ object \in [Query -> {"none", "partial", "complete"}]
  BY Zenon DEF TypeOK
<1>1. CASE AcquireSlot(q)
  <2>1. TypeOK'
    <3>1. slots' \in [Instance -> Nat]
      BY <1>0, <1>1, SlotsNat DEF AcquireSlot, acquireSlot, TypeOK
    <3>2. pc' \in [Query -> PCs]
      BY <1>1, <1>t, Zenon DEF AcquireSlot, Goto, PCs, HoldsSlot, Ended
    <3> QED
      BY <1>1, <3>1, <3>2, Zenon DEF AcquireSlot, TypeOK, storeVars, procVars
  <2>2. RecordFits(q)' /\ ResultFits(q)'
    BY <1>0, <1>t, <1>1, Zenon DEF AcquireSlot, Goto, RecordFits, ResultFits, storeVars
  <2> QED
    BY <1>t, <1>1, <2>1, <2>2, GoroutineStep, Zenon
    DEF AcquireSlot, Goto, Registered, storeVars, procVars
<1>2. CASE Admit(q)
  <2>1. TypeOK'
    <3>1. slots' \in [Instance -> Nat]
      BY <1>2, ReleaseSlotType, Zenon DEF Admit, TypeOK
    <3>2. activeReg' \in [Instance -> SUBSET Query]
      BY <1>0, <1>2 DEF Admit, register, TypeOK
    <3>3. pc' \in [Query -> PCs]
      BY <1>2, <1>t, Zenon DEF Admit, Goto, PCs, HoldsSlot, Registered, Ended
    <3> QED
      BY <1>2, <3>1, <3>2, <3>3, Zenon DEF Admit, TypeOK, storeVars, procVars
  <2>2. RecordFits(q)' /\ ResultFits(q)'
    BY <1>0, <1>t, <1>2, Zenon DEF Admit, Goto, RecordFits, ResultFits, storeVars
  <2> QED
    BY <1>t, <1>2, <2>1, <2>2, GoroutineStep, Zenon
    DEF Admit, Goto, Registered, storeVars, procVars
<1>3. CASE PersistPending(q)
  <2>0. /\ queries' \in [Query -> QueryRecord \cup {NoRecord}]
        /\ leases' \subseteq Query
        /\ queries'[q] \in {NoRecord, Pending}
        /\ pc'[q] = "stored" => queries'[q] = Pending
        /\ \A p \in Query \ {q} : queries'[p] = queries[p]
    <3>1. Pending \in QueryRecord /\ queries[q] = NoRecord /\ Pending = Record("PENDING", "none")
      BY <1>0, <1>3, RecordTypes, Zenon DEF PersistPending, RecordFits, Pending
    <3>2. CASE PutQuery(q, Pending)
      BY <3>1, <3>2, PutEffect, Zenon
    <3>3. CASE PutQueryError(q, Pending) /\ Goto(q, "refused")
      BY <3>1, <3>3, PutErrorEffect, Zenon DEF Goto, TypeOK
    <3> QED
      BY <1>3, <3>1, <3>2, <3>3, Zenon DEF PersistPending
  <2>1. TypeOK'
    <3>1. activeReg' \in [Instance -> SUBSET Query] /\ slots' \in [Instance -> Nat]
      BY <1>3, DeregisterType, ReleaseSlotType, Zenon DEF PersistPending, TypeOK
    <3>2. pc' \in [Query -> PCs] /\ local' \in [Query -> QueryRecord \cup {NoRecord}]
      BY <1>t, <1>3, RecordTypes, Zenon
      DEF PersistPending, Goto, PCs, HoldsSlot, Registered, Ended, Pending
    <3> QED
      BY <1>3, <2>0, <3>1, <3>2, Zenon DEF PersistPending, TypeOK, procVars
  <2>2. RecordFits(q)' /\ ResultFits(q)'
    BY <1>0, <1>t, <1>3, <2>0, Zenon
    DEF PersistPending, Goto, RecordFits, ResultFits, Open, Pending
  <2> QED
    BY <1>t, <1>3, <2>0, <2>1, <2>2, GoroutineStep, Zenon
    DEF PersistPending, Goto, Registered, procVars
<1>4. CASE Launch(q)
  <2>0. local[q] = Pending /\ CanTransitionTo(local[q].state, "RUNNING")
    BY <1>0, <1>4, Zenon DEF Launch, RecordFits, CanTransitionTo
  <2>1. local' = [local EXCEPT ![q] = Running] /\ Goto(q, "markRunning") /\ UNCHANGED queries
    BY <1>4, <2>0, SMTT(20) DEF Launch, Pending, Running, Record, HeartbeatLeases, storeVars, TypeOK
  <2>2. TypeOK'
    BY <1>4, <2>1, RecordTypes, Zenon
    DEF Launch, Goto, TypeOK, PCs, HoldsSlot, Registered, storeVars, procVars, HeartbeatLeases
  <2>3. RecordFits(q)' /\ ResultFits(q)'
    BY <1>0, <1>t, <1>4, <2>1, Zenon DEF Launch, Goto, RecordFits, ResultFits, Running, Record
  <2> QED
    BY <1>t, <1>4, <2>1, <2>2, <2>3, GoroutineStep, Zenon DEF Launch, Goto, Registered, procVars
<1> QED
  BY <1>1, <1>2, <1>3, <1>4, Zenon DEF Submission

(* One attempt of persist() leaves the old record or the local one, and the *)
(* local one when it succeeds.                                              *)
LEMMA PersistEffect ==
  ASSUME TypeOK, NEW q \in Query, NEW ok \in PCs, NEW giveUp \in PCs,
         local[q] \in QueryRecord, persist(q, ok, giveUp)
  PROVE  /\ TypeOK'
         /\ queries'[q] \in {queries[q], local[q]}
         /\ \/ pc'[q] = ok /\ queries'[q] = local[q]
            \/ pc'[q] \in {giveUp, pc[q]}
         /\ \A p \in Query \ {q} : queries'[p] = queries[p] /\ pc'[p] = pc[p]
         /\ UNCHANGED <<local, object, activeReg, owner>>
<1>1. /\ queries' \in [Query -> QueryRecord \cup {NoRecord}]
      /\ leases' \subseteq Query
      /\ queries'[q] \in {queries[q], local[q]}
      /\ PutQuery(q, local[q]) => queries'[q] = local[q]
      /\ \A p \in Query \ {q} : queries'[p] = queries[p]
  BY PutEffect, PutErrorEffect, Zenon DEF persist
<1>2. failures' \in [Query -> 0 .. PersistAttempts - 1]
  <2>1. failures[q] \in 0 .. PersistAttempts - 1 /\ 0 \in 0 .. PersistAttempts - 1
    BY AttemptsPositive DEF TypeOK
  <2>2. failures[q] + 1 # PersistAttempts => failures[q] + 1 \in 0 .. PersistAttempts - 1
    BY <2>1, AttemptsPositive
  <2> QED
    BY <2>1, <2>2, Zenon DEF persist, TypeOK
<1>3. pc' \in [Query -> PCs]
  BY Zenon DEF persist, Goto, TypeOK
<1>4. TypeOK'
  BY <1>1, <1>2, <1>3, Zenon DEF persist, TypeOK, procVars
<1> QED
  BY <1>1, <1>4 DEF persist, Goto, TypeOK

(* A verdict on a run that is RUNNING is always accepted by complete(). *)
LEMMA FinishEffect ==
  ASSUME TypeOK, NEW q \in Query, NEW verdict \in OwnVerdict,
         local[q] = Running, finishRun(q, verdict)
  PROVE  /\ local' = [local EXCEPT ![q] = verdict]
         /\ pc' = [pc EXCEPT ![q] = "markTerminal"]
         /\ local' \in [Query -> QueryRecord \cup {NoRecord}]
         /\ pc' \in [Query -> PCs]
<1>1. CanTransitionTo(local[q].state, verdict.state)
  BY DEF CanTransitionTo, Running, Record, OwnVerdict
<1>2. local' = [local EXCEPT ![q] = verdict] /\ pc' = [pc EXCEPT ![q] = "markTerminal"]
  BY <1>1, Zenon DEF finishRun, Goto
<1>3. verdict \in QueryRecord /\ "markTerminal" \in PCs
  BY Zenon DEF OwnVerdict, PCs, HoldsSlot, Registered
<1> QED
  BY <1>2, <1>3, Zenon DEF TypeOK

(* A run that reaches its verdict: SUCCEEDED only with a complete object. *)
LEMMA VerdictStep ==
  ASSUME IInv, NEW q \in Query, NEW verdict \in OwnVerdict,
         pc[q] \in {"exec", "open", "stream", "lost", "discard"},
         finishRun(q, verdict),
         object' \in [Query -> {"none", "partial", "complete"}],
         \A p \in Query \ {q} : object'[p] = object[p],
         verdict.state = "SUCCEEDED" => object'[q] = "complete",
         UNCHANGED <<storeVars, procVars, ctx, failures, activeReg, slots, owner, aged, control>>
  PROVE  IInv'
<1>1. local[q] = Running /\ queries[q] \in Open /\ TypeOK
  BY Zenon DEF IInv, RecordsFit, RecordFits
<1>2. /\ local' = [local EXCEPT ![q] = verdict]
      /\ pc' = [pc EXCEPT ![q] = "markTerminal"]
      /\ local' \in [Query -> QueryRecord \cup {NoRecord}]
      /\ pc' \in [Query -> PCs]
  BY <1>1, FinishEffect, Zenon
<1>3. TypeOK'
  BY <1>1, <1>2, Zenon DEF TypeOK, storeVars, procVars
<1>4. queries[q].state # "SUCCEEDED"
  BY <1>1 DEF Open, Pending, Running, Lost, Record
<1>5. RecordFits(q)' /\ ResultFits(q)'
  BY <1>1, <1>2, <1>4, Zenon DEF RecordFits, ResultFits, TypeOK, storeVars
<1> QED
  BY <1>1, <1>2, <1>3, <1>5, GoroutineStep, Zenon DEF TypeOK, Registered, storeVars

(* The steps of a run preserve the invariant. *)
LEMMA RunIInv ==
  ASSUME IInv, NEW q \in Query, Run(q)
  PROVE  IInv'
<1> USE DEF IInv
<1>0. /\ owner[q] \in Instance /\ RecordFits(q) /\ ResultFits(q) /\ ctx[q] \in CtxErr
      /\ Running \in QueryRecord /\ OwnVerdict \subseteq QueryRecord
      /\ Running.state = "RUNNING"
  BY RecordTypes, Zenon DEF TypeOK, RecordsFit, OwnVerdict, Running, Record
<1>t. /\ pc \in [Query -> PCs] /\ local \in [Query -> QueryRecord \cup {NoRecord}]
      /\ object \in [Query -> {"none", "partial", "complete"}]
  BY Zenon DEF TypeOK
<1>1. CASE MarkRunning(q)
  <2>1. local[q] = Running /\ queries[q] \in Open /\ persist(q, "exec", "exec")
    BY <1>0, <1>1, Zenon DEF MarkRunning, RecordFits
  <2>2. /\ TypeOK' /\ queries'[q] \in {queries[q], Running}
        /\ pc'[q] \in {"exec", "markRunning"}
        /\ \A p \in Query \ {q} : queries'[p] = queries[p] /\ pc'[p] = pc[p]
        /\ UNCHANGED <<local, object, activeReg, owner>>
    <3>1. "exec" \in PCs
      BY Zenon DEF PCs, HoldsSlot, Registered
    <3> QED
      BY <1>0, <1>1, <2>1, <3>1, PersistEffect, Zenon DEF MarkRunning
  <2>3. RecordFits(q)' /\ ResultFits(q)'
    BY <1>0, <2>1, <2>2, Zenon DEF RecordFits, ResultFits, Open
  <2> QED
    BY <1>1, <2>2, <2>3, GoroutineStep, Zenon DEF MarkRunning, Registered
<1>2. CASE MarkTerminal(q)
  <2>1. /\ local[q] \in OwnVerdict /\ queries[q] \in Open \cup {local[q]}
        /\ persist(q, "settled", "gaveUp")
    BY <1>0, <1>2, Zenon DEF MarkTerminal, RecordFits
  <2>2. /\ TypeOK' /\ queries'[q] \in {queries[q], local[q]}
        /\ \/ pc'[q] = "settled" /\ queries'[q] = local[q]
           \/ pc'[q] \in {"gaveUp", "markTerminal"}
        /\ \A p \in Query \ {q} : queries'[p] = queries[p] /\ pc'[p] = pc[p]
        /\ UNCHANGED <<local, object, activeReg, owner>>
    <3>1. "settled" \in PCs /\ "gaveUp" \in PCs
      BY Zenon DEF PCs, HoldsSlot, Registered
    <3> QED
      BY <1>0, <1>2, <2>1, <3>1, PersistEffect, Zenon DEF MarkTerminal
  <2>3. RecordFits(q)' /\ ResultFits(q)'
    BY <1>0, <2>1, <2>2, Zenon DEF RecordFits, ResultFits
  <2> QED
    BY <1>2, <2>2, <2>3, GoroutineStep, Zenon DEF MarkTerminal, Registered
<1>3. CASE ExecQuery(q)
  <2>1. CASE Goto(q, "open") /\ UNCHANGED local
    <3>1. TypeOK'
      BY <1>3, <2>1, Zenon
      DEF ExecQuery, Goto, TypeOK, PCs, HoldsSlot, Registered, storeVars, procVars
    <3>2. RecordFits(q)' /\ ResultFits(q)'
      BY <1>0, <1>t, <1>3, <2>1, Zenon DEF ExecQuery, Goto, RecordFits, ResultFits, storeVars
    <3> QED
      BY <1>t, <1>3, <2>1, <3>1, <3>2, GoroutineStep, Zenon
      DEF ExecQuery, Goto, Registered, storeVars
  <2>2. ASSUME NEW err \in {"other", ctx[q]}, finishRun(q, terminalFor(ctx[q], err))
        PROVE  IInv'
    <3>1. /\ terminalFor(ctx[q], err) \in OwnVerdict
          /\ terminalFor(ctx[q], err).state # "SUCCEEDED"
      BY <1>0, RecordTypes, Zenon DEF terminalFor, Record
    <3> QED
      BY <1>t, <1>3, <2>2, <3>1, VerdictStep, Zenon DEF ExecQuery
  <2> QED
    BY <1>3, <2>1, <2>2, Zenon DEF ExecQuery
<1>4. CASE OpenWriter(q)
  <2>1. CASE /\ Goto(q, "stream") /\ UNCHANGED local
             /\ object' = [object EXCEPT ![q] = "partial"]
    <3>1. TypeOK'
      BY <1>4, <2>1, Zenon
      DEF OpenWriter, Goto, TypeOK, PCs, HoldsSlot, Registered, storeVars, procVars
    <3>2. RecordFits(q)' /\ ResultFits(q)'
      BY <1>0, <1>t, <1>4, <2>1, SMTT(20)
      DEF OpenWriter, Goto, RecordFits, ResultFits, storeVars, Open, Pending, Running, Lost, Record
    <3> QED
      BY <1>t, <1>4, <2>1, <3>1, <3>2, GoroutineStep, Zenon
      DEF OpenWriter, Goto, Registered, storeVars
  <2>2. CASE finishRun(q, Record("FAILED", "failed")) /\ UNCHANGED object
    BY <1>t, <1>4, <2>2, RecordTypes, VerdictStep, Zenon DEF OpenWriter, Record
  <2> QED
    BY <1>4, <2>1, <2>2, Zenon DEF OpenWriter
<1>5. CASE ReportProgress(q)
  <2>1. local[q] = Running /\ queries[q] \in Open
    BY <1>0, <1>5, Zenon DEF ReportProgress, RecordFits
  <2>2. /\ queries' \in [Query -> QueryRecord \cup {NoRecord}] /\ leases' \subseteq Query
        /\ queries'[q] \in {queries[q], Running}
        /\ \A p \in Query \ {q} : queries'[p] = queries[p]
    BY <1>0, <1>5, <2>1, PutEffect, Zenon DEF ReportProgress, UpdateQueryIfState, TypeOK, storeVars
  <2>3. TypeOK'
    BY <1>5, <2>2, Zenon
    DEF ReportProgress, Goto, TypeOK, PCs, HoldsSlot, Registered, procVars
  <2>4. RecordFits(q)' /\ ResultFits(q)'
    BY <1>0, <1>t, <1>5, <2>1, <2>2, Zenon DEF ReportProgress, Goto, RecordFits, ResultFits, Open
  <2> QED
    BY <1>t, <1>5, <2>2, <2>3, <2>4, GoroutineStep, Zenon DEF ReportProgress, Goto, Registered
<1>6. CASE FinishStream(q)
  <2>1. CASE /\ object' = [object EXCEPT ![q] = "complete"]
             /\ finishRun(q, [state |-> "SUCCEEDED", result |-> TRUE, error |-> "none"])
    <3>1. /\ object' \in [Query -> {"none", "partial", "complete"}]
          /\ object'[q] = "complete" /\ \A p \in Query \ {q} : object'[p] = object[p]
      BY <1>t, <2>1, Zenon
    <3> QED
      BY <1>6, <2>1, <3>1, RecordTypes, VerdictStep, Zenon DEF FinishStream
  <2>2. CASE Goto(q, "discard") /\ UNCHANGED <<object, local>>
    <3>1. TypeOK'
      BY <1>6, <2>2, Zenon
      DEF FinishStream, Goto, TypeOK, PCs, HoldsSlot, Registered, storeVars, procVars
    <3>2. RecordFits(q)' /\ ResultFits(q)'
      BY <1>0, <1>t, <1>6, <2>2, Zenon DEF FinishStream, Goto, RecordFits, ResultFits, storeVars
    <3> QED
      BY <1>t, <1>6, <2>2, <3>1, <3>2, GoroutineStep, Zenon
      DEF FinishStream, Goto, Registered, storeVars
  <2> QED
    BY <1>6, <2>1, <2>2, Zenon DEF FinishStream
<1>7. CASE Discard(q)
  <2>1. PICK err \in {"other", ctx[q]} : finishRun(q, terminalFor(ctx[q], err))
    BY <1>7, Zenon DEF Discard
  <2>2. /\ terminalFor(ctx[q], err) \in OwnVerdict
        /\ terminalFor(ctx[q], err).state # "SUCCEEDED"
    BY <1>0, RecordTypes, Zenon DEF terminalFor, Record
  <2>3. /\ object' \in [Query -> {"none", "partial", "complete"}]
        /\ \A p \in Query \ {q} : object'[p] = object[p]
    <3>1. PICK left \in {"none", object[q]} : object' = [object EXCEPT ![q] = left]
      BY <1>7, Zenon DEF Discard
    <3> QED
      BY <1>t, <3>1, Zenon
  <2> QED
    BY <1>7, <2>1, <2>2, <2>3, VerdictStep, Zenon DEF Discard
<1>8. CASE Leave(q)
  <2>1. TypeOK'
    <3>1. activeReg' \in [Instance -> SUBSET Query] /\ slots' \in [Instance -> Nat]
      BY <1>8, DeregisterType, ReleaseSlotType, Zenon DEF Leave
    <3>2. pc' \in [Query -> PCs]
      BY <1>t, <1>8, Zenon DEF Leave, Goto, PCs, Ended
    <3> QED
      BY <1>8, <3>1, <3>2, Zenon DEF Leave, TypeOK, storeVars, procVars
  <2>2. RecordFits(q)' /\ ResultFits(q)'
    BY <1>0, <1>t, <1>8, Zenon DEF Leave, Goto, RecordFits, ResultFits, storeVars
  <2> QED
    BY <1>t, <1>8, <2>1, <2>2, GoroutineStep, Zenon DEF Leave, Goto, Registered, storeVars
<1> QED
  BY <1>1, <1>2, <1>3, <1>4, <1>5, <1>6, <1>7, <1>8, Zenon DEF Run

-----------------------------------------------------------------------------
(* So do the workers and the processes.                                    *)

(* A step that touches neither a record nor a goroutine. *)
LEMMA FrameStep ==
  ASSUME IInv, TypeOK', UNCHANGED <<queries, pc, local, object, activeReg, owner>>
  PROVE  IInv'
BY Zenon DEF IInv, RecordsFit, RecordFits, ResultFits, RegistryExact

(* Contexts, leases, timers and the workers' lists are outside the records. *)
LEMMA ClockStep ==
  ASSUME IInv, NEW q \in Query,
         ReceiveStop(q) \/ DeadlineExceeded(q) \/ LeaseExpires(q) \/ GracePasses(q)
  PROVE  IInv'
<1>1. TypeOK
  BY Zenon DEF IInv
<1>2. CASE ReceiveStop(q)
  <2>1. TypeOK'
    BY <1>1, <1>2, Zenon DEF ReceiveStop, cancelExec, TypeOK, CtxErr, storeVars, procVars
  <2> QED
    BY <1>2, <2>1, FrameStep, Zenon DEF ReceiveStop, storeVars
<1>3. CASE DeadlineExceeded(q)
  <2>1. TypeOK'
    BY <1>1, <1>3, Zenon DEF DeadlineExceeded, TypeOK, CtxErr, storeVars, procVars
  <2> QED
    BY <1>3, <2>1, FrameStep, Zenon DEF DeadlineExceeded, storeVars
<1>4. CASE LeaseExpires(q)
  <2>1. TypeOK'
    BY <1>1, <1>4, Zenon DEF LeaseExpires, ExpireLease, TypeOK, procVars, runVars
  <2> QED
    BY <1>4, <2>1, FrameStep, Zenon DEF LeaseExpires, ExpireLease, runVars
<1>5. CASE GracePasses(q)
  <2>1. TypeOK'
    BY <1>1, <1>5, Zenon DEF GracePasses, TypeOK, storeVars, procVars, runVars
  <2> QED
    BY <1>5, <2>1, FrameStep, Zenon DEF GracePasses, storeVars, runVars
<1> QED
  BY <1>2, <1>3, <1>4, <1>5, Zenon

(* Reapers and recovery: some unfinished records become Lost. *)
LEMMA LoseStep ==
  ASSUME IInv, TypeOK', NEW L \in SUBSET Query,
         \A q \in L : Active(q),
         queries' = [q \in Query |->
            IF q \in L THEN ownerLost(queries[q]) ELSE queries[q]],
         UNCHANGED <<pc, local, object, activeReg, owner>>
  PROVE  IInv' /\ \A q \in L : queries[q] \in {Pending, Running} /\ queries'[q] = Lost
<1>1. RegistryExact'
  BY Zenon DEF IInv, RegistryExact
<1>2. ASSUME NEW q \in L PROVE queries[q] \in {Pending, Running} /\ queries'[q] = Lost
  <2>1. /\ RecordFits(q) /\ queries[q].state \in {"PENDING", "RUNNING"} /\ pc[q] \in PCs
        /\ NoRecord.state = "NONE" /\ Lost.state = "FAILED"
        /\ \A r \in OwnVerdict : r.state \notin {"PENDING", "RUNNING"}
    BY Zenon DEF IInv, RecordsFit, Active, NoRecord, Lost, Record, OwnVerdict, TypeOK
  <2>2. queries[q] \in Open \cup OwnVerdict \cup {NoRecord}
    BY <2>1, Zenon DEF RecordFits, PCs, HoldsSlot, Registered, Ended, Open
  <2>3. queries[q] \in {Pending, Running}
    BY <2>1, <2>2, Zenon DEF Open
  <2>4. queries'[q] = ownerLost(queries[q])
    OBVIOUS
  <2>5. ownerLost(Pending) = Lost /\ ownerLost(Running) = Lost
    BY Zenon DEF Pending, Running, Lost, Record, ownerLost
  <2> QED
    BY <2>3, <2>4, <2>5, Zenon
<1>3. ASSUME NEW q \in Query PROVE RecordFits(q)' /\ ResultFits(q)'
  <2>1. RecordFits(q) /\ ResultFits(q)
    BY Zenon DEF IInv, RecordsFit
  <2>2. CASE q \notin L
    BY <2>1, <2>2, Zenon DEF RecordFits, ResultFits
  <2>3. CASE q \in L
    <3>1. /\ queries[q] \in {Pending, Running} /\ queries'[q] = Lost
          /\ Lost.state = "FAILED" /\ Lost \in Open /\ NoRecord \notin {Pending, Running}
          /\ Pending \notin OwnVerdict /\ Running \notin OwnVerdict
      BY <1>2, <2>3, Zenon DEF Lost, Open, Pending, Running, NoRecord, Record, OwnVerdict
    <3> QED
      BY <2>1, <3>1, Zenon DEF RecordFits, ResultFits
  <2> QED
    BY <2>2, <2>3, Zenon
<1> QED
  BY <1>1, <1>2, <1>3, Zenon DEF IInv, RecordsFit

(* StopQuery, the heartbeat, listing, Drain, Close, CancelWorkers, Restart. *)
LEMMA WorkerStep ==
  ASSUME IInv, NEW i \in Instance,
         \/ \E q \in Query : StopQuery(i, q) \/ SkipStale(i, q)
         \/ CollectActive(i) \/ Heartbeat(i) \/ ListStale(i)
         \/ Drain(i) \/ Close(i) \/ CancelWorkers(i) \/ Restart(i)
  PROVE  IInv'
<1>1. TypeOK
  BY Zenon DEF IInv
<1>2. ASSUME NEW q \in Query, StopQuery(i, q) PROVE IInv'
  <2>1. TypeOK'
    BY <1>1, <1>2, Zenon DEF StopQuery, cancelExec, TypeOK, CtxErr, storeVars, procVars
  <2> QED
    BY <1>2, <2>1, FrameStep, Zenon DEF StopQuery, storeVars
<1>3. CASE CollectActive(i)
  <2>1. TypeOK'
    BY <1>1, <1>3, Zenon DEF CollectActive, TypeOK, storeVars, runVars
  <2> QED
    BY <1>3, <2>1, FrameStep, Zenon DEF CollectActive, storeVars, runVars
<1>4. CASE Heartbeat(i)
  <2>1. TypeOK' /\ UNCHANGED queries
    BY <1>1, <1>4, Zenon DEF Heartbeat, HeartbeatLeases, TypeOK, storeVars, runVars
  <2> QED
    BY <1>4, <2>1, FrameStep, Zenon DEF Heartbeat, runVars
<1>5. CASE ListStale(i)
  <2>1. TypeOK'
    BY <1>1, <1>5, Zenon DEF ListStale, ListStaleQueries, TypeOK, storeVars, runVars
  <2> QED
    BY <1>5, <2>1, FrameStep, Zenon DEF ListStale, storeVars, runVars
<1>6. CASE Drain(i)
  <2>1. TypeOK'
    BY <1>1, <1>6, Zenon DEF Drain, TypeOK, storeVars, runVars
  <2> QED
    BY <1>6, <2>1, FrameStep, Zenon DEF Drain, storeVars, runVars
<1>7. CASE Close(i)
  <2>1. ends' \in 0 .. MaxEnds
    BY <1>1, <1>7, EndsNat DEF Close, TypeOK
  <2>2. TypeOK'
    BY <1>1, <1>7, <2>1, Zenon DEF Close, cancelExec, TypeOK, CtxErr, Phases, storeVars
  <2> QED
    BY <1>7, <2>2, FrameStep, Zenon DEF Close, storeVars
<1>8. CASE CancelWorkers(i)
  <2>1. TypeOK'
    BY <1>1, <1>8, Zenon DEF CancelWorkers, TypeOK, Phases, storeVars, runVars
  <2> QED
    BY <1>8, <2>1, FrameStep, Zenon DEF CancelWorkers, storeVars, runVars
<1>9. CASE Restart(i)
  <2>1. TypeOK'
    BY <1>1, <1>9, Zenon DEF Restart, TypeOK, Phases, storeVars, runVars
  <2> QED
    BY <1>9, <2>1, FrameStep, Zenon DEF Restart, storeVars, runVars
<1>10. ASSUME NEW q \in Query, SkipStale(i, q) PROVE IInv'
  <2>1. TypeOK'
    BY <1>1, <1>10, Zenon DEF SkipStale, TypeOK, storeVars, runVars
  <2> QED
    BY <1>10, <2>1, FrameStep, Zenon DEF SkipStale, storeVars, runVars
<1> QED
  BY <1>2, <1>3, <1>4, <1>5, <1>6, <1>7, <1>8, <1>9, <1>10, Zenon

(* The record of an unfinished query stays a record when its owner is lost. *)
LEMMA OwnerLostType ==
  ASSUME TypeOK, NEW q \in Query, Active(q)
  PROVE  ownerLost(queries[q]) \in QueryRecord
<1>1. queries[q] \in QueryRecord
  BY DEF TypeOK, Active, NoRecord, Record
<1> QED
  BY <1>1, Zenon DEF ownerLost, QueryRecord, QueryState, QueryError

(* A reaper's visit to one listed query. *)
LEMMA ReapStep ==
  ASSUME IInv, NEW i \in Instance, NEW q \in Query, ReapStale(i, q)
  PROVE  /\ IInv'
         /\ \/ UNCHANGED queries
            \/ /\ queries[q] \in {Pending, Running} /\ queries'[q] = Lost
               /\ \A p \in Query \ {q} : queries'[p] = queries[p]
<1>1. TypeOK
  BY Zenon DEF IInv
<1>2. CASE UNCHANGED storeVars
  <2>1. TypeOK'
    BY <1>1, <1>2, Zenon DEF ReapStale, TypeOK, storeVars, runVars
  <2> QED
    BY <1>2, <2>1, FrameStep, Zenon DEF ReapStale, storeVars, runVars
<1>3. CASE PutQuery(q, ownerLost(queries[q])) /\ Active(q)
  <2>1. ownerLost(queries[q]) \in QueryRecord
    BY <1>1, <1>3, OwnerLostType, Zenon
  <2>2. queries' \in [Query -> QueryRecord \cup {NoRecord}] /\ leases' \subseteq Query
    BY <1>1, <1>3, <2>1, PutEffect, Zenon
  <2>3. TypeOK'
    BY <1>1, <2>2, Zenon DEF ReapStale, TypeOK, runVars
  <2>4. queries' = [p \in Query |-> IF p \in {q} THEN ownerLost(queries[p]) ELSE queries[p]]
    BY <1>1, <1>3, Zenon DEF PutQuery, TypeOK
  <2>5. IInv' /\ queries[q] \in {Pending, Running} /\ queries'[q] = Lost
    <3> DEFINE L == {q}
    <3>1. L \in SUBSET Query /\ \A p \in L : Active(p)
      BY <1>3, Zenon
    <3>2. UNCHANGED <<pc, local, object, activeReg, owner>>
      BY Zenon DEF ReapStale, runVars
    <3>3. queries' = [p \in Query |-> IF p \in L THEN ownerLost(queries[p]) ELSE queries[p]]
      BY <2>4, Zenon
    <3> HIDE DEF L
    <3>4. IInv' /\ \A p \in L : queries[p] \in {Pending, Running} /\ queries'[p] = Lost
      BY <2>3, <3>1, <3>2, <3>3, LoseStep, Zenon
    <3> QED
      BY <3>4, Zenon DEF L
  <2> QED
    BY <2>4, <2>5, Zenon
<1> QED
  BY <1>2, <1>3, Zenon DEF ReapStale, failOwnerLost, UpdateQueryIfState, Active

(* The recovery pass of a restarted instance. *)
LEMMA RecoverStep ==
  ASSUME IInv, NEW i \in Instance, RecoverOrphans(i)
  PROVE  /\ IInv'
         /\ \E L \in SUBSET Query :
              /\ \A q \in L : queries[q] \in {Pending, Running} /\ queries'[q] = Lost
              /\ \A q \in Query \ L : queries'[q] = queries[q]
<1> DEFINE orphans == {q \in Query : owner[q] = i /\ Active(q)}
<1>1. PICK S \in SUBSET orphans :
        /\ queries' = [q \in Query |->
             IF q \in orphans \ S THEN ownerLost(queries[q]) ELSE queries[q]]
        /\ leases' = leases \ (orphans \ S)
  BY Zenon DEF RecoverOrphans
<1> DEFINE L == orphans \ S
<1>2. L \in SUBSET Query /\ \A q \in L : Active(q)
  OBVIOUS
<1>3. queries' = [q \in Query |-> IF q \in L THEN ownerLost(queries[q]) ELSE queries[q]]
  BY <1>1, Zenon
<1>4. leases' \subseteq Query
  BY <1>1, Zenon DEF IInv, TypeOK
<1> HIDE DEF L
<1>5. queries' \in [Query -> QueryRecord \cup {NoRecord}]
  <2>1. ASSUME NEW q \in L PROVE ownerLost(queries[q]) \in QueryRecord
    BY <1>2, OwnerLostType, Zenon DEF IInv
  <2> QED
    BY <1>2, <1>3, <2>1, Zenon DEF IInv, TypeOK
<1>6. TypeOK' /\ UNCHANGED <<pc, local, object, activeReg, owner>>
  BY <1>4, <1>5, Zenon DEF RecoverOrphans, IInv, TypeOK, Phases, runVars
<1>7. IInv' /\ \A q \in L : queries[q] \in {Pending, Running} /\ queries'[q] = Lost
  BY <1>2, <1>3, <1>6, LoseStep, Zenon
<1> QED
  BY <1>2, <1>3, <1>7, Zenon

(* The end of a process, by Exit or Crash. *)
LEMMA EndStep ==
  ASSUME IInv, NEW i \in Instance, Exit(i) \/ Crash(i)
  PROVE  IInv' /\ UNCHANGED queries
<1>1. TypeOK /\ ProcessEnds(i) /\ ends' \in 0 .. MaxEnds
  BY EndsNat DEF IInv, TypeOK, Exit, Crash
<1>2. TypeOK'
  <2>1. pc' \in [Query -> PCs]
    BY <1>1, Zenon DEF ProcessEnds, TypeOK, PCs, Ended
  <2>2. failures' \in [Query -> 0 .. PersistAttempts - 1]
    BY <1>1, AttemptsPositive DEF ProcessEnds, TypeOK
  <2> QED
    BY <1>1, <2>1, <2>2, Zenon DEF ProcessEnds, TypeOK, Phases, storeVars
<1>3. RegistryExact'
  BY <1>1, SMTT(20) DEF IInv, RegistryExact, ProcessEnds, TypeOK, HoldsSlot, Registered
<1>4. ASSUME NEW q \in Query PROVE RecordFits(q)' /\ ResultFits(q)'
  <2>1. /\ RecordFits(q) /\ ResultFits(q)
        /\ UNCHANGED <<queries, local, object>>
        /\ pc'[q] = IF owner[q] = i /\ pc[q] \in HoldsSlot THEN "gone" ELSE pc[q]
    BY <1>1, Zenon DEF IInv, RecordsFit, ProcessEnds, storeVars
  <2>2. pc[q] \in HoldsSlot => queries[q] \in Open \cup OwnVerdict \cup {NoRecord}
    BY <2>1, Zenon DEF RecordFits, HoldsSlot, Registered
  <2> QED
    BY <2>1, <2>2, Zenon DEF RecordFits, ResultFits
<1> QED
  BY <1>1, <1>2, <1>3, <1>4, Zenon DEF IInv, RecordsFit, ProcessEnds, storeVars

(* IInv is inductive. *)
LEMMA NextIInv ==
  ASSUME IInv, [Next]_vars
  PROVE  IInv'
<1>1. CASE UNCHANGED vars
  BY <1>1, Zenon
  DEF IInv, TypeOK, RecordsFit, RecordFits, ResultFits, RegistryExact, vars, storeVars, procVars,
      runVars
<1>2. ASSUME NEW q \in Query, QueryStep(q) PROVE IInv'
  BY <1>2, SubmissionIInv, RunIInv, ClockStep, Zenon DEF QueryStep
<1>3. ASSUME NEW i \in Instance, InstanceStep(i) PROVE IInv'
  BY <1>3, WorkerStep, RecoverStep, EndStep, Zenon DEF InstanceStep
<1>4. ASSUME NEW i \in Instance, NEW q \in Query, StopQuery(i, q) \/ ReapStale(i, q) \/ SkipStale(i, q)
      PROVE  IInv'
  BY <1>4, WorkerStep, ReapStep, Zenon
<1> QED
  BY <1>1, <1>2, <1>3, <1>4, Zenon DEF Next

(* What IInv says of the safety properties. *)
LEMMA IInvImplies ==
  IInv => TypeOK /\ VerdictStands /\ SucceededIsStored /\ UnregisteredIsOver
<1> SUFFICES ASSUME IInv PROVE VerdictStands /\ SucceededIsStored /\ UnregisteredIsOver
  BY Zenon DEF IInv
<1>0. \A q \in Query : /\ RecordFits(q) /\ ResultFits(q) /\ pc[q] \in PCs
                       /\ owner[q] \in Instance
  BY Zenon DEF IInv, RecordsFit, TypeOK
<1>1. VerdictStands
  BY <1>0, Zenon DEF VerdictStands, RecordFits, OwnVerdict, IsTerminal
<1>2. ASSUME NEW q \in Query, queries[q].state = "SUCCEEDED"
      PROVE  queries[q].result /\ object[q] = "complete"
  <2>1. queries[q] \in Open \cup OwnVerdict \cup {NoRecord}
    BY <1>0, Zenon DEF RecordFits, PCs, HoldsSlot, Registered, Ended
  <2>2. queries[q] \in OwnVerdict
    BY <1>2, <2>1 DEF Open, Pending, Running, Lost, NoRecord, Record
  <2> QED
    BY <1>0, <1>2, <2>2, Zenon DEF ResultFits, OwnVerdict
<1>3. ASSUME NEW q \in Query, Active(q), q \notin activeReg[owner[q]]
      PROVE  pc[q] \in {"refused", "abandoned", "gone"}
  <2>1. pc[q] \notin Registered
    BY <1>0, <1>3, Zenon DEF IInv, RegistryExact
  <2>2. pc[q] \notin {"new", "slotted", "done"}
    BY <1>0, <1>3, SMTT(20) DEF RecordFits, Active, NoRecord, Record, OwnVerdict
  <2> QED
    BY <1>0, <2>1, <2>2, Zenon DEF PCs, HoldsSlot, Ended
<1> QED
  BY <1>1, <1>2, <1>3, Zenon DEF SucceededIsStored, UnregisteredIsOver

-----------------------------------------------------------------------------
(* Every variable has its type, in every reachable state. *)
THEOREM TypeCorrect == Spec => []TypeOK
<1>1. Init => IInv
  BY InitIInv, Zenon
<1>2. IInv /\ [Next]_vars => IInv'
  BY NextIInv, Zenon
<1>3. IInv => TypeOK
  BY IInvImplies, Zenon
<1> QED
  BY <1>1, <1>2, <1>3, PTL DEF Spec

(* No reaper, retry, late progress report or restart changes the record of *)
(* a run that has written its verdict (run() and complete()).              *)
THEOREM VerdictsStand == Spec => []VerdictStands
<1>1. Init => IInv
  BY InitIInv, Zenon
<1>2. IInv /\ [Next]_vars => IInv'
  BY NextIInv, Zenon
<1>3. IInv => VerdictStands
  BY IInvImplies, Zenon
<1> QED
  BY <1>1, <1>2, <1>3, PTL DEF Spec

(* A SUCCEEDED record always has a ResultRef to a completely written object. *)
THEOREM SucceededStored == Spec => []SucceededIsStored
<1>1. Init => IInv
  BY InitIInv, Zenon
<1>2. IInv /\ [Next]_vars => IInv'
  BY NextIInv, Zenon
<1>3. IInv => SucceededIsStored
  BY IInvImplies, Zenon
<1> QED
  BY <1>1, <1>2, <1>3, PTL DEF Spec

(* A query leaves the registry of its owner only after its verdict was     *)
(* persisted or given up.                                                  *)
THEOREM UnregisteredOver == Spec => []UnregisteredIsOver
<1>1. Init => IInv
  BY InitIInv, Zenon
<1>2. IInv /\ [Next]_vars => IInv'
  BY NextIInv, Zenon
<1>3. IInv => UnregisteredIsOver
  BY IInvImplies, Zenon
<1> QED
  BY <1>1, <1>2, <1>3, PTL DEF Spec

-----------------------------------------------------------------------------
(* What the inductive invariant gives about whole steps: the records move  *)
(* along the ledger, and the semaphore counts its holders.                 *)

(***************************************************************************)
(* What a step can do to the records: nothing; write one record, PENDING   *)
(* where there was none, or RUNNING or a verdict over an Open one; or      *)
(* declare unfinished ones lost.                                           *)
(***************************************************************************)
Write(q) ==
  /\ \A p \in Query \ {q} : queries'[p] = queries[p]
  /\ \/ queries[q] = NoRecord /\ queries'[q] = Pending
     \/ queries[q] \in Open /\ queries'[q] \in {Running} \cup OwnVerdict

LoseSome ==
  \E L \in SUBSET Query :
    /\ \A q \in L : queries[q] \in {Pending, Running} /\ queries'[q] = Lost
    /\ \A q \in Query \ L : queries'[q] = queries[q]

(* A write of q by its own goroutine. *)
LEMMA OwnerWrites ==
  ASSUME IInv, NEW q \in Query, Submission(q) \/ Run(q)
  PROVE  UNCHANGED queries \/ Write(q)
<1>0. /\ TypeOK /\ RecordFits(q)
      /\ Running \in QueryRecord /\ Pending \in QueryRecord /\ OwnVerdict \subseteq QueryRecord
  BY RecordTypes, Zenon DEF IInv, RecordsFit, OwnVerdict
<1>1. CASE PersistPending(q)
  <2>1. queries[q] = NoRecord /\ Record("PENDING", "none") = Pending
    BY <1>0, <1>1, Zenon DEF PersistPending, RecordFits, Pending
  <2>2. PutQuery(q, Pending) \/ PutQueryError(q, Pending)
    BY <1>1, <2>1, Zenon DEF PersistPending
  <2>3. /\ queries'[q] \in {NoRecord, Pending}
        /\ \A p \in Query \ {q} : queries'[p] = queries[p]
        /\ queries' \in [Query -> QueryRecord \cup {NoRecord}]
    BY <1>0, <2>1, <2>2, PutEffect, PutErrorEffect, Zenon
  <2>4. CASE queries'[q] = queries[q]
    BY <1>0, <2>3, <2>4 DEF TypeOK
  <2> QED
    BY <2>1, <2>3, <2>4, Zenon DEF Write
<1>2. CASE MarkRunning(q) \/ MarkTerminal(q)
  <2>1. /\ queries[q] \in Open \cup {local[q]} /\ local[q] \in {Running} \cup OwnVerdict
        /\ PutQuery(q, local[q]) \/ PutQueryError(q, local[q])
    BY <1>0, <1>2, Zenon DEF MarkRunning, MarkTerminal, RecordFits, persist
  <2>3. /\ queries'[q] \in {queries[q], local[q]}
        /\ \A p \in Query \ {q} : queries'[p] = queries[p]
        /\ queries' \in [Query -> QueryRecord \cup {NoRecord}]
    BY <1>0, <2>1, PutEffect, PutErrorEffect, Zenon
  <2>4. CASE queries'[q] = queries[q]
    BY <1>0, <2>3, <2>4 DEF TypeOK
  <2> QED
    BY <2>1, <2>3, <2>4, Zenon DEF Write
<1>3. CASE ReportProgress(q)
  <2>1. queries[q] \in Open /\ local[q] = Running
    BY <1>0, <1>3, Zenon DEF ReportProgress, RecordFits
  <2> QED
    BY <1>0, <1>3, <2>1, PutEffect, Zenon DEF ReportProgress, UpdateQueryIfState, storeVars, Write
<1> QED
  BY <1>1, <1>2, <1>3, Zenon
  DEF Submission, Run, AcquireSlot, Admit, Launch, HeartbeatLeases, ExecQuery, OpenWriter,
      FinishStream, Discard, Leave, storeVars

(* A step leaves the records alone, writes one of them, or the store loses some. *)
LEMMA RecordStep ==
  ASSUME IInv, [Next]_vars
  PROVE  UNCHANGED queries \/ (\E q \in Query : Write(q)) \/ LoseSome
<1>1. CASE UNCHANGED vars
  BY <1>1, Zenon DEF vars, storeVars
<1>2. ASSUME NEW q \in Query, QueryStep(q)
      PROVE  UNCHANGED queries \/ Write(q)
  BY <1>2, OwnerWrites, Zenon
  DEF QueryStep, ReceiveStop, DeadlineExceeded, LeaseExpires, ExpireLease, GracePasses, storeVars
<1>3. ASSUME NEW i \in Instance, InstanceStep(i)
      PROVE  UNCHANGED queries \/ LoseSome
  <2>1. CASE RecoverOrphans(i)
    BY <2>1, RecoverStep, Zenon DEF LoseSome
  <2>2. CASE Exit(i) \/ Crash(i)
    BY <2>2, EndStep, Zenon
  <2> QED
    BY <1>3, <2>1, <2>2, Zenon
    DEF InstanceStep, CollectActive, Heartbeat, HeartbeatLeases, ListStale, Drain, Close,
        CancelWorkers, Restart, storeVars
<1>4. ASSUME NEW i \in Instance, NEW q \in Query, StopQuery(i, q) \/ ReapStale(i, q) \/ SkipStale(i, q)
      PROVE  UNCHANGED queries \/ LoseSome
  <2>1. CASE StopQuery(i, q) \/ SkipStale(i, q)
    BY <2>1, Zenon DEF StopQuery, SkipStale, storeVars
  <2>2. CASE ReapStale(i, q)
    <3>1. {q} \in SUBSET Query
      OBVIOUS
    <3> QED
      BY <2>2, <3>1, ReapStep, Zenon DEF LoseSome
  <2> QED
    BY <1>4, <2>1, <2>2, Zenon
<1> QED
  BY <1>1, <1>2, <1>3, <1>4, Zenon DEF Next

(* A verdict of the run itself is never replaced. *)
THEOREM OwnVerdictsFinal == Spec => OwnVerdictIsFinal
<1>1. Init => IInv
  BY InitIInv, Zenon
<1>2. IInv /\ [Next]_vars => IInv'
  BY NextIInv, Zenon
<1>3. IInv /\ [Next]_vars =>
        [\A q \in Query : IsTerminal(queries[q].state) /\ queries[q].error # "owner_lost"
                           => queries'[q] = queries[q]]_vars
  <2> SUFFICES ASSUME IInv, [Next]_vars, NEW q \in Query,
                      IsTerminal(queries[q].state), queries[q].error # "owner_lost"
               PROVE  queries'[q] = queries[q]
    OBVIOUS
  <2>1. queries[q] \notin Open \cup {NoRecord}
    BY DEF Open, Pending, Running, Lost, NoRecord, Record, IsTerminal
  <2> QED
    BY <2>1, RecordStep, Zenon DEF Write, LoseSome, Open
<1> QED
  BY <1>1, <1>2, <1>3, PTL DEF Spec, OwnVerdictIsFinal

(* The ledger entries of the records the writers use. *)
LEMMA Entries ==
  /\ Entry(NoRecord) = "NONE" /\ Entry(Pending) = "PENDING"
  /\ Entry(Running) = "RUNNING" /\ Entry(Lost) = "LOST"
  /\ \A rec \in OwnVerdict : Entry(rec) \in Ledger!Verdict
BY Zenon DEF Entry, NoRecord, Pending, Running, Lost, Record, OwnVerdict, Ledger!Verdict

(* Execution implements QueryLedger: to readers of the store, records move *)
(* only along the ledger's steps.                                          *)
THEOREM RefinesLedger == Spec => ImplementsLedger
<1>1. Init => IInv
  BY InitIInv, Zenon
<1>2. IInv /\ [Next]_vars => IInv'
  BY NextIInv, Zenon
<1>3. Init => Ledger!Init
  BY Entries DEF Init, Ledger!Init, RecordLedger
<1>4. IInv /\ [Next]_vars => [Ledger!Next]_RecordLedger
  <2> SUFFICES ASSUME IInv, [Next]_vars PROVE [Ledger!Next]_RecordLedger
    OBVIOUS
  <2>1. CASE UNCHANGED queries
    BY <2>1, Zenon DEF RecordLedger
  <2>2. ASSUME NEW q \in Query, Write(q) PROVE Ledger!Next
    <3>1. /\ RecordLedger[q] = Entry(queries[q])
          /\ RecordLedger' = [RecordLedger EXCEPT ![q] = Entry(queries'[q])]
      BY <2>2, Zenon DEF RecordLedger, Write
    <3>2. CASE queries[q] = NoRecord /\ queries'[q] = Pending
      <4>1. Ledger!Accept(q)
        BY <3>1, <3>2, Entries, Zenon DEF Ledger!Accept, Ledger!Enter
      <4> QED
        BY <4>1, Zenon DEF Ledger!Next
    <3>3. CASE queries[q] \in Open /\ queries'[q] \in {Running} \cup OwnVerdict
      <4>0. RecordLedger[q] \in Ledger!Unfinished
        BY <3>1, <3>3, Entries, Zenon DEF Open, Ledger!Unfinished
      <4>1. CASE queries'[q] = Running
        <5>1. Ledger!Start(q)
          BY <3>1, <4>0, <4>1, Entries, Zenon DEF Ledger!Start, Ledger!Enter
        <5> QED
          BY <5>1, Zenon DEF Ledger!Next
      <4>2. CASE queries'[q] \in OwnVerdict
        <5>1. Ledger!Settle(q)
          BY <3>1, <4>0, <4>2, Entries, Zenon DEF Ledger!Settle, Ledger!Enter
        <5> QED
          BY <5>1, Zenon DEF Ledger!Next
      <4> QED
        BY <3>3, <4>1, <4>2, Zenon
    <3> QED
      BY <2>2, <3>2, <3>3, Zenon DEF Write
  <2>3. CASE LoseSome
    <3>1. PICK L \in SUBSET Query :
            /\ \A q \in L : queries[q] \in {Pending, Running} /\ queries'[q] = Lost
            /\ \A q \in Query \ L : queries'[q] = queries[q]
      BY <2>3, Zenon DEF LoseSome
    <3>2. Ledger!Lose(L)
      BY <3>1, Entries, Zenon DEF Ledger!Lose, RecordLedger
    <3> QED
      BY <3>2, Zenon DEF Ledger!Next
  <2> QED
    BY <2>1, <2>2, <2>3, RecordStep, Zenon
<1> QED
  BY <1>1, <1>2, <1>3, <1>4, PTL DEF Spec, ImplementsLedger, Ledger!Spec

-----------------------------------------------------------------------------
(* The semaphore: steps that leave its holders alone, add one, remove one. *)
LEMMA HoldersKept ==
  ASSUME SlotsBalanced, UNCHANGED <<owner, slots>>,
         \A p \in Query : pc'[p] \in HoldsSlot <=> pc[p] \in HoldsSlot
  PROVE  SlotsBalanced'
<1>1. \A i \in Instance : SlotHolders(i)' = SlotHolders(i)
  BY Zenon DEF SlotHolders
<1> QED
  BY <1>1, Zenon DEF SlotsBalanced

(* One query more holds a slot: one holder more. *)
LEMMA HolderAdded ==
  ASSUME TypeOK, SlotsBalanced, NEW q \in Query, pc[q] \notin HoldsSlot, pc'[q] \in HoldsSlot,
         \A p \in Query \ {q} : pc'[p] = pc[p], UNCHANGED owner,
         SlotFree(owner[q]), acquireSlot(owner[q])
  PROVE  SlotsBalanced'
<1> SUFFICES ASSUME MaxSlots > 0, NEW i \in Instance
             PROVE  slots'[i] = Cardinality(SlotHolders(i)') /\ slots'[i] <= MaxSlots
  BY Zenon DEF SlotsBalanced
<1>1. /\ slots[i] = Cardinality(SlotHolders(i)) /\ slots[i] <= MaxSlots
      /\ slots[i] \in Nat /\ MaxSlots \in Nat
  BY SlotsNat, Zenon DEF SlotsBalanced, TypeOK
<1>2. CASE i # owner[q]
  <2>1. SlotHolders(i)' = SlotHolders(i) /\ slots'[i] = slots[i]
    BY <1>2, Zenon DEF SlotHolders, acquireSlot, TypeOK
  <2> QED
    BY <1>1, <2>1, Zenon
<1>3. CASE i = owner[q]
  <2>1. SlotHolders(i)' = SlotHolders(i) \cup {q} /\ q \notin SlotHolders(i)
    BY <1>3 DEF SlotHolders
  <2>2. IsFiniteSet(SlotHolders(i))
    BY QueriesFinite, FS_Subset, Zenon DEF SlotHolders
  <2>3. Cardinality(SlotHolders(i) \cup {q}) = Cardinality(SlotHolders(i)) + 1
    BY <2>1, <2>2, FS_AddElement, ZenonT(20)
  <2>4. slots'[i] = slots[i] + 1 /\ slots[i] < MaxSlots
    BY <1>1, <1>3, SMTT(20) DEF acquireSlot, SlotFree, TypeOK
  <2>5. slots'[i] = Cardinality(SlotHolders(i)')
    BY <1>1, <2>1, <2>3, <2>4, Zenon
  <2>6. ASSUME NEW n \in Nat, n < MaxSlots PROVE n + 1 <= MaxSlots
    BY <1>1, <2>6, SMTT(20)
  <2>7. slots'[i] <= MaxSlots
    BY <1>1, <2>4, <2>6, Zenon
  <2> QED
    BY <2>5, <2>7, Zenon
<1> QED
  BY <1>2, <1>3, Zenon

(* One query fewer holds a slot: one holder fewer. *)
LEMMA HolderRemoved ==
  ASSUME TypeOK, SlotsBalanced, NEW q \in Query, pc[q] \in HoldsSlot, pc'[q] \notin HoldsSlot,
         \A p \in Query \ {q} : pc'[p] = pc[p], UNCHANGED owner,
         releaseSlot(owner[q])
  PROVE  SlotsBalanced'
<1> SUFFICES ASSUME MaxSlots > 0, NEW i \in Instance
             PROVE  slots'[i] = Cardinality(SlotHolders(i)') /\ slots'[i] <= MaxSlots
  BY Zenon DEF SlotsBalanced
<1>1. /\ slots[i] = Cardinality(SlotHolders(i)) /\ slots[i] <= MaxSlots
      /\ slots[i] \in Nat /\ MaxSlots \in Nat
  BY SlotsNat, Zenon DEF SlotsBalanced, TypeOK
<1>2. CASE i # owner[q]
  <2>1. SlotHolders(i)' = SlotHolders(i) /\ slots'[i] = slots[i]
    BY <1>2, Zenon DEF SlotHolders, releaseSlot, TypeOK
  <2> QED
    BY <1>1, <2>1, Zenon
<1>3. CASE i = owner[q]
  <2>1. SlotHolders(i)' = SlotHolders(i) \ {q} /\ q \in SlotHolders(i)
    BY <1>3, SMTT(20) DEF SlotHolders
  <2>2. IsFiniteSet(SlotHolders(i))
    BY QueriesFinite, FS_Subset, Zenon DEF SlotHolders
  <2>3. /\ Cardinality(SlotHolders(i) \ {q}) = Cardinality(SlotHolders(i)) - 1
        /\ Cardinality(SlotHolders(i) \ {q}) \in Nat
    BY <2>1, <2>2, FS_RemoveElement, FS_CardinalityType, Zenon
  <2>4. slots[i] # 0 => slots'[i] = slots[i] - 1
    BY <1>3, Zenon DEF releaseSlot, TypeOK
  <2>5. Cardinality(SlotHolders(i)') = slots[i] - 1 /\ slots[i] - 1 \in Nat
    BY <1>1, <2>1, <2>3, Zenon
  <2> QED
    BY <1>1, <2>4, <2>5, SMTT(20)
<1> QED
  BY <1>2, <1>3, Zenon

(* Every step keeps the slots taken and their holders equal in number. *)
LEMMA NextSlots ==
  ASSUME IInv, SlotsBalanced, [Next]_vars
  PROVE  SlotsBalanced'
<1>0. TypeOK
  BY Zenon DEF IInv
<1>t. pc \in [Query -> PCs]
  BY <1>0, Zenon DEF TypeOK
<1>1. CASE UNCHANGED vars
  BY <1>1, HoldersKept, Zenon DEF vars, runVars
<1>2. ASSUME NEW q \in Query, Submission(q) PROVE SlotsBalanced'
  <2>1. CASE AcquireSlot(q)
    <3>1. CASE SlotFree(owner[q]) /\ acquireSlot(owner[q]) /\ Goto(q, "slotted")
      BY <1>0, <1>t, <2>1, <3>1, HolderAdded, Zenon DEF AcquireSlot, Goto, HoldsSlot, Registered
    <3>2. CASE Goto(q, "refused") /\ UNCHANGED slots
      BY <1>0, <1>t, <2>1, <3>2, HoldersKept, Zenon DEF AcquireSlot, Goto, HoldsSlot, Registered
    <3> QED
      BY <2>1, <3>1, <3>2, Zenon DEF AcquireSlot
  <2>2. CASE Admit(q)
    <3>1. CASE Goto(q, "admitted") /\ UNCHANGED slots
      BY <1>0, <1>t, <2>2, <3>1, HoldersKept, Zenon DEF Admit, Goto, HoldsSlot, Registered
    <3>2. CASE releaseSlot(owner[q]) /\ Goto(q, "refused")
      BY <1>0, <1>t, <2>2, <3>2, HolderRemoved, Zenon DEF Admit, Goto, HoldsSlot, Registered
    <3> QED
      BY <2>2, <3>1, <3>2, Zenon DEF Admit
  <2>3. CASE PersistPending(q)
    <3>1. CASE Goto(q, "stored") /\ UNCHANGED slots
      BY <1>0, <1>t, <2>3, <3>1, HoldersKept, Zenon DEF PersistPending, Goto, HoldsSlot, Registered
    <3>2. CASE releaseSlot(owner[q]) /\ Goto(q, "refused")
      BY <1>0, <1>t, <2>3, <3>2, HolderRemoved, Zenon
        DEF PersistPending, Goto, HoldsSlot, Registered
    <3> QED
      BY <2>3, <3>1, <3>2, Zenon DEF PersistPending
  <2>4. CASE Launch(q)
    BY <1>0, <1>t, <2>4, HoldersKept, Zenon DEF Launch, Goto, HoldsSlot, Registered
  <2> QED
    BY <1>2, <2>1, <2>2, <2>3, <2>4, Zenon DEF Submission
<1>3. ASSUME NEW q \in Query, Run(q) PROVE SlotsBalanced'
  <2>1. CASE Leave(q)
    BY <1>0, <1>t, <2>1, HolderRemoved, Zenon DEF Leave, Goto, HoldsSlot, Registered
  <2>2. CASE MarkRunning(q) \/ MarkTerminal(q)
    BY <1>0, <1>t, <2>2, HoldersKept, Zenon
    DEF MarkRunning, MarkTerminal, persist, Goto, HoldsSlot, Registered
  <2>3. CASE ExecQuery(q) \/ Discard(q)
    BY <1>0, <1>t, <2>3, HoldersKept, Zenon
    DEF ExecQuery, Discard, finishRun, Goto, HoldsSlot, Registered
  <2>4. CASE OpenWriter(q) \/ ReportProgress(q) \/ FinishStream(q)
    BY <1>0, <1>t, <2>4, HoldersKept, Zenon
    DEF OpenWriter, ReportProgress, FinishStream, finishRun, Goto, HoldsSlot, Registered
  <2> QED
    BY <1>3, <2>1, <2>2, <2>3, <2>4, Zenon DEF Run
<1>4. ASSUME NEW q \in Query, QueryStep(q) PROVE SlotsBalanced'
  BY <1>2, <1>3, <1>4, HoldersKept, Zenon
  DEF QueryStep, ReceiveStop, DeadlineExceeded, LeaseExpires, GracePasses, runVars
<1>5. ASSUME NEW i \in Instance, ProcessEnds(i) PROVE SlotsBalanced'
  <2> SUFFICES ASSUME MaxSlots > 0, NEW j \in Instance
               PROVE  slots'[j] = Cardinality(SlotHolders(j)') /\ slots'[j] <= MaxSlots
    BY Zenon DEF SlotsBalanced
  <2>1. CASE j = i
    <3>1. SlotHolders(j)' = {} /\ slots'[j] = 0
      BY <1>0, <1>5, <2>1, Zenon DEF ProcessEnds, SlotHolders, TypeOK, HoldsSlot, Registered
    <3> QED
      BY <3>1, FS_EmptySet, SlotsNat
  <2>2. CASE j # i
    <3>1. SlotHolders(j)' = SlotHolders(j) /\ slots'[j] = slots[j]
      BY <1>0, <1>5, <2>2, Zenon DEF ProcessEnds, SlotHolders, TypeOK
    <3> QED
      BY <3>1, Zenon DEF SlotsBalanced
  <2> QED
    BY <2>1, <2>2, Zenon
<1>6. ASSUME NEW i \in Instance, InstanceStep(i) PROVE SlotsBalanced'
  <2>1. CASE Exit(i) \/ Crash(i)
    BY <1>5, <2>1, Zenon DEF Exit, Crash
  <2>2. CASE CollectActive(i) \/ Heartbeat(i) \/ ListStale(i)
    BY <2>2, HoldersKept, Zenon DEF CollectActive, Heartbeat, ListStale, runVars
  <2>3. CASE Drain(i) \/ Close(i) \/ CancelWorkers(i)
    BY <2>3, HoldersKept, Zenon DEF Drain, Close, CancelWorkers, runVars
  <2>4. CASE Restart(i) \/ RecoverOrphans(i)
    BY <2>4, HoldersKept, Zenon DEF Restart, RecoverOrphans, runVars
  <2> QED
    BY <1>6, <2>1, <2>2, <2>3, <2>4, Zenon DEF InstanceStep
<1>7. ASSUME NEW i \in Instance, NEW q \in Query, StopQuery(i, q) \/ ReapStale(i, q) \/ SkipStale(i, q)
      PROVE  SlotsBalanced'
  BY <1>7, HoldersKept, Zenon DEF StopQuery, ReapStale, SkipStale, runVars
<1> QED
  BY <1>1, <1>4, <1>6, <1>7, Zenon DEF Next

(* The slot semaphore counts exactly the queries that hold a slot, on every *)
(* path of SubmitQuery and run() and across crashes.                        *)
THEOREM SlotsAlwaysBalanced == Spec => []SlotsBalanced
<1>1. Init => IInv /\ SlotsBalanced
  <2> SUFFICES ASSUME Init, NEW i \in Instance
               PROVE  slots[i] = Cardinality(SlotHolders(i)) /\ (MaxSlots > 0 => slots[i] <= MaxSlots)
    BY InitIInv, Zenon DEF SlotsBalanced
  <2>1. SlotHolders(i) = {} /\ slots[i] = 0
    BY Zenon DEF Init, SlotHolders, HoldsSlot, Registered
  <2> QED
    BY <2>1, FS_EmptySet, SlotsNat
<1>2. IInv /\ SlotsBalanced /\ [Next]_vars => IInv' /\ SlotsBalanced'
  BY NextIInv, NextSlots, Zenon
<1> QED
  BY <1>1, <1>2, PTL DEF Spec
=============================================================================
