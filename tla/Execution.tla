----------------------------- MODULE Execution -----------------------------
(***************************************************************************)
(* The execution core of internal/core/manager: what several dbbridge      *)
(* instances do to the shared query records.  A query is admitted by one   *)
(* instance, runs in a goroutine of it, and is watched over by heartbeats, *)
(* leases and the owner reapers of the other instances.  Processes crash,  *)
(* close and restart; store writes fail, with or without taking effect.    *)
(*                                                                         *)
(* Each action is one step between two points at which another process or  *)
(* goroutine can interfere: a store call, a database or storage call, or a *)
(* critical section.  The goroutine of a query is at pc[q].                *)
(***************************************************************************)
EXTENDS MetaStore, Naturals, FiniteSets

CONSTANTS
  Instance,          \* instance ids
  MaxSlots,          \* defaults.max_concurrent_queries, 0 means unlimited
  PersistAttempts,   \* terminalPersistAttempts
  MaxEnds            \* bound: how many times a process crashes or is closed

ASSUME InstancesFinite == IsFiniteSet(Instance)
ASSUME QueriesFinite == IsFiniteSet(Query)
ASSUME SlotsNat == MaxSlots \in Nat
ASSUME AttemptsPositive == PersistAttempts \in Nat \ {0}
ASSUME EndsNat == MaxEnds \in Nat

VARIABLES
  phase,      \* of each process: "down", "recovering", "up", "closing", "canceled"
  draining,   \* qm.draining
  activeReg,  \* qm.activeReg, the ids registered by each instance
  slots,      \* len(qm.slots)
  owner,      \* OwnerInstanceID: the instance a query's submission is routed to
  pc,         \* where the submission, then the run goroutine, of a query is
  local,      \* the run goroutine's *record
  ctx,        \* Err() of the query's execution context
  failures,   \* failed attempts of the persist loop in progress
  object,     \* the stored result: "none", "partial" or "complete"
  aged,       \* queries older than the reaper's grace period
  beat,       \* ids heartbeatWorker has collected and not yet sent
  stale,      \* ids reapStaleOwners has listed and not yet visited
  control,    \* stop requests published and not yet received by the owner
  ends        \* crashes and closes so far

procVars == <<phase, draining, beat, stale, ends>>
runVars == <<pc, local, ctx, failures, object, activeReg, slots>>
vars == <<storeVars, procVars, runVars, owner, aged, control>>

Phases == {"down", "recovering", "up", "closing", "canceled"}

(* A query holds a slot, and a registry entry, while its goroutine is at: *)
Registered == {"admitted", "stored", "markRunning", "exec", "open", "stream",
               "lost", "discard", "markTerminal", "settled", "gaveUp"}
HoldsSlot == Registered \cup {"slotted"}

(* ... and at these it has ended, in this order: rejected without a trace, *)
(* verdict recorded, verdict not recorded, process died.                   *)
Ended == {"refused", "done", "abandoned", "gone"}

PCs == {"new"} \cup HoldsSlot \cup Ended

(* Background workers run until qm.ctx is canceled; requests are served    *)
(* once NewQueryManager has returned.                                      *)
WorkersRun(i) == phase[i] \in {"up", "closing"}
Serving(i) == phase[i] \in {"up", "closing", "canceled"}

Init ==
  /\ queries = [q \in Query |-> NoRecord]
  /\ leases = {}
  /\ phase = [i \in Instance |-> "up"]
  /\ draining = [i \in Instance |-> FALSE]
  /\ activeReg = [i \in Instance |-> {}]
  /\ slots = [i \in Instance |-> 0]
  /\ owner \in [Query -> Instance]
  /\ pc = [q \in Query |-> "new"]
  /\ local = [q \in Query |-> NoRecord]
  /\ ctx = [q \in Query |-> "live"]
  /\ failures = [q \in Query |-> 0]
  /\ object = [q \in Query |-> "none"]
  /\ aged = {}
  /\ beat = [i \in Instance |-> {}]
  /\ stale = [i \in Instance |-> {}]
  /\ control = {}
  /\ ends = 0

-----------------------------------------------------------------------------
(* The slots channel: a counting semaphore that is never waited for.       *)

SlotFree(i) == MaxSlots = 0 \/ slots[i] < MaxSlots

acquireSlot(i) == slots' = [slots EXCEPT ![i] = IF MaxSlots = 0 THEN @ ELSE @ + 1]

releaseSlot(i) == slots' = [slots EXCEPT ![i] = IF @ = 0 THEN @ ELSE @ - 1]

(* The registry of the owner, under activeRegMu. *)
register(q) == activeReg' = [activeReg EXCEPT ![owner[q]] = @ \cup {q}]

deregister(q) == activeReg' = [activeReg EXCEPT ![owner[q]] = @ \ {q}]

Goto(q, l) == pc' = [pc EXCEPT ![q] = l]

-----------------------------------------------------------------------------
(* SubmitQuery, from the point where it has side effects on execution.     *)

AcquireSlot(q) ==
  /\ pc[q] = "new"
  /\ Serving(owner[q])
  /\ \/ SlotFree(owner[q]) /\ acquireSlot(owner[q]) /\ Goto(q, "slotted")
     \/ ~SlotFree(owner[q]) /\ Goto(q, "refused") /\ UNCHANGED slots
  /\ UNCHANGED <<storeVars, procVars, local, ctx, failures, object, activeReg,
                 owner, aged, control>>

(* Mutant of Admit: a refused admission keeps its slot. *)
AdmitLeaksSlot(q) ==
  /\ pc[q] = "slotted"
  /\ \/ ~draining[owner[q]] /\ register(q) /\ Goto(q, "admitted")
     \/ draining[owner[q]] /\ Goto(q, "refused") /\ UNCHANGED activeReg
  /\ UNCHANGED <<storeVars, procVars, local, ctx, failures, object, slots, owner, aged, control>>

(* admit: registration and the draining check are one critical section. *)
Admit(q) ==
  /\ pc[q] = "slotted"
  /\ \/ ~draining[owner[q]] /\ register(q) /\ Goto(q, "admitted") /\ UNCHANGED slots
     \/ draining[owner[q]] /\ releaseSlot(owner[q]) /\ Goto(q, "refused")
        /\ UNCHANGED activeReg
  /\ UNCHANGED <<storeVars, procVars, local, ctx, failures, object, owner, aged, control>>

(* The PENDING record.  An error rolls the admission back. *)
PersistPending(q) ==
  LET rec == Record("PENDING", "none") IN
  /\ pc[q] = "admitted"
  /\ \/ /\ PutQuery(q, rec)
        /\ local' = [local EXCEPT ![q] = rec]
        /\ Goto(q, "stored")
        /\ UNCHANGED <<activeReg, slots>>
     \/ /\ PutQueryError(q, rec)
        /\ deregister(q)
        /\ releaseSlot(owner[q])
        /\ Goto(q, "refused")
        /\ UNCHANGED local
  /\ UNCHANGED <<procVars, ctx, failures, object, owner, aged, control>>

(* The first lease is claimed (an error is only logged) and run() starts:  *)
(* it turns its copy of the record to RUNNING.                             *)
Launch(q) ==
  /\ pc[q] = "stored"
  /\ HeartbeatLeases({q}) \/ UNCHANGED storeVars
  /\ IF CanTransitionTo(local[q].state, "RUNNING")
     THEN local' = [local EXCEPT ![q].state = "RUNNING"] /\ Goto(q, "markRunning")
     ELSE Goto(q, "gaveUp") /\ UNCHANGED local
  /\ UNCHANGED <<procVars, ctx, failures, object, activeReg, slots, owner, aged, control>>

-----------------------------------------------------------------------------
(* run().                                                                  *)

(***************************************************************************)
(* One attempt of persist(): an unconditional PutQuery of the local        *)
(* record.  It is repeated until it succeeds, the attempts are used up, or *)
(* the manager's context is canceled.  ok and giveUp are where it leads.   *)
(***************************************************************************)
persist(q, ok, giveUp) ==
  LET last == failures[q] + 1 = PersistAttempts \/ phase[owner[q]] = "canceled" IN
  /\ \/ /\ PutQuery(q, local[q])
        /\ Goto(q, ok)
        /\ failures' = [failures EXCEPT ![q] = 0]
     \/ /\ PutQueryError(q, local[q])
        /\ IF last
           THEN Goto(q, giveUp) /\ failures' = [failures EXCEPT ![q] = 0]
           ELSE failures' = [failures EXCEPT ![q] = @ + 1] /\ UNCHANGED pc
  /\ UNCHANGED <<procVars, local, ctx, object, activeReg, slots, owner, aged, control>>

(* finishRun and the head of complete: the verdict enters the local record. *)
finishRun(q, verdict) ==
  IF CanTransitionTo(local[q].state, verdict.state)
  THEN local' = [local EXCEPT ![q] = verdict] /\ Goto(q, "markTerminal")
  ELSE Goto(q, "gaveUp") /\ UNCHANGED local

(* Failing to record RUNNING is not fatal. *)
MarkRunning(q) == pc[q] = "markRunning" /\ persist(q, "exec", "exec")

(* pool.Exec *)
ExecQuery(q) ==
  /\ pc[q] = "exec"
  /\ \/ Goto(q, "open") /\ UNCHANGED local
     \/ \E err \in {"other", ctx[q]} : finishRun(q, terminalFor(ctx[q], err))
  /\ UNCHANGED <<storeVars, procVars, ctx, failures, object, activeReg, slots,
                 owner, aged, control>>

(* storage.GetStore and store.Writer: their errors are FAILED, whatever ctx. *)
OpenWriter(q) ==
  /\ pc[q] = "open"
  /\ \/ /\ Goto(q, "stream")
        /\ object' = [object EXCEPT ![q] = "partial"]
        /\ UNCHANGED local
     \/ finishRun(q, Record("FAILED", "failed")) /\ UNCHANGED object
  /\ UNCHANGED <<storeVars, procVars, ctx, failures, activeReg, slots, owner, aged, control>>

(***************************************************************************)
(* The progress writer: a snapshot of the RUNNING record, fenced on the    *)
(* record still being RUNNING.  When it is not, progress reports end.      *)
(***************************************************************************)
ReportProgress(q) ==
  /\ pc[q] = "stream"
  /\ UpdateQueryIfState(q, local[q], {"RUNNING"})
  /\ IF queries[q].state = "RUNNING" \/ ~Exists(q) THEN UNCHANGED pc ELSE Goto(q, "lost")
  /\ UNCHANGED <<procVars, local, ctx, failures, object, activeReg, slots,
                 owner, aged, control>>

(* Mutant of FinishStream: the error of writer.Close is dropped. *)
FinishStreamIgnoringClose(q) ==
  /\ pc[q] \in {"stream", "lost"}
  /\ \/ /\ \E o \in {"partial", "complete"} : object' = [object EXCEPT ![q] = o]
        /\ finishRun(q, [state |-> "SUCCEEDED", result |-> TRUE, error |-> "none"])
     \/ Goto(q, "discard") /\ UNCHANGED <<object, local>>
  /\ UNCHANGED <<storeVars, procVars, ctx, failures, activeReg, slots, owner, aged, control>>

(* EncodeStream, stopReporting and writer.Close: either may fail. *)
FinishStream(q) ==
  /\ pc[q] \in {"stream", "lost"}
  /\ \/ /\ object' = [object EXCEPT ![q] = "complete"]
        /\ finishRun(q, [state |-> "SUCCEEDED", result |-> TRUE, error |-> "none"])
     \/ Goto(q, "discard") /\ UNCHANGED <<object, local>>
  /\ UNCHANGED <<storeVars, procVars, ctx, failures, activeReg, slots, owner, aged, control>>

(* deletePartial, whose error is only logged, then the verdict. *)
Discard(q) ==
  /\ pc[q] = "discard"
  /\ \E left \in {"none", object[q]} : object' = [object EXCEPT ![q] = left]
  /\ \E err \in {"other", ctx[q]} : finishRun(q, terminalFor(ctx[q], err))
  /\ UNCHANGED <<storeVars, procVars, ctx, failures, activeReg, slots, owner, aged, control>>

(* The terminal write of complete(). *)
MarkTerminal(q) == pc[q] = "markTerminal" /\ persist(q, "settled", "gaveUp")

(* Mutant of Leave: the deferred calls do not wait for the terminal write. *)
LeaveEarly(q) ==
  /\ pc[q] \in {"markTerminal", "settled", "gaveUp"}
  /\ deregister(q)
  /\ releaseSlot(owner[q])
  /\ Goto(q, IF pc[q] = "gaveUp" THEN "abandoned" ELSE "done")
  /\ UNCHANGED <<storeVars, procVars, local, ctx, failures, object, owner, aged, control>>

(* run()'s deferred calls, in their order: deregister, releaseSlot, cancelExec. *)
Leave(q) ==
  /\ pc[q] \in {"settled", "gaveUp"}
  /\ deregister(q)
  /\ releaseSlot(owner[q])
  /\ Goto(q, IF pc[q] = "settled" THEN "done" ELSE "abandoned")
  /\ UNCHANGED <<storeVars, procVars, local, ctx, failures, object, owner, aged, control>>

-----------------------------------------------------------------------------
(* Ending a query early.                                                   *)

cancelExec(Q) == ctx' = [q \in Query |-> IF q \in Q /\ ctx[q] = "live" THEN "canceled" ELSE ctx[q]]

(***************************************************************************)
(* StopQuery at instance i: a terminal query is left alone, a registered   *)
(* one is canceled on the spot, anything else is announced on the control  *)
(* channel.  The sender ignores its own announcement, so only those of     *)
(* other instances are kept in control.                                    *)
(***************************************************************************)
StopQuery(i, q) ==
  /\ Serving(i)
  /\ Active(q)
  /\ IF q \in activeReg[i]
     THEN cancelExec({q}) /\ UNCHANGED control
     ELSE control' = (IF owner[q] = i THEN control ELSE control \cup {q}) /\ UNCHANGED ctx
  /\ UNCHANGED <<storeVars, procVars, pc, local, failures, object, activeReg, slots, owner, aged>>

(* controlWorker: the owner acts on a request for a query it has registered. *)
(* Pub/Sub keeps nothing for a subscriber that is not there to receive.      *)
ReceiveStop(q) ==
  /\ q \in control
  /\ control' = control \ {q}
  /\ IF WorkersRun(owner[q]) /\ q \in activeReg[owner[q]]
     THEN cancelExec({q}) \/ UNCHANGED ctx
     ELSE UNCHANGED ctx
  /\ UNCHANGED <<storeVars, procVars, pc, local, failures, object, activeReg, slots, owner, aged>>

(* options.timeout runs out for a query whose context exists. *)
DeadlineExceeded(q) ==
  /\ pc[q] \in Registered
  /\ ctx[q] = "live"
  /\ ctx' = [ctx EXCEPT ![q] = "deadline"]
  /\ UNCHANGED <<storeVars, procVars, pc, local, failures, object, activeReg, slots,
                 owner, aged, control>>

-----------------------------------------------------------------------------
(* heartbeatWorker, lease expiry and the owner reaper.                     *)

(* The ids are collected under activeRegMu ... *)
CollectActive(i) ==
  /\ WorkersRun(i)
  /\ beat[i] = {}
  /\ beat' = [beat EXCEPT ![i] = activeReg[i]]
  /\ UNCHANGED <<storeVars, phase, draining, stale, ends, runVars, owner, aged, control>>

(* ... and sent to the store after it was released.  The call may fail. *)
Heartbeat(i) ==
  /\ WorkersRun(i)
  /\ beat[i] # {}
  /\ HeartbeatLeases(beat[i]) \/ UNCHANGED storeVars
  /\ beat' = [beat EXCEPT ![i] = {}]
  /\ UNCHANGED <<phase, draining, stale, ends, runVars, owner, aged, control>>

(* No heartbeat arrived for a whole TTL. *)
LeaseExpires(q) ==
  /\ ExpireLease(q)
  /\ UNCHANGED <<procVars, runVars, owner, aged, control>>

(* time.Since(CreatedAt) reaches 2 * heartbeatTTL. *)
GracePasses(q) ==
  /\ Exists(q)
  /\ q \notin aged
  /\ aged' = aged \cup {q}
  /\ UNCHANGED <<storeVars, procVars, runVars, owner, control>>

(* reapStaleOwners: the list is taken once, at the start of a pass ... *)
ListStale(i) ==
  /\ WorkersRun(i)
  /\ stale[i] = {}
  /\ stale' = [stale EXCEPT ![i] = ListStaleQueries]
  /\ UNCHANGED <<storeVars, phase, draining, beat, ends, runVars, owner, aged, control>>

(* What failOwnerLost makes of a record. *)
ownerLost(rec) == [state |-> "FAILED", result |-> rec.result, error |-> "owner_lost"]

(* Mutant of failOwnerLost: the verdict is written whatever the record says now. *)
failOwnerLostUnfenced(q) == PutQuery(q, ownerLost(queries[q]))

(* The verdict is fenced on the record being unfinished. *)
failOwnerLost(q) == UpdateQueryIfState(q, ownerLost(queries[q]), {"PENDING", "RUNNING"})

(* Mutant of ReapStale: the grace period is compared the wrong way round. *)
ReapStaleYoung(i, q) ==
  /\ WorkersRun(i)
  /\ q \in stale[i]
  /\ stale' = [stale EXCEPT ![i] = @ \ {q}]
  /\ IF q \notin activeReg[i] /\ Exists(q) /\ owner[q] # i /\ q \notin aged
     THEN failOwnerLost(q)
     ELSE UNCHANGED storeVars
  /\ UNCHANGED <<phase, draining, beat, ends, runVars, owner, aged, control>>

(* ... and each id of it is judged when its turn comes. *)
ReapStale(i, q) ==
  /\ WorkersRun(i)
  /\ q \in stale[i]
  /\ stale' = [stale EXCEPT ![i] = @ \ {q}]
  /\ IF q \notin activeReg[i] /\ Exists(q) /\ owner[q] # i /\ q \in aged
     THEN failOwnerLost(q)
     ELSE UNCHANGED storeVars
  /\ UNCHANGED <<phase, draining, beat, ends, runVars, owner, aged, control>>

(* A store call for one of them fails, or reapBudget is spent. *)
SkipStale(i, q) ==
  /\ WorkersRun(i)
  /\ q \in stale[i]
  /\ stale' = [stale EXCEPT ![i] = @ \ {q}]
  /\ UNCHANGED <<storeVars, phase, draining, beat, ends, runVars, owner, aged, control>>

-----------------------------------------------------------------------------
(* The life of a process.                                                  *)

(* Drain closes admission, at any time before Close does so too. *)
Drain(i) ==
  /\ phase[i] = "up"
  /\ draining' = [draining EXCEPT ![i] = TRUE]
  /\ UNCHANGED <<storeVars, phase, beat, stale, ends, runVars, owner, aged, control>>

(* Close: Drain and cancelActive, ... *)
Close(i) ==
  /\ phase[i] = "up"
  /\ ends < MaxEnds
  /\ ends' = ends + 1
  /\ phase' = [phase EXCEPT ![i] = "closing"]
  /\ draining' = [draining EXCEPT ![i] = TRUE]
  /\ cancelExec(activeReg[i])
  /\ UNCHANGED <<storeVars, beat, stale, pc, local, failures, object,
                 activeReg, slots, owner, aged, control>>

(* ... then, once waitFor returns or times out, qm.cancel: workers stop. *)
CancelWorkers(i) ==
  /\ phase[i] = "closing"
  /\ phase' = [phase EXCEPT ![i] = "canceled"]
  /\ beat' = [beat EXCEPT ![i] = {}]
  /\ stale' = [stale EXCEPT ![i] = {}]
  /\ UNCHANGED <<storeVars, draining, ends, runVars, owner, aged, control>>

(* The process is gone, and with it everything that lived in its memory. *)
ProcessEnds(i) ==
  /\ phase' = [phase EXCEPT ![i] = "down"]
  /\ draining' = [draining EXCEPT ![i] = FALSE]
  /\ activeReg' = [activeReg EXCEPT ![i] = {}]
  /\ slots' = [slots EXCEPT ![i] = 0]
  /\ beat' = [beat EXCEPT ![i] = {}]
  /\ stale' = [stale EXCEPT ![i] = {}]
  /\ pc' = [q \in Query |->
              IF owner[q] = i /\ pc[q] \in HoldsSlot THEN "gone" ELSE pc[q]]
  /\ failures' = [q \in Query |-> IF owner[q] = i THEN 0 ELSE failures[q]]
  /\ UNCHANGED <<storeVars, local, ctx, object, owner, aged, control>>

Exit(i) == phase[i] = "canceled" /\ ProcessEnds(i) /\ UNCHANGED ends

Crash(i) ==
  /\ phase[i] # "down"
  /\ ends < MaxEnds
  /\ ends' = ends + 1
  /\ ProcessEnds(i)

Restart(i) ==
  /\ phase[i] = "down"
  /\ phase' = [phase EXCEPT ![i] = "recovering"]
  /\ UNCHANGED <<storeVars, draining, beat, stale, ends, runVars, owner, aged, control>>

(* Mutant of RecoverOrphans: finished records are recovered, too. *)
RecoverEverything(i) ==
  /\ phase[i] = "recovering"
  /\ queries' = [q \in Query |->
       IF owner[q] = i /\ Exists(q) THEN ownerLost(queries[q]) ELSE queries[q]]
  /\ leases' = {q \in leases : owner[q] # i}
  /\ phase' = [phase EXCEPT ![i] = "up"]
  /\ UNCHANGED <<draining, beat, stale, ends, runVars, owner, aged, control>>

(***************************************************************************)
(* recoverOrphans, before the workers start: one pass over the records     *)
(* this instance owns.  An id whose read or write fails (a set S of them)  *)
(* is skipped, and a failed list skips them all.                           *)
(***************************************************************************)
RecoverOrphans(i) ==
  LET orphans == {q \in Query : owner[q] = i /\ Active(q)} IN
  /\ phase[i] = "recovering"
  /\ \E S \in SUBSET orphans :
       /\ queries' = [q \in Query |->
            IF q \in orphans \ S THEN ownerLost(queries[q]) ELSE queries[q]]
       /\ leases' = leases \ (orphans \ S)
  /\ phase' = [phase EXCEPT ![i] = "up"]
  /\ UNCHANGED <<draining, beat, stale, ends, runVars, owner, aged, control>>

-----------------------------------------------------------------------------
Submission(q) == AcquireSlot(q) \/ Admit(q) \/ PersistPending(q) \/ Launch(q)

Run(q) ==
  \/ MarkRunning(q) \/ ExecQuery(q) \/ OpenWriter(q) \/ ReportProgress(q)
  \/ FinishStream(q) \/ Discard(q) \/ MarkTerminal(q) \/ Leave(q)

QueryStep(q) ==
  \/ Submission(q)
  \/ Run(q)
  \/ ReceiveStop(q)
  \/ DeadlineExceeded(q)
  \/ LeaseExpires(q)
  \/ GracePasses(q)

InstanceStep(i) ==
  \/ CollectActive(i) \/ Heartbeat(i) \/ ListStale(i)
  \/ Drain(i) \/ Close(i) \/ CancelWorkers(i) \/ Exit(i) \/ Crash(i)
  \/ Restart(i) \/ RecoverOrphans(i)

Next ==
  \/ \E q \in Query : QueryStep(q)
  \/ \E i \in Instance : InstanceStep(i)
  \/ \E i \in Instance, q \in Query : StopQuery(i, q) \/ ReapStale(i, q) \/ SkipStale(i, q)

Spec == Init /\ [][Next]_vars

-----------------------------------------------------------------------------
(* Every variable keeps its type: the states the code can be in. *)
TypeOK ==
  /\ queries \in [Query -> QueryRecord \cup {NoRecord}]
  /\ leases \subseteq Query
  /\ phase \in [Instance -> Phases]
  /\ draining \in [Instance -> BOOLEAN]
  /\ activeReg \in [Instance -> SUBSET Query]
  /\ slots \in [Instance -> Nat]
  /\ owner \in [Query -> Instance]
  /\ pc \in [Query -> PCs]
  /\ local \in [Query -> QueryRecord \cup {NoRecord}]
  /\ ctx \in [Query -> CtxErr]
  /\ failures \in [Query -> 0 .. PersistAttempts - 1]
  /\ object \in [Query -> {"none", "partial", "complete"}]
  /\ aged \subseteq Query
  /\ beat \in [Instance -> SUBSET Query]
  /\ stale \in [Instance -> SUBSET Query]
  /\ control \subseteq Query
  /\ ends \in 0 .. MaxEnds

(***************************************************************************)
(* No path through SubmitQuery and run(), error paths included, leaks or   *)
(* double-releases a slot: the semaphore counts exactly the queries that   *)
(* hold one, and never more than max_concurrent_queries.                   *)
(***************************************************************************)
SlotHolders(i) == {q \in Query : owner[q] = i /\ pc[q] \in HoldsSlot}

SlotsBalanced ==
  MaxSlots > 0 =>
    \A i \in Instance : slots[i] = Cardinality(SlotHolders(i)) /\ slots[i] <= MaxSlots

(***************************************************************************)
(* A run that recorded its verdict and left stays recorded: no reaper,     *)
(* progress writer, late retry or restart changes that record afterwards.  *)
(***************************************************************************)
VerdictStands ==
  \A q \in Query : pc[q] \in {"settled", "done"} =>
    queries[q] = local[q] /\ IsTerminal(queries[q].state)

(***************************************************************************)
(* I4: whoever reads SUCCEEDED finds a ResultRef whose object was written  *)
(* completely; deletePartial never hits it.                                *)
(***************************************************************************)
SucceededIsStored ==
  \A q \in Query : queries[q].state = "SUCCEEDED" =>
    queries[q].result /\ object[q] = "complete"

(***************************************************************************)
(* The registry entry of a query is dropped only after its terminal state  *)
(* has been persisted (run(), deferred calls): an unfinished record whose  *)
(* owner is running and has it unregistered is one the owner gave up on,   *)
(* never admitted, or lost with an earlier process.                        *)
(***************************************************************************)
UnregisteredIsOver ==
  \A q \in Query :
    Active(q) /\ q \notin activeReg[owner[q]] => pc[q] \in {"refused", "abandoned", "gone"}

(***************************************************************************)
(* A verdict of the run itself is final: only owner_lost, the verdict of a *)
(* reaper, may still be replaced (by the owner's unconditional write).     *)
(***************************************************************************)
OwnVerdictIsFinal ==
  [][\A q \in Query :
       IsTerminal(queries[q].state) /\ queries[q].error # "owner_lost"
         => queries'[q] = queries[q]]_vars

(***************************************************************************)
(* spec.md, 5.4: "a reaper or a late writer must not resurrect a query     *)
(* that has already reached a terminal state".  The writes of run() are    *)
(* not fenced (persist is an unconditional PutQuery), so this does not     *)
(* hold: the owner of a query that was declared lost overwrites the        *)
(* verdict when it gets round to writing.                                  *)
(***************************************************************************)
TerminalIsFinal ==
  [][\A q \in Query : IsTerminal(queries[q].state) => queries'[q] = queries[q]]_vars

-----------------------------------------------------------------------------
(* The record of a query as readers on any instance see it. *)
Entry(rec) == IF rec.error = "owner_lost" THEN "LOST" ELSE rec.state

RecordLedger == [q \in Query |-> Entry(queries[q])]

Ledger == INSTANCE QueryLedger WITH ledger <- RecordLedger

(* Execution implements the ledger: its records move only the way readers *)
(* are promised, under crashes, failed writes and concurrent reapers.     *)
ImplementsLedger == Ledger!Spec

-----------------------------------------------------------------------------
(***************************************************************************)
(* Fairness.  A goroutine takes its next step: store calls have timeouts,  *)
(* and the database and the result storage are assumed to answer.  The     *)
(* tickers of the reaper fire, unrefreshed leases expire, closing          *)
(* processes exit (every wait in Close is bounded), and the orchestrator   *)
(* restarts a process that is down.  A reaper's store calls do not fail    *)
(* for ever (strong fairness).  Nothing is assumed of clients, heartbeats, *)
(* pub/sub or the outcome of any other store call.                         *)
(***************************************************************************)
Fairness ==
  /\ \A q \in Query :
       /\ WF_vars(Admit(q) \/ PersistPending(q) \/ Launch(q))
       /\ WF_vars(MarkRunning(q) \/ ExecQuery(q) \/ OpenWriter(q) \/ FinishStream(q)
                  \/ Discard(q) \/ MarkTerminal(q) \/ Leave(q))
       /\ WF_vars(q \notin activeReg[owner[q]] /\ LeaseExpires(q))
       /\ WF_vars(GracePasses(q))
  /\ \A i \in Instance :
       /\ WF_vars(ListStale(i))
       /\ \A q \in Query : SF_vars(ReapStale(i, q))
       /\ WF_vars(CancelWorkers(i) \/ Exit(i))
       /\ WF_vars(Restart(i) \/ RecoverOrphans(i))

FairSpec == Spec /\ Fairness

(* Every record comes to rest in a terminal state, for good: no record is  *)
(* left in RUNNING by crashes and failed writes when there is another      *)
(* instance to reap it.                                                    *)
RecordsSettle == \A q \in Query : Exists(q) ~> []IsTerminal(queries[q].state)

-----------------------------------------------------------------------------
(***************************************************************************)
(* The inductive invariant behind the safety properties: what the stored   *)
(* record of a query can be, given where its goroutine is.  Until the      *)
(* first terminal attempt it is Open (not finished, or declared lost);     *)
(* from then on it may also be the local verdict, because a failed write   *)
(* may have been applied.                                                  *)
(***************************************************************************)
Pending == Record("PENDING", "none")
Running == Record("RUNNING", "none")
Lost == Record("FAILED", "owner_lost")
Open == {Pending, Running, Lost}

OwnVerdict ==
  {rec \in QueryRecord : /\ rec.state \in {"SUCCEEDED", "FAILED", "CANCELED"}
                         /\ rec.error # "owner_lost"
                         /\ rec.result = (rec.state = "SUCCEEDED")}

RecordFits(q) ==
  /\ pc[q] \in {"new", "slotted", "admitted"} => queries[q] = NoRecord
  /\ pc[q] = "refused" => queries[q] \in Open \cup {NoRecord}
  /\ pc[q] = "stored" => local[q] = Pending /\ queries[q] \in Open
  /\ pc[q] \in {"markRunning", "exec", "open", "stream", "lost", "discard"} =>
       local[q] = Running /\ queries[q] \in Open
  /\ pc[q] \in {"markTerminal", "gaveUp", "abandoned"} =>
       local[q] \in OwnVerdict /\ queries[q] \in Open \cup {local[q]}
  /\ pc[q] \in {"settled", "done"} => local[q] \in OwnVerdict /\ queries[q] = local[q]
  /\ pc[q] = "gone" => queries[q] \in Open \cup OwnVerdict \cup {NoRecord}

ResultFits(q) ==
  /\ queries[q].state = "SUCCEEDED" => object[q] = "complete"
  /\ local[q].state = "SUCCEEDED" => object[q] = "complete"

RegistryExact ==
  \A i \in Instance : activeReg[i] = {q \in Query : owner[q] = i /\ pc[q] \in Registered}

RecordsFit == \A q \in Query : RecordFits(q) /\ ResultFits(q)

IInv == TypeOK /\ RecordsFit /\ RegistryExact
=============================================================================
