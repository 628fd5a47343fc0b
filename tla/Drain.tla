------------------------------- MODULE Drain -------------------------------
(***************************************************************************)
(* Shutting one instance down: the lifecycle state, the admission gate,    *)
(* the drain loop of cmd/dbbridge and the can-stop probe of the service,   *)
(* interleaved with submissions and runs of queries.                       *)
(*                                                                         *)
(* CountInFlight reads the registry first and the store after it, and its  *)
(* result is applied to the lifecycle later still: three steps, taken by   *)
(* the drain loop and by any number of probes at once.                     *)
(***************************************************************************)
EXTENDS Naturals, FiniteSets

CONSTANTS
  Query,   \* queries submitted to this instance, or left behind by its last process
  Probe,   \* concurrent calls of CanIBeStopped
  Loop     \* the drain loop, the other caller of CountInFlight

ASSUME QueriesFinite == IsFiniteSet(Query)
ASSUME LoopIsNoProbe == Loop \notin Probe

Caller == Probe \cup {Loop}

VARIABLES
  lifecycle,   \* lifecycle.Manager.state
  draining,    \* qm.draining
  activeReg,   \* qm.activeReg
  index,       \* the queries the store counts as in flight for this instance
  stage,       \* where each query is
  step,        \* where each caller is in CountInFlight
  inFlight,    \* the count each caller has so far
  storeOK,     \* whether the store answered that caller
  since,       \* whether the count began after Drain
  term,        \* where the shutdown sequence is
  late,        \* shutdownDeadline has passed
  outcome,     \* how the drain loop ended
  canceled     \* queries canceled by Close

queryVars == <<activeReg, index, stage>>
countVars == <<step, inFlight, storeOK, since>>
termVars == <<term, late, outcome, canceled>>
drainVars == <<lifecycle, draining, queryVars, countVars, termVars>>

Lifecycle == {"SERVING", "DRAINING", "STOPPABLE"}
Registered == {"admitted", "running", "settled"}

DrainInit ==
  /\ lifecycle = "SERVING"
  /\ draining = FALSE
  /\ activeReg = {}
  /\ index \in SUBSET Query
  /\ stage = [q \in Query |-> IF q \in index THEN "ended" ELSE "new"]
  /\ step = [c \in Caller |-> "idle"]
  /\ inFlight = [c \in Caller |-> 0]
  /\ storeOK = [c \in Caller |-> FALSE]
  /\ since = [c \in Caller |-> FALSE]
  /\ term = "serving"
  /\ late = FALSE
  /\ outcome = "none"
  /\ canceled = {}

-----------------------------------------------------------------------------
(* Submissions and runs.                                                   *)

IsDraining == lifecycle \in {"DRAINING", "STOPPABLE"}

Goto(q, l) == stage' = [stage EXCEPT ![q] = l]

(* StartQuery looks at the lifecycle before it calls SubmitQuery. *)
StartQuery(q) ==
  /\ term # "exited"
  /\ stage[q] = "new"
  /\ Goto(q, IF IsDraining THEN "ended" ELSE "accepted")
  /\ UNCHANGED <<lifecycle, draining, activeReg, index, countVars, termVars>>

(* Mutant of Admit: the gate is the lifecycle check of StartQuery alone. *)
AdmitUngated(q) ==
  /\ term # "exited"
  /\ stage[q] = "accepted"
  /\ Goto(q, "admitted")
  /\ activeReg' = activeReg \cup {q}
  /\ UNCHANGED <<lifecycle, draining, index, countVars, termVars>>

(* admit: the draining flag and the registry, under one mutex. *)
Admit(q) ==
  /\ term # "exited"
  /\ stage[q] = "accepted"
  /\ \/ draining /\ Goto(q, "ended") /\ UNCHANGED activeReg
     \/ ~draining /\ Goto(q, "admitted") /\ activeReg' = activeReg \cup {q}
  /\ UNCHANGED <<lifecycle, draining, index, countVars, termVars>>

(* The PENDING record.  When the call fails it may have been stored all    *)
(* the same, and the admission is rolled back.                             *)
PersistPending(q) ==
  /\ term # "exited"
  /\ stage[q] = "admitted"
  /\ \/ index' = index \cup {q} /\ Goto(q, "running") /\ UNCHANGED activeReg
     \/ index' \in {index, index \cup {q}} /\ Goto(q, "ended") /\ activeReg' = activeReg \ {q}
  /\ UNCHANGED <<lifecycle, draining, countVars, termVars>>

(* The terminal write, given up after some failures. *)
Complete(q) ==
  /\ term # "exited"
  /\ stage[q] = "running"
  /\ index' \in {index, index \ {q}}
  /\ Goto(q, "settled")
  /\ UNCHANGED <<lifecycle, draining, activeReg, countVars, termVars>>

Deregister(q) ==
  /\ term # "exited"
  /\ stage[q] = "settled"
  /\ activeReg' = activeReg \ {q}
  /\ Goto(q, "ended")
  /\ UNCHANGED <<lifecycle, draining, index, countVars, termVars>>

(* The reaper of another instance fails a record this one no longer serves. *)
ReapOrphan(q) ==
  /\ q \in index
  /\ index' = index \ {q}
  /\ UNCHANGED <<lifecycle, draining, activeReg, stage, countVars, termVars>>

-----------------------------------------------------------------------------
(* CountInFlight and the lifecycle.                                        *)

CountLocal(c) ==
  /\ term \in IF c = Loop THEN {"polling"} ELSE {"serving", "signaled", "polling", "stopping"}
  /\ step[c] \in {"idle", "answered"}
  /\ step' = [step EXCEPT ![c] = "local"]
  /\ inFlight' = [inFlight EXCEPT ![c] = Cardinality(activeReg)]
  /\ since' = [since EXCEPT ![c] = draining]
  /\ storeOK' = [storeOK EXCEPT ![c] = FALSE]
  /\ UNCHANGED <<lifecycle, draining, queryVars, termVars>>

(* Mutant of larger: the store's figure replaces the local one. *)
latter(m, n) == n

(* The builtin max of CountInFlight. *)
larger(m, n) == IF m >= n THEN m ELSE n

(* The larger of the two, or the local one when the store does not answer. *)
CountStore(c) ==
  /\ term # "exited"
  /\ step[c] = "local"
  /\ step' = [step EXCEPT ![c] = "total"]
  /\ \/ /\ inFlight' = [inFlight EXCEPT ![c] = larger(@, Cardinality(index))]
        /\ storeOK' = [storeOK EXCEPT ![c] = TRUE]
     \/ UNCHANGED <<inFlight, storeOK>>
  /\ UNCHANGED <<lifecycle, draining, since, queryVars, termVars>>

Advance(n) ==
  lifecycle' = CASE lifecycle = "DRAINING" /\ n = 0 -> "STOPPABLE"
                 [] lifecycle = "STOPPABLE" /\ n > 0 -> "DRAINING"
                 [] OTHER -> lifecycle

(* CanIBeStopped answers; the answer is inFlight[p] = 0. *)
CanIBeStopped(p) ==
  /\ term # "exited"
  /\ step[p] = "total"
  /\ Advance(inFlight[p])
  /\ step' = [step EXCEPT ![p] = "answered"]
  /\ UNCHANGED <<draining, inFlight, storeOK, since, queryVars, termVars>>

-----------------------------------------------------------------------------
(* The shutdown sequence.                                                  *)

Signal ==
  /\ term = "serving"
  /\ term' = "signaled"
  /\ lifecycle' = "DRAINING"
  /\ UNCHANGED <<draining, queryVars, countVars, late, outcome, canceled>>

CloseAdmission ==
  /\ term = "signaled"
  /\ term' = "polling"
  /\ draining' = TRUE
  /\ UNCHANGED <<lifecycle, queryVars, countVars, late, outcome, canceled>>

DeadlinePasses ==
  /\ term = "polling"
  /\ ~late
  /\ late' = TRUE
  /\ UNCHANGED <<lifecycle, draining, queryVars, countVars, term, outcome, canceled>>

(* Mutant of DrainTurn: the loop polls until it sees zero, deadline or not. *)
DrainTurnPatient ==
  /\ step[Loop] = "total"
  /\ Advance(inFlight[Loop])
  /\ step' = [step EXCEPT ![Loop] = "idle"]
  /\ \/ inFlight[Loop] = 0 /\ outcome' = "quiesced" /\ term' = "stopping"
     \/ inFlight[Loop] > 0 /\ UNCHANGED <<outcome, term>>
  /\ UNCHANGED <<draining, inFlight, storeOK, since, queryVars, late, canceled>>

(* One turn of the drain loop, after its count. *)
DrainTurn ==
  /\ step[Loop] = "total"
  /\ Advance(inFlight[Loop])
  /\ step' = [step EXCEPT ![Loop] = "idle"]
  /\ \/ inFlight[Loop] = 0 /\ outcome' = "quiesced" /\ term' = "stopping"
     \/ inFlight[Loop] > 0 /\ late /\ outcome' = "forced" /\ term' = "stopping"
     \/ inFlight[Loop] > 0 /\ ~late /\ UNCHANGED <<outcome, term>>
  /\ UNCHANGED <<draining, inFlight, storeOK, since, queryVars, late, canceled>>

(* stopServers: handlers still running after 10s are not waited for. *)
StopServers ==
  /\ term = "stopping"
  /\ term' = "closing"
  /\ UNCHANGED <<lifecycle, draining, queryVars, countVars, late, outcome, canceled>>

(* Close: Drain and cancelActive, ... *)
CancelActive ==
  /\ term = "closing"
  /\ term' = "waiting"
  /\ draining' = TRUE
  /\ canceled' = activeReg
  /\ UNCHANGED <<lifecycle, queryVars, countVars, late, outcome>>

(* ... then waitFor, which gives up after queryCloseTimeout. *)
Exit ==
  /\ term = "waiting"
  /\ term' = "exited"
  /\ UNCHANGED <<lifecycle, draining, queryVars, countVars, late, outcome, canceled>>

-----------------------------------------------------------------------------
QueryStep(q) ==
  StartQuery(q) \/ Admit(q) \/ PersistPending(q) \/ Complete(q) \/ Deregister(q) \/ ReapOrphan(q)

Shutdown ==
  Signal \/ CloseAdmission \/ DeadlinePasses \/ DrainTurn \/ StopServers \/ CancelActive \/ Exit

DrainNext ==
  \/ \E q \in Query : QueryStep(q)
  \/ \E c \in Caller : CountLocal(c) \/ CountStore(c)
  \/ \E p \in Probe : CanIBeStopped(p)
  \/ Shutdown

DrainSpec == DrainInit /\ [][DrainNext]_drainVars

(* Once a signal has come, the shutdown sequence keeps going: its calls    *)
(* and waits are bounded, and the deadline passes.  Nothing is assumed of  *)
(* queries, which may run for ever, of probes or of the store's answers.   *)
DrainFairness ==
  /\ WF_drainVars(CloseAdmission \/ StopServers \/ CancelActive \/ Exit)
  /\ WF_drainVars(CountLocal(Loop) \/ CountStore(Loop) \/ DrainTurn)
  /\ WF_drainVars(DeadlinePasses)

DrainFairSpec == DrainSpec /\ DrainFairness

-----------------------------------------------------------------------------
(* Every variable keeps its type. *)
DrainTypeOK ==
  /\ lifecycle \in Lifecycle
  /\ draining \in BOOLEAN
  /\ activeReg \subseteq Query
  /\ index \subseteq Query
  /\ stage \in [Query -> Registered \cup {"new", "accepted", "ended"}]
  /\ step \in [Caller -> {"idle", "local", "total", "answered"}]
  /\ inFlight \in [Caller -> Nat]
  /\ storeOK \in [Caller -> BOOLEAN]
  /\ since \in [Caller -> BOOLEAN]
  /\ term \in {"serving", "signaled", "polling", "stopping", "closing", "waiting", "exited"}
  /\ late \in BOOLEAN
  /\ outcome \in {"none", "quiesced", "forced"}
  /\ canceled \subseteq Query

(***************************************************************************)
(* Drain(): "Once it returns, no further query can enter the local         *)
(* registry, so a subsequent CountInFlight of zero really means quiesced". *)
(* After the drain loop has ended on a zero, nothing is or ever gets       *)
(* registered, nothing is left in the store if the store was asked, and    *)
(* Close has no query to cancel.                                           *)
(***************************************************************************)
QuiescedStaysQuiet ==
  outcome = "quiesced" =>
    /\ activeReg = {}
    /\ storeOK[Loop] => index = {}
    /\ canceled = {}

(***************************************************************************)
(* I5, for a probe whose count began after Drain: can_be_stopped = true    *)
(* means that nothing is in flight, when it answers and ever after.        *)
(***************************************************************************)
StopAnswerIsSound ==
  \A p \in Probe : step[p] = "answered" /\ since[p] /\ inFlight[p] = 0 =>
    activeReg = {} /\ (storeOK[p] => index = {})

(***************************************************************************)
(* The inductive invariant behind the two.  The registry is exactly the    *)
(* queries between admit and deregister.  A count that began after Drain   *)
(* and is still zero says so for good: the registry is empty and closed,   *)
(* and the store's index gains nothing without a registered query.         *)
(***************************************************************************)
RegistryExact == activeReg = {q \in Query : stage[q] \in Registered}

AdmissionClosed == term \notin {"serving", "signaled"} => draining

CountSound(c) ==
  /\ since[c] => draining
  /\ since[c] /\ step[c] # "idle" /\ inFlight[c] = 0 =>
       activeReg = {} /\ (storeOK[c] => index = {})

LoopCounts ==
  /\ step[Loop] # "idle" => since[Loop] /\ term = "polling"
  /\ outcome = "none" <=> term \in {"serving", "signaled", "polling"}
  /\ term \notin {"waiting", "exited"} => canceled = {}

IInv ==
  /\ DrainTypeOK
  /\ RegistryExact
  /\ AdmissionClosed
  /\ \A c \in Caller : CountSound(c)
  /\ LoopCounts
  /\ QuiescedStaysQuiet

(* The shutdown a signal starts comes to its end, whatever queries do. *)
ShutdownEnds == term = "signaled" ~> term = "exited"
=============================================================================
