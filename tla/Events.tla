------------------------------- MODULE Events -------------------------------
(***************************************************************************)
(* The events of one query: how the manager of the owning instance and of  *)
(* a peer hand them to the subscriptions they hold (Watch, deliverEvent,   *)
(* notifyWatchers, eventPublisher, controlWorker), the synchronous         *)
(* submission that waits for the last of them, and the part of Close that  *)
(* flushes the publisher.                                                  *)
(*                                                                         *)
(* Watchers live in a map of each process, so an event reaches the         *)
(* subscriptions of the peer through a bounded queue, a publisher          *)
(* goroutine, the store's Pub/Sub, which may lose it, and the peer's       *)
(* control worker.  An event is the query state it carries.  The events in *)
(* a subscription's buffer are kept for the synchronous submission only;   *)
(* of the others the properties ask whether they end.                      *)
(***************************************************************************)
EXTENDS Subscriptions, Sequences, Functions

CONSTANTS
  Owner, Peer,    \* the two instances
  Sync,           \* the subscription of the synchronous submission; the others are held at Peer
  WatcherBuffer,  \* watcherBuffer, the capacity of a subscription's channel
  PublishBuffer,  \* eventPublishBuffer, the capacity of the publish queue
  Outcome         \* bound: the verdicts the run may reach

ASSUME BuffersHold == WatcherBuffer \in Nat \ {0} /\ PublishBuffer \in Nat \ {0}
ASSUME OutcomesEnd == Outcome # {} /\ \A s \in Outcome : CanTransitionTo("RUNNING", s) /\ IsTerminal(s)
ASSUME InstancesDiffer == Owner # Peer
ASSUME SyncIsWatcher == Sync \in Watcher

Instance == {Owner, Peer}
Remote == Watcher \ {Sync}
HeldAt(i) == IF i = Owner THEN {Sync} ELSE Remote
Other(i) == IF i = Owner THEN Peer ELSE Owner

VARIABLES
  stored,    \* the state in the stored record
  run,       \* where the submission and the run of the query are
  verdict,   \* the terminal state the run decided on
  proc,      \* the owner's process: "up", "flushing" or "hurried" (in Close), "down"
  reaped,    \* the peer's reaper has failed the record and not yet announced it
  events,    \* qm.events of each instance
  waiting,   \* terminal events whose sender waits for room in qm.events
  control,   \* the control channel of each instance
  lost,      \* a terminal announcement was lost on the way
  chan,      \* the buffered events of the synchronous submission's subscription
  seen       \* the last event the synchronous submission took

runVars == <<stored, run, verdict, proc, reaped>>
busVars == <<events, waiting, control, lost>>
subVars == <<watchVars, chan, seen>>
vars == <<runVars, busVars, subVars>>

Verdicts == {"SUCCEEDED", "FAILED", "CANCELED"}
RunAt == {"new", "pending", "launched", "running", "settled", "notified", "gone"}

Up(i) == i = Peer \/ proc # "down"

(* The query is in activeReg of its owner. *)
Registered == run \notin {"new", "gone"}

Init ==
  /\ stored = "NONE" /\ run = "new" /\ verdict = "NONE"
  /\ proc = "up" /\ reaped = FALSE
  /\ events = [i \in Instance |-> <<>>]
  /\ waiting = [i \in Instance |-> {}]
  /\ control = [i \in Instance |-> <<>>]
  /\ lost = FALSE
  /\ WatchInit
  /\ chan = <<>> /\ seen = "NONE"

-----------------------------------------------------------------------------
(* Delivery.                                                               *)

(***************************************************************************)
(* To every subscription of this process: dropped when the buffer is full; *)
(* a terminal event closes the channel all the same.                       *)
(***************************************************************************)
deliverEvent(i, s) ==
  /\ chan' = IF Sync \in HeldAt(i) \cap watchers /\ Len(chan) < WatcherBuffer
             THEN Append(chan, s) ELSE chan
  /\ IF IsTerminal(s) THEN dropWatchersLocked(HeldAt(i)) ELSE UNCHANGED <<watchers, closes>>
  /\ UNCHANGED <<wpc, current, ctxDone, seen>>

(* Mutant of notifyWatchers: a terminal event is dropped like any other. *)
notifyDropsAny(i, s) ==
  /\ deliverEvent(i, s)
  /\ events' = IF Len(events[i]) < PublishBuffer
               THEN [events EXCEPT ![i] = Append(@, s)] ELSE events
  /\ UNCHANGED <<waiting, control, lost>>

(* Locally first, then to the publisher.  The sender of a terminal event   *)
(* waits for room, that of any other event drops it.                       *)
notifyWatchers(i, s) ==
  /\ deliverEvent(i, s)
  /\ IF IsTerminal(s)
     THEN waiting' = [waiting EXCEPT ![i] = @ \cup {s}] /\ UNCHANGED events
     ELSE /\ events' = IF Len(events[i]) < PublishBuffer
                       THEN [events EXCEPT ![i] = Append(@, s)] ELSE events
          /\ UNCHANGED waiting
  /\ UNCHANGED <<control, lost>>

(* The waiting sender gets its place in the queue ... *)
EnqueueTerminal(i, s) ==
  /\ s \in waiting[i]
  /\ Len(events[i]) < PublishBuffer
  /\ events' = [events EXCEPT ![i] = Append(@, s)]
  /\ waiting' = [waiting EXCEPT ![i] = @ \ {s}]
  /\ UNCHANGED <<control, lost, runVars, subVars>>

(* ... or gives up after eventPublishTerminalWait. *)
GiveUpTerminal(i, s) ==
  /\ s \in waiting[i]
  /\ Len(events[i]) >= PublishBuffer
  /\ waiting' = [waiting EXCEPT ![i] = @ \ {s}]
  /\ lost' = TRUE
  /\ UNCHANGED <<events, control, runVars, subVars>>

(***************************************************************************)
(* publishEvent.  The store hands the message to the other instance, or    *)
(* the publication fails or is dropped on its way.  Two messages are left  *)
(* out that change nothing modelled here: the sender's own copy, which     *)
(* controlWorker skips, and progress, which opens and ends no stream.      *)
(***************************************************************************)
publishEvent(i) ==
  /\ Up(i)
  /\ events[i] # <<>>
  /\ events' = [events EXCEPT ![i] = Tail(@)]
  /\ \/ ~IsTerminal(Head(events[i])) /\ UNCHANGED <<control, lost>>
     \/ /\ IsTerminal(Head(events[i])) /\ Up(Other(i))
        /\ control' = [control EXCEPT ![Other(i)] = Append(@, Head(events[i]))]
        /\ UNCHANGED lost
     \/ IsTerminal(Head(events[i])) /\ lost' = TRUE /\ UNCHANGED control
  /\ UNCHANGED <<waiting, runVars, subVars>>

(* Mutant of controlWorker: a verdict on a query of one's own is delivered. *)
controlWorkerTrusting(i) ==
  /\ Up(i)
  /\ control[i] # <<>>
  /\ control' = [control EXCEPT ![i] = Tail(@)]
  /\ deliverEvent(i, Head(control[i]))
  /\ UNCHANGED <<events, waiting, lost, runVars>>

(* A query this instance is executing reports on itself. *)
controlWorker(i) ==
  /\ Up(i)
  /\ control[i] # <<>>
  /\ control' = [control EXCEPT ![i] = Tail(@)]
  /\ IF i = Owner /\ Registered THEN UNCHANGED subVars
     ELSE deliverEvent(i, Head(control[i]))
  /\ UNCHANGED <<events, waiting, lost, runVars>>

-----------------------------------------------------------------------------
(* The submission and the run, as far as they announce states.             *)

(* SubmitQuery stores the PENDING record of the query it has admitted and  *)
(* announces it.                                                           *)
SubmitPending ==
  /\ proc = "up" /\ run = "new"
  /\ stored' = "PENDING" /\ run' = "pending"
  /\ notifyWatchers(Owner, "PENDING")
  /\ UNCHANGED <<verdict, proc, reaped>>

SyncResolve ==
  /\ Up(Owner) /\ run = "pending"
  /\ WatchResolve(Sync, stored)
  /\ UNCHANGED <<chan, seen, runVars, busVars>>

SyncWatchFails ==
  /\ Up(Owner) /\ run = "pending"
  /\ WatchFails(Sync)
  /\ UNCHANGED <<ctxDone, chan, seen, runVars, busVars>>

SyncRegister ==
  /\ Up(Owner)
  /\ WatchRegister(Sync)
  /\ chan' = <<current[Sync]>>
  /\ UNCHANGED <<seen, runVars, busVars>>

(* Mutant of Launch: run starts before the submission is listening. *)
LaunchFirst ==
  /\ Up(Owner) /\ run = "pending" /\ wpc[Sync] # "idle"
  /\ run' = "launched"
  /\ UNCHANGED <<stored, verdict, proc, reaped, busVars, subVars>>

(* queryWG.Go: a synchronous submission is listening by now. *)
Launch ==
  /\ Up(Owner) /\ run = "pending"
  /\ wpc[Sync] \in {"watching", "released", "failed"}
  /\ run' = "launched"
  /\ UNCHANGED <<stored, verdict, proc, reaped, busVars, subVars>>

(* The RUNNING record, which may not get stored, and its announcement. *)
MarkRunning ==
  /\ Up(Owner) /\ run = "launched"
  /\ stored' \in {stored, "RUNNING"}
  /\ run' = "running"
  /\ notifyWatchers(Owner, "RUNNING")
  /\ UNCHANGED <<verdict, proc, reaped>>

(* report: the fenced write leaves the state as it is. *)
Progress ==
  /\ Up(Owner) /\ run = "running"
  /\ notifyWatchers(Owner, "RUNNING")
  /\ UNCHANGED <<stored, run, verdict, proc, reaped>>

(* complete: the terminal write, given up after some attempts ... *)
Settle(s) ==
  /\ Up(Owner) /\ run = "running"
  /\ verdict' = s
  /\ stored' \in {stored, s}
  /\ run' = "settled"
  /\ UNCHANGED <<proc, reaped, busVars, subVars>>

(* ... and the announcement, which does not depend on the write. *)
AnnounceVerdict ==
  /\ Up(Owner) /\ run = "settled"
  /\ notifyWatchers(Owner, verdict)
  /\ run' = "notified"
  /\ UNCHANGED <<stored, verdict, proc, reaped>>

(* deregister, once the announcement is queued or given up. *)
Deregister ==
  /\ Up(Owner) /\ run = "notified" /\ waiting[Owner] = {}
  /\ run' = "gone" /\ verdict' = "NONE"
  /\ UNCHANGED <<stored, proc, reaped, busVars, subVars>>

(* The submission takes the events of its subscription until a terminal    *)
(* one or the end of the channel; its context ends with the call.          *)
SyncReceive ==
  /\ Up(Owner) /\ run \notin {"new", "pending"}
  /\ Sync \notin ctxDone
  /\ \/ /\ chan # <<>>
        /\ seen' = Head(chan) /\ chan' = Tail(chan)
        /\ ctxDone' = IF IsTerminal(Head(chan)) THEN ctxDone \cup {Sync} ELSE ctxDone
     \/ /\ chan = <<>> /\ (closes[Sync] > 0 \/ wpc[Sync] = "failed")
        /\ ctxDone' = ctxDone \cup {Sync}
        /\ UNCHANGED <<seen, chan>>
  /\ UNCHANGED <<watchers, wpc, current, closes, runVars, busVars>>

(* The client of the submission goes away: the run is not affected. *)
SyncClientLeaves ==
  /\ Up(Owner) /\ wpc[Sync] = "watching"
  /\ ctxDone' = ctxDone \cup {Sync}
  /\ UNCHANGED <<watchers, wpc, current, closes, chan, seen, runVars, busVars>>

-----------------------------------------------------------------------------
(* The peer: its subscriptions, WatchQuery streams whose clients stay, and *)
(* its reaper.                                                             *)

RemoteWatch(w) ==
  /\ \/ WatchResolve(w, stored)
     \/ WatchFails(w) /\ UNCHANGED ctxDone
     \/ WatchRegister(w)
  /\ UNCHANGED <<chan, seen, runVars, busVars>>

WatchEnds(w) ==
  /\ w # Sync \/ Up(Owner)
  /\ unwatch(w)
  /\ UNCHANGED <<chan, seen, runVars, busVars>>

(* failOwnerLost: the fenced write.  While the owner holds the query this  *)
(* takes a lease that ran out.                                             *)
FailOwnerLost ==
  /\ stored \in {"PENDING", "RUNNING"} /\ ~reaped
  /\ stored' = "FAILED" /\ reaped' = TRUE
  /\ UNCHANGED <<run, verdict, proc, busVars, subVars>>

(* The reaper announces what it has stored. *)
AnnounceOwnerLost ==
  /\ reaped
  /\ reaped' = FALSE
  /\ notifyWatchers(Peer, "FAILED")
  /\ UNCHANGED <<stored, run, verdict, proc>>

-----------------------------------------------------------------------------
(* Close of the owner, and its crash.                                      *)

(* Close waits for the runs, or for its context, and closes publisherStop. *)
CloseStopsPublisher ==
  /\ proc = "up"
  /\ proc' = IF Registered THEN "hurried" ELSE "flushing"
  /\ UNCHANGED <<stored, run, verdict, reaped, busVars, subVars>>

(* The verdict is stored and has not left the process. *)
Unpublished ==
  \/ run = "settled" /\ IsTerminal(stored)
  \/ waiting[Owner] # {}
  \/ \E s \in Range(events[Owner]) : IsTerminal(s)

(* The process is gone, with its registry, its queues and its goroutines. *)
Exit ==
  /\ proc' = "down" /\ run' = "gone"
  /\ lost' = (lost \/ Unpublished)
  /\ events' = [events EXCEPT ![Owner] = <<>>]
  /\ waiting' = [waiting EXCEPT ![Owner] = {}]
  /\ control' = [control EXCEPT ![Owner] = <<>>]
  /\ verdict' = "NONE"
  /\ watchers' = watchers \ {Sync} /\ ctxDone' = ctxDone \ {Sync}
  /\ wpc' = [wpc EXCEPT ![Sync] = "idle"]
  /\ current' = [current EXCEPT ![Sync] = "NONE"]
  /\ closes' = [closes EXCEPT ![Sync] = 0]
  /\ chan' = <<>> /\ seen' = "NONE"
  /\ UNCHANGED <<stored, reaped>>

(* The publisher has emptied the queue, or eventDrainTimeout has passed:   *)
(* publisherDone, after which Close cancels qm.ctx and the process ends.   *)
CloseEnds == proc \in {"flushing", "hurried"} /\ Exit

(* The process dies. *)
Crash == proc = "up" /\ run # "new" /\ Exit

-----------------------------------------------------------------------------
Next ==
  \/ SubmitPending \/ SyncResolve \/ SyncWatchFails \/ SyncRegister \/ Launch
  \/ SyncReceive \/ SyncClientLeaves
  \/ MarkRunning \/ Progress \/ (\E s \in Outcome : Settle(s)) \/ AnnounceVerdict \/ Deregister
  \/ \E i \in Instance :
       \/ publishEvent(i) \/ controlWorker(i)
       \/ \E s \in Verdicts : EnqueueTerminal(i, s) \/ GiveUpTerminal(i, s)
  \/ \E w \in Remote : RemoteWatch(w)
  \/ \E w \in Watcher : WatchEnds(w)
  \/ FailOwnerLost \/ AnnounceOwnerLost
  \/ CloseStopsPublisher \/ CloseEnds \/ Crash

Spec == Init /\ [][Next]_vars

(***************************************************************************)
(* Every goroutine that can move does: the submission, the run, the sender *)
(* waiting for room, the publishers, the control workers and the goroutine *)
(* of Watch.  The reaper of the peer ticks for ever, and once the owner no *)
(* longer holds the query its lease is not renewed.  Nothing is assumed of *)
(* clients, of Close or of crashes.                                        *)
(***************************************************************************)
FairSpec ==
  /\ Spec
  /\ WF_vars(SyncResolve \/ SyncWatchFails) /\ WF_vars(SyncRegister) /\ WF_vars(Launch)
  /\ WF_vars(SyncReceive) /\ WF_vars(MarkRunning) /\ WF_vars(\E s \in Outcome : Settle(s))
  /\ WF_vars(AnnounceVerdict) /\ WF_vars(Deregister)
  /\ WF_vars(~Registered /\ FailOwnerLost) /\ WF_vars(AnnounceOwnerLost)
  /\ \A i \in Instance :
       /\ WF_vars(publishEvent(i)) /\ WF_vars(controlWorker(i))
       /\ WF_vars(\E s \in Verdicts : EnqueueTerminal(i, s))
  /\ \A w \in Watcher : WF_vars(WatchEnds(w))

-----------------------------------------------------------------------------
TypeOK ==
  /\ WatchTypeOK
  /\ stored \in QueryState \cup {"NONE"}
  /\ run \in RunAt
  /\ verdict \in Verdicts \cup {"NONE"}
  /\ proc \in {"up", "flushing", "hurried", "down"}
  /\ reaped \in BOOLEAN /\ lost \in BOOLEAN
  /\ events \in [Instance -> Seq(QueryState)]
  /\ \A i \in Instance : Len(events[i]) <= PublishBuffer
  /\ waiting \in [Instance -> SUBSET Verdicts]
  /\ control \in [Instance -> Seq(QueryState)]
  /\ chan \in Seq(QueryState) /\ Len(chan) <= WatcherBuffer
  /\ seen \in QueryState \cup {"NONE"}

Rank(s) == CASE s = "NONE" -> 0 [] s = "PENDING" -> 1 [] s = "RUNNING" -> 2 [] OTHER -> 3

InOrder(c) == \A k \in 1 .. Len(c) - 1 : Rank(c[k]) <= Rank(c[k + 1]) /\ Rank(c[k]) < 3

(***************************************************************************)
(* What a synchronous submission receives never goes back: PENDING,        *)
(* RUNNING and one terminal event at the end, although Watch reads the     *)
(* record and registers in two steps and other instances announce verdicts *)
(* of their own.  Every channel is closed once (ClosedOnce), and the       *)
(* variables are in their types.                                           *)
(***************************************************************************)
SyncOrder ==
  /\ TypeOK
  /\ ClosedOnce
  /\ InOrder(<<seen>> \o chan)

(***************************************************************************)
(* While the owner executes the query, the subscription of a synchronous   *)
(* submission is ended by the run's own verdict or by its client, never by *)
(* the verdict another instance's reaper announced (controlWorker).        *)
(***************************************************************************)
OwnVerdictEndsSync ==
  [][Registered /\ Sync \in watchers \ watchers' /\ Sync \notin ctxDone
       => run = "settled" \/ proc' = "down"]_vars

(* A Close that waited for the runs and whose publisher emptied its queue  *)
(* loses no verdict.                                                       *)
FlushedIsPublished == proc = "flushing" /\ events[Owner] = <<>> => ~Unpublished

(***************************************************************************)
(* A subscription that was registered before the query was finished ends,  *)
(* wherever it is held, unless its process is gone or a terminal           *)
(* announcement was lost.  A Close that waited for the runs and whose      *)
(* publisher emptied its queue loses none: the publisher is told to stop   *)
(* after the last run has queued its event (Close, eventPublisher).        *)
(***************************************************************************)
EarlyWatchEnds ==
  /\ []FlushedIsPublished
  /\ \A w \in Watcher : w \in watchers /\ ~IsTerminal(stored) ~> w \notin watchers \/ lost

(***************************************************************************)
(* A synchronous submission returns: it listens before the run starts, and *)
(* the verdict closes its channel even when the buffer has no room for it. *)
(***************************************************************************)
SyncReturns == run = "launched" ~> Sync \in ctxDone \/ proc = "down"

-----------------------------------------------------------------------------
(* The inductive invariant of the proofs.                                  *)

(***************************************************************************)
(* While its channel is in the map the submission has no terminal event,   *)
(* neither taken nor buffered; only verdicts come over the control         *)
(* channel; and a verdict waits for room in the queue only while its run   *)
(* is registered.                                                          *)
(***************************************************************************)
IInv ==
  /\ SyncOrder
  /\ WatchInv
  /\ wpc[Sync] = "resolved" => current[Sync] \in QueryState
  /\ wpc[Sync] \in {"idle", "resolved"} => chan = <<>> /\ seen = "NONE"
  /\ Sync \in watchers => Rank(seen) < 3 /\ \A k \in 1 .. Len(chan) : Rank(chan[k]) < 3
  /\ \A i \in Instance : \A k \in 1 .. Len(control[i]) : IsTerminal(control[i][k])
  /\ run = "new" => wpc[Sync] = "idle"
  /\ run = "settled" => verdict \in Verdicts
  /\ waiting[Owner] # {} => run = "notified"
  /\ proc = "flushing" => ~Registered
=============================================================================
