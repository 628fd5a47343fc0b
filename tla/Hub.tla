-------------------------------- MODULE Hub --------------------------------
(***************************************************************************)
(* One WebSocket connection (internal/transport/ws): its message loop, the *)
(* pump goroutine of each subscription it opens, and the map conn.subs     *)
(* they share, over the subscriptions of the manager.  A "watch" message   *)
(* that finds no entry for its query opens a subscription of its own: a    *)
(* watcher is a query and a number.                                        *)
(***************************************************************************)
EXTENDS Subscriptions, FiniteSets

CONSTANTS
  Query,
  MaxSubscriptions   \* maxSubscriptionsPerConn

ASSUME WatchersName == Watcher \subseteq Query \X Nat
ASSUME BudgetHolds == MaxSubscriptions \in Nat \ {0}

QueryOf(w) == w[1]

VARIABLES
  states,  \* the state of each query's record
  due,     \* finished queries whose terminal event is still to be delivered here
  subs,    \* conn.subs: the subscriptions whose cancel functions it holds
  loop,    \* the message loop: "reading", "subscribing", "closing" or "closed"
  sub,     \* the subscription the message loop is opening
  pump     \* the pump of each subscription: "none", "pumping", "returned" or "done"

queryVars == <<states, due>>
hubVars == <<subs, loop, sub, pump>>
connVars == <<watchVars, queryVars, hubVars>>

Nobody == {}

HubInit ==
  /\ WatchInit
  /\ states = [q \in Query |-> "RUNNING"] /\ due = {}
  /\ subs = {} /\ loop = "reading" /\ sub = Nobody
  /\ pump = [w \in Watcher |-> "none"]

-----------------------------------------------------------------------------
(* The manager.                                                            *)

(* The query finishes: the record first, then the event, which Events      *)
(* brings here, and which may be lost.                                     *)
Finish(q) ==
  /\ states[q] = "RUNNING"
  /\ states' = [states EXCEPT ![q] = "SUCCEEDED"]
  /\ due' = due \cup {q}
  /\ UNCHANGED <<watchVars, hubVars>>

DeliverTerminal(q) ==
  /\ q \in due
  /\ due' = due \ {q}
  /\ dropWatchersLocked({w \in Watcher : QueryOf(w) = q})
  /\ UNCHANGED <<states, wpc, current, ctxDone, hubVars>>

LoseTerminal(q) ==
  /\ q \in due
  /\ due' = due \ {q}
  /\ UNCHANGED <<states, watchVars, hubVars>>

ConnWatchEnds(w) == unwatch(w) /\ UNCHANGED <<queryVars, hubVars>>

-----------------------------------------------------------------------------
(* The connection.                                                         *)

EntryOf(q) == {w \in subs : QueryOf(w) = q}

(* Mutant of unsubscribe: the entry goes, its context stays. *)
unsubscribeKeepsContext(q) ==
  /\ subs' = subs \ EntryOf(q)
  /\ UNCHANGED ctxDone

(* Takes the query's entry out of conn.subs, whichever subscription it     *)
(* belongs to, and cancels it.                                             *)
unsubscribe(q) ==
  /\ subs' = subs \ EntryOf(q)
  /\ ctxDone' = ctxDone \cup EntryOf(q)

(* A "watch" message.  It changes nothing when the query has an entry, nor *)
(* when the budget of the connection is used up.                           *)
Subscribe(w) ==
  /\ loop = "reading" /\ wpc[w] = "idle"
  /\ EntryOf(QueryOf(w)) = {}
  /\ Cardinality(subs) < MaxSubscriptions
  /\ subs' = subs \cup {w}
  /\ sub' = {w} /\ loop' = "subscribing"
  /\ UNCHANGED <<watchVars, queryVars, pump>>

(* WatchQuery, within subscribe: the record is read, the channel           *)
(* registered and the pump started.                                        *)
SubscribeResolve(w) ==
  /\ w \in sub
  /\ WatchResolve(w, states[QueryOf(w)])
  /\ UNCHANGED <<queryVars, hubVars>>

SubscribeRegister(w) ==
  /\ w \in sub
  /\ WatchRegister(w)
  /\ pump' = [pump EXCEPT ![w] = "pumping"]
  /\ loop' = "reading" /\ sub' = Nobody
  /\ UNCHANGED <<queryVars, subs>>

(* WatchQuery fails: the query is unknown, the caller may not read it, or  *)
(* the store does not answer.                                              *)
SubscribeFails(w) ==
  /\ w \in sub
  /\ WatchFails(w)
  /\ unsubscribe(QueryOf(w))
  /\ loop' = "reading" /\ sub' = Nobody
  /\ UNCHANGED <<queryVars, pump>>

(* An "unwatch" message. *)
Unwatch(q) ==
  /\ loop = "reading"
  /\ EntryOf(q) # {}
  /\ unsubscribe(q)
  /\ UNCHANGED <<watchers, wpc, current, closes, queryVars, loop, sub, pump>>

(* The pump writes the events of its channel to the client.  It returns    *)
(* when a write fails, its context has ended or the channel is closed.     *)
PumpReturns(w) ==
  /\ pump[w] = "pumping"
  /\ pump' = [pump EXCEPT ![w] = "returned"]
  /\ UNCHANGED <<watchVars, queryVars, subs, loop, sub>>

(* Mutant of PumpDone: the goroutine of the pump leaves the entry alone. *)
PumpDoneKeepsEntry(w) ==
  /\ pump[w] = "returned"
  /\ pump' = [pump EXCEPT ![w] = "done"]
  /\ UNCHANGED <<watchVars, queryVars, subs, loop, sub>>

(* The deferred unsubscribe of the pump's goroutine. *)
PumpDone(w) ==
  /\ pump[w] = "returned"
  /\ unsubscribe(QueryOf(w))
  /\ pump' = [pump EXCEPT ![w] = "done"]
  /\ UNCHANGED <<watchers, wpc, current, closes, queryVars, loop, sub>>

(* The read of the message loop fails: closeAll ... *)
CloseAll ==
  /\ loop = "reading"
  /\ subs' = {}
  /\ ctxDone' = ctxDone \cup subs
  /\ loop' = "closing"
  /\ UNCHANGED <<watchers, wpc, current, closes, queryVars, sub, pump>>

(* ... and wg.Wait, after which the connection is closed. *)
ConnClosed ==
  /\ loop = "closing"
  /\ \A w \in Watcher : pump[w] \in {"none", "done"}
  /\ loop' = "closed"
  /\ UNCHANGED <<watchVars, queryVars, subs, sub, pump>>

HubNext ==
  \/ \E q \in Query : Finish(q) \/ DeliverTerminal(q) \/ LoseTerminal(q) \/ Unwatch(q)
  \/ \E w \in Watcher :
       \/ ConnWatchEnds(w)
       \/ Subscribe(w) \/ SubscribeResolve(w) \/ SubscribeRegister(w) \/ SubscribeFails(w)
       \/ PumpReturns(w) \/ PumpDone(w)
  \/ CloseAll \/ ConnClosed

HubSpec == HubInit /\ [][HubNext]_connVars

(***************************************************************************)
(* The calls the message loop has begun, the pumps and the goroutines of   *)
(* Watch go on by themselves; a write to a client that stopped reading     *)
(* ends with its context.  Nothing is assumed of clients and of queries.   *)
(***************************************************************************)
HubFairSpec ==
  /\ HubSpec
  /\ WF_connVars(ConnClosed)
  /\ \A w \in Watcher :
       /\ WF_connVars(SubscribeResolve(w) \/ SubscribeFails(w)) /\ WF_connVars(SubscribeRegister(w))
       /\ WF_connVars((w \in ctxDone \/ closes[w] > 0) /\ PumpReturns(w))
       /\ WF_connVars(PumpDone(w)) /\ WF_connVars(ConnWatchEnds(w))

-----------------------------------------------------------------------------
HubTypeOK ==
  /\ WatchTypeOK
  /\ states \in [Query -> QueryState]
  /\ due \subseteq Query
  /\ subs \subseteq Watcher
  /\ loop \in {"reading", "subscribing", "closing", "closed"}
  /\ sub \in SUBSET Watcher /\ Cardinality(sub) = (IF loop = "subscribing" THEN 1 ELSE 0)
  /\ pump \in [Watcher -> {"none", "pumping", "returned", "done"}]

(***************************************************************************)
(* An unwatch really cancels: a pump whose context is live is one that     *)
(* conn.subs lists, so closeAll reaches every pump wg.Wait waits for; a    *)
(* query's events are forwarded at most once; and the budget bounds the    *)
(* live pumps, not just the map.  The variables are in their types.        *)
(***************************************************************************)
LivePumpIsListed ==
  LET live == {w \in Watcher : pump[w] = "pumping" /\ w \notin ctxDone} IN
  /\ HubTypeOK
  /\ live \subseteq subs
  /\ \A v, w \in live : QueryOf(v) = QueryOf(w) => v = w
  /\ Cardinality(live) <= MaxSubscriptions

(***************************************************************************)
(* What ends is released.  A subscription whose channel was closed gives   *)
(* its place in conn.subs back, so that the client can watch the query     *)
(* again and the budget is not used up by queries that are over (pump).    *)
(* When the connection goes away the handler returns and the manager holds *)
(* no subscription of it any more (closeAll, wg.Wait).                     *)
(***************************************************************************)
EndedIsReleased ==
  /\ \A w \in Watcher : w \in subs /\ closes[w] > 0 ~> w \notin subs
  /\ loop = "closing" ~> loop = "closed" /\ watchers = {}

-----------------------------------------------------------------------------
(* The inductive invariant of the proofs.                                  *)

(***************************************************************************)
(* conn.subs has one entry for a query at most, and as many as the budget  *)
(* allows.  A subscription that is being opened has its entry, unless the  *)
(* pump before it took it away, and then its context is over.              *)
(***************************************************************************)
HubIInv ==
  /\ LivePumpIsListed
  /\ WatchInv
  /\ IsFiniteSet(subs) /\ Cardinality(subs) <= MaxSubscriptions
  /\ \A v, w \in subs : QueryOf(v) = QueryOf(w) => v = w
  /\ \A w \in Watcher : pump[w] # "none" => wpc[w] \in {"watching", "released"}
  /\ sub \subseteq subs \cup ctxDone
=============================================================================
