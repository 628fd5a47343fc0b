--------------------------- MODULE Subscriptions ---------------------------
(***************************************************************************)
(* The subscriptions the managers hold: Watch, unwatch and the map         *)
(* qm.watchers.  A channel is represented by how often it was closed; what *)
(* is buffered in it, and what the store holds, is up to the module that   *)
(* uses this one.                                                          *)
(***************************************************************************)
EXTENDS QueryStates, Naturals

CONSTANT Watcher   \* subscriptions, one call of Watch each

VARIABLES
  watchers,  \* the subscriptions in qm.watchers
  wpc,       \* where each call of Watch is
  current,   \* the state it read
  closes,    \* how often the channel it made was closed
  ctxDone    \* the subscriptions whose context has ended

watchVars == <<watchers, wpc, current, closes, ctxDone>>

WatchInit ==
  /\ watchers = {}
  /\ wpc = [w \in Watcher |-> "idle"]
  /\ current = [w \in Watcher |-> "NONE"]
  /\ closes = [w \in Watcher |-> 0]
  /\ ctxDone = {}

WatchTypeOK ==
  /\ watchers \subseteq Watcher
  /\ wpc \in [Watcher -> {"idle", "resolved", "watching", "released", "failed"}]
  /\ current \in [Watcher -> QueryState \cup {"NONE"}]
  /\ closes \in [Watcher -> 0 .. 2]
  /\ ctxDone \subseteq Watcher

(* Mutant of dropWatchersLocked: membership is not looked at. *)
dropWatchersUnchecked(ws) ==
  /\ watchers' = watchers \ ws
  /\ closes' = [w \in Watcher |-> IF w \in ws THEN closes[w] + 1 ELSE closes[w]]

(* Takes subscriptions out of the map and closes the channel of each one   *)
(* that was still in it.                                                   *)
dropWatchersLocked(ws) ==
  /\ watchers' = watchers \ ws
  /\ closes' = [w \in Watcher |-> IF w \in ws \cap watchers THEN closes[w] + 1 ELSE closes[w]]

(* Watch reads the record before it takes watchersMu ... *)
WatchResolve(w, stored) ==
  /\ wpc[w] = "idle"
  /\ stored # "NONE"
  /\ current' = [current EXCEPT ![w] = stored]
  /\ wpc' = [wpc EXCEPT ![w] = "resolved"]
  /\ UNCHANGED <<watchers, closes, ctxDone>>

(* ... or fails: there is no record, or the store does not answer. *)
WatchFails(w) ==
  /\ wpc[w] = "idle"
  /\ wpc' = [wpc EXCEPT ![w] = "failed"]
  /\ UNCHANGED <<watchers, current, closes>>

(* The channel enters the map.  A query that had finished when it was read *)
(* closes it at once; otherwise a goroutine waits for the context.         *)
WatchRegister(w) ==
  /\ wpc[w] = "resolved"
  /\ current' = [current EXCEPT ![w] = "NONE"]
  /\ IF IsTerminal(current[w])
     THEN /\ wpc' = [wpc EXCEPT ![w] = "released"]
          /\ closes' = [closes EXCEPT ![w] = @ + 1]
          /\ UNCHANGED watchers
     ELSE /\ wpc' = [wpc EXCEPT ![w] = "watching"]
          /\ watchers' = watchers \cup {w}
          /\ UNCHANGED closes
  /\ UNCHANGED ctxDone

(* That goroutine: the context has ended. *)
unwatch(w) ==
  /\ wpc[w] = "watching" /\ w \in ctxDone
  /\ dropWatchersLocked({w})
  /\ wpc' = [wpc EXCEPT ![w] = "released"]
  /\ UNCHANGED <<current, ctxDone>>

(***************************************************************************)
(* A subscription's channel is closed once, and is not in the map any      *)
(* more when it is closed: closing it a second time, or sending on it,     *)
(* would panic.  The terminal event, the verdicts other instances announce *)
(* and the end of the context all close channels, in any order             *)
(* (dropWatcherLocked).                                                    *)
(***************************************************************************)
ClosedOnce ==
  \A w \in Watcher : closes[w] <= 1 /\ (w \in watchers => closes[w] = 0 /\ wpc[w] = "watching")

(* The inductive form of it: what has not reached the map is not closed. *)
WatchInv ==
  /\ WatchTypeOK
  /\ ClosedOnce
  /\ \A w \in Watcher : wpc[w] \in {"idle", "resolved", "failed"} => closes[w] = 0
=============================================================================
