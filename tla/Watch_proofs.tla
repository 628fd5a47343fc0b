---------------------------- MODULE Watch_proofs ----------------------------
(* Theorems about subscriptions: those of the managers (Events) and those  *)
(* of a WebSocket connection (Hub), for every set of subscriptions.        *)
EXTENDS Events, Hub, SequenceTheorems, FiniteSetTheorems, TLAPS

-----------------------------------------------------------------------------
(* Channels.                                                               *)

(* There is no channel at the start. *)
LEMMA WatchInitInv == WatchInit => WatchInv
BY DEF WatchInit, WatchInv, WatchTypeOK, ClosedOnce

(* Whatever leaves the channels alone, contexts aside. *)
LEMMA WatchStands ==
  ASSUME WatchInv, UNCHANGED <<watchers, wpc, current, closes>>, ctxDone' \subseteq Watcher
  PROVE  WatchInv'
BY Zenon DEF WatchInv, WatchTypeOK, ClosedOnce

(* dropWatchersLocked closes a channel only as it takes it out of the map. *)
LEMMA DropKeeps ==
  ASSUME WatchInv, NEW ws, dropWatchersLocked(ws), UNCHANGED <<wpc, current, ctxDone>>
  PROVE  WatchInv'
<1>1. /\ closes \in [Watcher -> 0 .. 2]
      /\ \A w \in Watcher : closes[w] <= 1 /\ (w \in watchers => closes[w] = 0 /\ wpc[w] = "watching")
  BY Zenon DEF WatchInv, WatchTypeOK, ClosedOnce
<1>2. \A w \in Watcher : closes'[w] = IF w \in ws \cap watchers THEN closes[w] + 1 ELSE closes[w]
  BY Zenon DEF dropWatchersLocked
<1>3. \A w \in Watcher : closes'[w] \in 0 .. 1
  BY <1>1, <1>2
<1>4. watchers' \subseteq watchers /\ \A w \in watchers' : w \notin ws
  BY Zenon DEF dropWatchersLocked
<1>5. closes' \in [Watcher -> 0 .. 2]
  <2>1. closes' = [w \in Watcher |-> closes'[w]]
    BY Zenon DEF dropWatchersLocked
  <2>2. \A w \in Watcher : closes'[w] \in 0 .. 2
    BY <1>3
  <2> QED
    BY <2>1, <2>2, Zenon
<1>6. WatchTypeOK'
  BY <1>4, <1>5, Zenon DEF WatchInv, WatchTypeOK
<1>7. ClosedOnce'
  BY <1>1, <1>2, <1>3, <1>4 DEF ClosedOnce
<1>8. \A w \in Watcher : wpc'[w] \in {"idle", "resolved", "failed"} => closes'[w] = 0
  BY <1>1, <1>2, Zenon DEF WatchInv
<1> QED
  BY <1>6, <1>7, <1>8, Zenon DEF WatchInv

(* The goroutine of Watch. *)
LEMMA unwatchKeeps ==
  ASSUME WatchInv, NEW w \in Watcher, unwatch(w)
  PROVE  WatchInv'
<1>1. /\ closes \in [Watcher -> 0 .. 2] /\ wpc[w] = "watching"
      /\ \A v \in Watcher : closes[v] <= 1 /\ (v \in watchers => closes[v] = 0 /\ wpc[v] = "watching")
  BY Zenon DEF WatchInv, WatchTypeOK, ClosedOnce, unwatch
<1>2. \A v \in Watcher : closes'[v] = IF v = w /\ v \in watchers THEN closes[v] + 1 ELSE closes[v]
  BY Zenon DEF unwatch, dropWatchersLocked
<1>3. \A v \in Watcher : closes'[v] \in 0 .. 1
  BY <1>1, <1>2
<1>4. watchers' = watchers \ {w}
  BY Zenon DEF unwatch, dropWatchersLocked
<1>5. closes' \in [Watcher -> 0 .. 2]
  <2>1. closes' = [v \in Watcher |-> closes'[v]]
    BY Zenon DEF unwatch, dropWatchersLocked
  <2>2. \A v \in Watcher : closes'[v] \in 0 .. 2
    BY <1>3
  <2> QED
    BY <2>1, <2>2, Zenon
<1>6. WatchTypeOK'
  BY <1>4, <1>5, Zenon DEF WatchInv, WatchTypeOK, unwatch
<1>7. \A v \in Watcher : wpc'[v] = IF v = w THEN "released" ELSE wpc[v]
  BY Zenon DEF WatchInv, WatchTypeOK, unwatch
<1>8. ClosedOnce'
  BY <1>1, <1>2, <1>3, <1>4, <1>7 DEF ClosedOnce
<1>9. \A v \in Watcher : wpc'[v] \in {"idle", "resolved", "failed"} => closes'[v] = 0
  BY <1>2, <1>7, Zenon DEF WatchInv
<1> QED
  BY <1>6, <1>8, <1>9, Zenon DEF WatchInv

(* Watch: the read of the record, its failure, and the registration. *)
LEMMA WatchKeeps ==
  ASSUME WatchInv, NEW w \in Watcher, ctxDone' \subseteq Watcher,
         \/ \E s \in QueryState : WatchResolve(w, s)
         \/ WatchFails(w)
         \/ WatchRegister(w)
  PROVE  WatchInv'
<1> USE DEF WatchInv, WatchTypeOK, ClosedOnce
<1>1. CASE \E s \in QueryState : WatchResolve(w, s)
  BY <1>1 DEF WatchResolve
<1>2. CASE WatchFails(w)
  BY <1>2, Zenon DEF WatchFails
<1>3. CASE WatchRegister(w)
  <2>1. wpc[w] = "resolved" /\ closes[w] = 0
    BY <1>3, Zenon DEF WatchRegister
  <2>2. CASE IsTerminal(current[w])
    BY <1>3, <2>1, <2>2 DEF WatchRegister
  <2>3. CASE ~IsTerminal(current[w])
    BY <1>3, <2>1, <2>3 DEF WatchRegister
  <2> QED
    BY <2>2, <2>3, Zenon
<1> QED
  BY <1>1, <1>2, <1>3, Zenon

-----------------------------------------------------------------------------
(* The events of a query.                                                  *)

States == QueryState \cup {"NONE"}

(* Terminal states come last. *)
LEMMA RankBounds ==
  /\ \A s \in States : Rank(s) \in 0 .. 3
  /\ \A s \in QueryState : IsTerminal(s) => Rank(s) = 3
  /\ Rank("NONE") = 0 /\ Rank("RUNNING") = 2
BY DEF States, QueryState, Rank, IsTerminal

(* An event that is no earlier than RUNNING keeps the order of what is not over. *)
LEMMA OrderAppend ==
  ASSUME NEW c \in Seq(States), InOrder(c), \A k \in 1 .. Len(c) : Rank(c[k]) < 3,
         NEW s \in States, Rank(s) >= 2
  PROVE  InOrder(Append(c, s))
<1>1. /\ Len(Append(c, s)) = Len(c) + 1 /\ Len(c) \in Nat
      /\ \A k \in 1 .. Len(c) : Append(c, s)[k] = c[k]
      /\ Append(c, s)[Len(c) + 1] = s
  BY AppendProperties, LenProperties
<1>2. \A k \in 1 .. Len(c) : Rank(c[k]) \in 0 .. 2
  BY RankBounds, ElementOfSeq
<1>3. Rank(s) \in 2 .. 3
  BY RankBounds
<1> DEFINE d == Append(c, s)
<1> HIDE DEF d
<1>4. ASSUME NEW k \in 1 .. Len(c) PROVE Rank(d[k]) <= Rank(d[k + 1]) /\ Rank(d[k]) < 3
  <2>1. d[k] = c[k]
    BY <1>1, Zenon DEF d
  <2>2. CASE k = Len(c)
    BY <1>1, <1>2, <1>3, <2>1, <2>2 DEF d
  <2>3. CASE k \in 1 .. Len(c) - 1
    <3>1. d[k + 1] = c[k + 1]
      BY <1>1, <2>3 DEF d
    <3> QED
      BY <2>1, <2>3, <3>1, Zenon DEF InOrder
  <2> QED
    BY <1>1, <2>2, <2>3
<1> QED
  BY <1>1, <1>4 DEF InOrder, d

(* Taking the next event keeps the order. *)
LEMMA OrderTake ==
  ASSUME NEW s \in States, NEW c \in Seq(States), c # <<>>, InOrder(<<s>> \o c)
  PROVE  /\ InOrder(<<Head(c)>> \o Tail(c)) /\ Head(c) \in States /\ Tail(c) \in Seq(States)
         /\ Head(c) = c[1] /\ Len(Tail(c)) = Len(c) - 1
         /\ \A k \in 1 .. Len(Tail(c)) : Tail(c)[k] = c[k + 1]
<1>1. /\ Head(c) \in States /\ Tail(c) \in Seq(States) /\ Len(Tail(c)) = Len(c) - 1
      /\ \A k \in 1 .. Len(Tail(c)) : Tail(c)[k] = c[k + 1]
  BY HeadTailProperties, Zenon
<1>2. Head(c) = c[1] /\ Len(c) \in Nat \ {0}
  BY EmptySeq
<1>3. <<s>> \in Seq(States) /\ Len(<<s>>) = 1 /\ <<s>>[1] = s
  OBVIOUS
<1>4. Len(<<s>> \o c) = Len(c) + 1 /\ \A k \in 1 .. Len(c) : (<<s>> \o c)[k + 1] = c[k]
  BY <1>2, <1>3, ConcatProperties
<1>5. InOrder(c)
  <2>1. ASSUME NEW k \in 1 .. Len(c) - 1 PROVE Rank(c[k]) <= Rank(c[k + 1]) /\ Rank(c[k]) < 3
    <3>1. k + 1 \in 1 .. Len(<<s>> \o c) - 1
      BY <1>2, <1>4
    <3>2. (<<s>> \o c)[k + 1] = c[k] /\ (<<s>> \o c)[(k + 1) + 1] = c[k + 1]
      BY <1>2, <1>4
    <3> QED
      BY <3>1, <3>2, Zenon DEF InOrder
  <2> QED
    BY <2>1, Zenon DEF InOrder
<1>6. <<Head(c)>> \o Tail(c) = c
  <2> DEFINE d == <<Head(c)>> \o Tail(c)
  <2>1. <<Head(c)>> \in Seq(States) /\ Len(<<Head(c)>>) = 1 /\ <<Head(c)>>[1] = Head(c)
    BY <1>1
  <2>2. /\ d \in Seq(States) /\ Len(d) = 1 + Len(Tail(c))
        /\ \A k \in 1 .. 1 + Len(Tail(c)) : d[k] = IF k <= 1 THEN <<Head(c)>>[k] ELSE Tail(c)[k - 1]
    BY <1>1, <2>1, ConcatProperties
  <2> HIDE DEF d
  <2>3. Len(d) = Len(c)
    BY <1>1, <1>2, <2>2
  <2>4. \A k \in 1 .. Len(d) : d[k] = c[k]
    BY <1>1, <1>2, <2>1, <2>2, <2>3
  <2>5. d = c
    BY <2>2, <2>3, <2>4, SeqEqual, Zenon
  <2> QED
    BY <2>5, Zenon DEF d
<1> QED
  BY <1>1, <1>2, <1>5, <1>6, Zenon

(* The parts of IInv: subscriptions, the run, and what is under way. *)
SubInv ==
  /\ WatchInv
  /\ chan \in Seq(QueryState) /\ Len(chan) <= WatcherBuffer
  /\ seen \in States
  /\ InOrder(<<seen>> \o chan)
  /\ wpc[Sync] = "resolved" => current[Sync] \in QueryState
  /\ wpc[Sync] \in {"idle", "resolved"} => chan = <<>> /\ seen = "NONE"
  /\ Sync \in watchers => Rank(seen) < 3 /\ \A k \in 1 .. Len(chan) : Rank(chan[k]) < 3

RunInv ==
  /\ stored \in States
  /\ run \in RunAt
  /\ verdict \in Verdicts \cup {"NONE"}
  /\ proc \in {"up", "flushing", "hurried", "down"}
  /\ reaped \in BOOLEAN
  /\ run = "settled" => verdict \in Verdicts
  /\ proc = "flushing" => ~Registered

BusInv ==
  /\ lost \in BOOLEAN
  /\ events \in [Instance -> Seq(QueryState)]
  /\ \A i \in Instance : Len(events[i]) <= PublishBuffer
  /\ waiting \in [Instance -> SUBSET Verdicts]
  /\ control \in [Instance -> Seq(QueryState)]
  /\ \A i \in Instance : \A k \in 1 .. Len(control[i]) : IsTerminal(control[i][k])

LinkInv ==
  /\ run = "new" => wpc[Sync] = "idle"
  /\ waiting[Owner] # {} => run = "notified"

(* The parts make up the invariant, in this state and in the next. *)
LEMMA Parts ==
  /\ IInv <=> SubInv /\ RunInv /\ BusInv /\ LinkInv
  /\ IInv' <=> SubInv' /\ RunInv' /\ BusInv' /\ LinkInv'
BY Zenon DEF IInv, SyncOrder, TypeOK, SubInv, RunInv, BusInv, LinkInv, WatchInv, States

(* What leaves the variables of a part alone leaves it true. *)
LEMMA SubStands == SubInv /\ UNCHANGED subVars => SubInv'
BY Zenon DEF SubInv, subVars, watchVars, WatchInv, WatchTypeOK, ClosedOnce

(* What leaves the variables of a part alone leaves it true. *)
LEMMA BusStands == BusInv /\ UNCHANGED busVars => BusInv'
BY Zenon DEF BusInv, busVars

(* What leaves the variables of a part alone leaves it true. *)
LEMMA RunStands == RunInv /\ UNCHANGED runVars => RunInv'
BY Zenon DEF RunInv, runVars, Registered

(* deliverEvent: a terminal event ends the subscription, in the buffer or not. *)
LEMMA DeliverKeeps ==
  ASSUME SubInv, NEW i \in Instance, NEW s \in QueryState, deliverEvent(i, s),
         i = Owner /\ Sync \in watchers => Rank(s) >= 2
  PROVE  SubInv' /\ wpc' = wpc
<1>1. UNCHANGED <<wpc, current, ctxDone, seen>>
  BY Zenon DEF deliverEvent
<1>2. WatchInv'
  <2>1. CASE IsTerminal(s)
    BY <1>1, <2>1, DropKeeps, Zenon DEF deliverEvent, SubInv
  <2>2. CASE ~IsTerminal(s)
    BY <1>1, <2>2, WatchStands, Zenon DEF deliverEvent, SubInv, WatchInv, WatchTypeOK
  <2> QED
    BY <2>1, <2>2, Zenon
<1>3. watchers' \subseteq watchers /\ (IsTerminal(s) /\ i = Owner => Sync \notin watchers')
  BY Zenon DEF deliverEvent, dropWatchersLocked, HeldAt
<1>4. Sync \in watchers => wpc[Sync] = "watching"
  BY SyncIsWatcher, Zenon DEF SubInv, WatchInv, ClosedOnce
<1>5. CASE chan' = chan /\ ~(i = Owner /\ Sync \in watchers /\ IsTerminal(s))
  BY <1>1, <1>2, <1>3, <1>5, Zenon DEF SubInv
<1>6. CASE chan' = chan /\ i = Owner /\ IsTerminal(s)
  BY <1>1, <1>2, <1>3, <1>6, Zenon DEF SubInv
<1>7. CASE chan' = Append(chan, s) /\ i = Owner /\ Sync \in watchers /\ Len(chan) < WatcherBuffer
  <2>1. s \in States /\ Rank(s) >= 2 /\ (~IsTerminal(s) => Rank(s) < 3)
    BY <1>7, RankBounds DEF States, Rank, IsTerminal, QueryState
  <2>2. /\ Append(chan, s) \in Seq(QueryState) /\ Len(Append(chan, s)) = Len(chan) + 1 /\ Len(chan) \in Nat
        /\ \A k \in 1 .. Len(chan) : Append(chan, s)[k] = chan[k]
        /\ Append(chan, s)[Len(chan) + 1] = s
    BY AppendProperties, LenProperties DEF SubInv
  <2>3. Len(chan') <= WatcherBuffer
    BY <1>7, <2>2, BuffersHold
  <2>4. /\ <<seen>> \in Seq(States) /\ Len(<<seen>>) = 1 /\ <<seen>>[1] = seen
        /\ chan \in Seq(States) /\ Rank(seen) < 3 /\ \A k \in 1 .. Len(chan) : Rank(chan[k]) < 3
    BY <1>7, SeqMonotonic DEF SubInv, States
  <2>5. /\ <<seen>> \o chan \in Seq(States) /\ Len(<<seen>> \o chan) = 1 + Len(chan)
        /\ \A k \in 1 .. 1 + Len(chan) : (<<seen>> \o chan)[k] = IF k <= 1 THEN <<seen>>[k] ELSE chan[k - 1]
    BY <2>4, ConcatProperties, Zenon
  <2>6. \A k \in 1 .. Len(<<seen>> \o chan) : Rank((<<seen>> \o chan)[k]) < 3
    <3> DEFINE d == <<seen>> \o chan
    <3> HIDE DEF d
    <3> QED
      BY <2>2, <2>4, <2>5 DEF d
  <2>7. InOrder(Append(<<seen>> \o chan, s))
    BY <2>1, <2>5, <2>6, OrderAppend, Zenon DEF SubInv
  <2>8. <<seen>> \o Append(chan, s) = Append(<<seen>> \o chan, s)
    BY <2>1, <2>4
  <2>9. Sync \in watchers' => Rank(seen) < 3 /\ \A k \in 1 .. Len(chan') : Rank(chan'[k]) < 3
    BY <1>3, <1>7, <2>1, <2>2, <2>4
  <2> QED
    BY <1>1, <1>2, <1>4, <1>7, <2>2, <2>3, <2>7, <2>8, <2>9, Zenon DEF SubInv
<1> QED
  BY <1>1, <1>5, <1>6, <1>7, Zenon DEF deliverEvent, HeldAt, Remote

(* notifyWatchers: delivered here, and on the way to the others. *)
LEMMA NotifyKeeps ==
  ASSUME SubInv, BusInv, NEW i \in Instance, NEW s \in QueryState, notifyWatchers(i, s),
         i = Owner /\ Sync \in watchers => Rank(s) >= 2, IsTerminal(s) => s \in Verdicts
  PROVE  /\ SubInv' /\ BusInv' /\ wpc' = wpc
         /\ ~IsTerminal(s) \/ i = Peer => waiting'[Owner] = waiting[Owner]
<1>1. deliverEvent(i, s) /\ UNCHANGED <<control, lost>>
  BY Zenon DEF notifyWatchers
<1>2. SubInv' /\ wpc' = wpc
  BY <1>1, DeliverKeeps, Zenon
<1>3. Owner \in Instance /\ Owner # Peer
  BY InstancesDiffer, Zenon DEF Instance
<1>4. CASE IsTerminal(s)
  <2>1. waiting' = [waiting EXCEPT ![i] = @ \cup {s}] /\ events' = events /\ s \in Verdicts
    BY <1>4, Zenon DEF notifyWatchers
  <2>2. BusInv'
    BY <1>1, <2>1, Zenon DEF BusInv
  <2> QED
    BY <1>2, <1>3, <1>4, <2>1, <2>2, Zenon DEF BusInv
<1>5. CASE ~IsTerminal(s)
  <2>1. /\ waiting' = waiting
        /\ \/ events' = events
           \/ Len(events[i]) < PublishBuffer /\ events' = [events EXCEPT ![i] = Append(@, s)]
    BY <1>5, Zenon DEF notifyWatchers
  <2>2. /\ Append(events[i], s) \in Seq(QueryState) /\ Len(events[i]) \in Nat
        /\ Len(Append(events[i], s)) = Len(events[i]) + 1
    BY AppendProperties, LenProperties DEF BusInv
  <2>3. events' \in [Instance -> Seq(QueryState)] /\ \A j \in Instance : Len(events'[j]) <= PublishBuffer
    <3>1. CASE events' = events
      BY <3>1, Zenon DEF BusInv
    <3>2. CASE Len(events[i]) < PublishBuffer /\ events' = [events EXCEPT ![i] = Append(@, s)]
      <4>1. \A j \in Instance : events'[j] = IF j = i THEN Append(events[i], s) ELSE events[j]
        BY <3>2, Zenon DEF BusInv
      <4>2. events' \in [Instance -> Seq(QueryState)]
        BY <2>2, <3>2, Zenon DEF BusInv
      <4>3. Len(Append(events[i], s)) <= PublishBuffer
        BY <2>2, <3>2, BuffersHold
      <4> QED
        BY <4>1, <4>2, <4>3, Zenon DEF BusInv
    <3> QED
      BY <2>1, <3>1, <3>2, Zenon
  <2>4. BusInv'
    BY <1>1, <2>1, <2>3, Zenon DEF BusInv
  <2> QED
    BY <1>2, <1>3, <2>1, <2>4, Zenon
<1> QED
  BY <1>4, <1>5, Zenon

(* Nothing has happened yet. *)
LEMMA EventsInit == Init => IInv
<1> SUFFICES ASSUME Init PROVE IInv
  OBVIOUS
<1> USE DEF Init
<1>1. WatchInv /\ wpc[Sync] = "idle" /\ Sync \notin watchers
  BY WatchInitInv, SyncIsWatcher, Zenon DEF WatchInit
<1>2. <<>> \in Seq(QueryState) /\ Len(<<>>) = 0
  BY EmptySeq, Zenon
<1>3. InOrder(<<seen>> \o chan)
  <2>1. <<"NONE">> \o <<>> = <<"NONE">> /\ Len(<<"NONE">>) = 1
    OBVIOUS
  <2> QED
    BY <2>1 DEF InOrder
<1>4. SubInv
  <2>1. Len(chan) <= WatcherBuffer
    BY <1>2, BuffersHold
  <2> QED
    BY <1>1, <1>2, <1>3, <2>1, Zenon DEF SubInv, States
<1>5. RunInv /\ LinkInv
  BY <1>1, Zenon DEF RunInv, LinkInv, States, RunAt, Instance
<1>6. BusInv
  <2>1. 0 <= PublishBuffer
    BY BuffersHold
  <2>2. \A i \in Instance : events[i] = <<>> /\ control[i] = <<>>
    OBVIOUS
  <2>3. events \in [Instance -> Seq(QueryState)] /\ control \in [Instance -> Seq(QueryState)]
    BY <1>2, Zenon
  <2>4. \A i \in Instance : Len(events[i]) <= PublishBuffer /\ Len(control[i]) = 0
    BY <1>2, <2>1, <2>2, Zenon
  <2>5. waiting \in [Instance -> SUBSET Verdicts] /\ lost \in BOOLEAN
    BY Zenon
  <2> QED
    BY <2>3, <2>4, <2>5 DEF BusInv
<1> QED
  BY <1>4, <1>5, <1>6, Parts, Zenon

(* The run announces itself: each event is no earlier than the one before. *)
LEMMA AnnounceKeeps ==
  ASSUME IInv, SubmitPending \/ MarkRunning \/ Progress \/ AnnounceVerdict \/ AnnounceOwnerLost
  PROVE  IInv'
<1>1. SubInv /\ RunInv /\ BusInv /\ LinkInv /\ Owner \in Instance /\ Peer \in Instance /\ Owner # Peer
  BY Parts, InstancesDiffer, Zenon DEF Instance
<1>2. wpc[Sync] = "idle" => Sync \notin watchers
  BY <1>1, SyncIsWatcher, Zenon DEF SubInv, WatchInv, ClosedOnce
<1>3. CASE SubmitPending
  <2>1. notifyWatchers(Owner, "PENDING") /\ Sync \notin watchers
    BY <1>1, <1>2, <1>3, Zenon DEF SubmitPending, LinkInv
  <2>2. SubInv' /\ BusInv' /\ wpc' = wpc /\ waiting'[Owner] = waiting[Owner]
    BY <1>1, <2>1, NotifyKeeps, Zenon DEF QueryState, IsTerminal
  <2>3. RunInv' /\ LinkInv'
    BY <1>1, <1>3, <2>2, Zenon
      DEF SubmitPending, RunInv, LinkInv, RunAt, States, QueryState, Registered
  <2> QED
    BY <2>2, <2>3, Parts, Zenon
<1>4. CASE MarkRunning \/ Progress
  <2>1. notifyWatchers(Owner, "RUNNING") /\ run \in {"launched", "running"} /\ run' = "running"
    BY <1>4, Zenon DEF MarkRunning, Progress
  <2>2. SubInv' /\ BusInv' /\ wpc' = wpc /\ waiting'[Owner] = waiting[Owner]
    BY <1>1, <2>1, NotifyKeeps, RankBounds DEF QueryState, IsTerminal
  <2>3. RunInv' /\ LinkInv'
    BY <1>1, <1>4, <2>1, <2>2, Zenon
      DEF MarkRunning, Progress, RunInv, LinkInv, RunAt, States, QueryState, Registered
  <2> QED
    BY <2>2, <2>3, Parts, Zenon
<1>5. CASE AnnounceVerdict
  <2>1. notifyWatchers(Owner, verdict) /\ verdict \in Verdicts /\ run = "settled" /\ run' = "notified"
    BY <1>1, <1>5, Zenon DEF AnnounceVerdict, RunInv
  <2>2. verdict \in QueryState /\ IsTerminal(verdict)
    BY <2>1, Zenon DEF Verdicts, QueryState, IsTerminal
  <2>3. SubInv' /\ BusInv' /\ wpc' = wpc
    BY <1>1, <2>1, <2>2, NotifyKeeps, RankBounds
  <2>4. RunInv' /\ LinkInv'
    BY <1>1, <1>5, <2>1, <2>3, Zenon DEF AnnounceVerdict, RunInv, LinkInv, RunAt, Registered
  <2> QED
    BY <2>3, <2>4, Parts, Zenon
<1>6. CASE AnnounceOwnerLost
  <2>1. notifyWatchers(Peer, "FAILED")
    BY <1>6, Zenon DEF AnnounceOwnerLost
  <2>2. SubInv' /\ BusInv' /\ wpc' = wpc /\ waiting'[Owner] = waiting[Owner]
    BY <1>1, <2>1, NotifyKeeps, Zenon DEF QueryState, Verdicts
  <2>3. RunInv' /\ LinkInv'
    BY <1>1, <1>6, <2>2, Zenon DEF AnnounceOwnerLost, RunInv, LinkInv, Registered
  <2> QED
    BY <2>2, <2>3, Parts, Zenon
<1> QED
  BY <1>3, <1>4, <1>5, <1>6, Zenon

(* The other steps of the run, of the reaper and of Close. *)
LEMMA RunKeeps ==
  ASSUME IInv,
         \/ Launch \/ (\E s \in Outcome : Settle(s)) \/ Deregister
         \/ FailOwnerLost \/ CloseStopsPublisher
  PROVE  IInv'
<1>1. SubInv /\ RunInv /\ BusInv /\ LinkInv
  BY Parts, Zenon
<1>2. UNCHANGED <<busVars, subVars>>
  BY Zenon DEF Launch, Settle, Deregister, FailOwnerLost, CloseStopsPublisher
<1>3. SubInv' /\ BusInv' /\ waiting' = waiting /\ wpc' = wpc
  BY <1>1, <1>2, SubStands, BusStands, Zenon DEF busVars, subVars, watchVars
<1>4. RunInv' /\ LinkInv'
  <2> USE DEF RunInv, LinkInv, RunAt, Registered
  <2>1. CASE Launch
    BY <1>1, <1>3, <2>1, Zenon DEF Launch
  <2>2. ASSUME NEW s \in Outcome, Settle(s) PROVE RunInv' /\ LinkInv'
    <3>1. s \in Verdicts /\ s \in States
      BY OutcomesEnd, Zenon DEF CanTransitionTo, IsTerminal, Verdicts, States, QueryState
    <3> QED
      BY <1>1, <1>3, <2>2, <3>1, Zenon DEF Settle
  <2>3. CASE Deregister
    BY <1>1, <1>3, <2>3, Zenon DEF Deregister
  <2>4. CASE FailOwnerLost
    BY <1>1, <1>3, <2>4, Zenon DEF FailOwnerLost, States, QueryState
  <2>5. CASE CloseStopsPublisher
    BY <1>1, <1>3, <2>5, Zenon DEF CloseStopsPublisher
  <2> QED
    BY <2>1, <2>2, <2>3, <2>4, <2>5, Zenon
<1> QED
  BY <1>3, <1>4, Parts, Zenon

(* The queue, the publisher and the control channel. *)
LEMMA BusKeeps ==
  ASSUME IInv, NEW i \in Instance,
         \/ publishEvent(i) \/ controlWorker(i)
         \/ \E s \in Verdicts : EnqueueTerminal(i, s) \/ GiveUpTerminal(i, s)
  PROVE  IInv'
<1>1. SubInv /\ RunInv /\ BusInv /\ LinkInv /\ Owner \in Instance /\ Other(i) \in Instance
  BY Parts, Zenon DEF Instance, Other
<1>2. /\ events[i] \in Seq(QueryState) /\ Len(events[i]) \in Nat /\ Len(events[i]) <= PublishBuffer
      /\ control[i] \in Seq(QueryState) /\ Len(control[i]) \in Nat
      /\ control[Other(i)] \in Seq(QueryState) /\ Len(control[Other(i)]) \in Nat
      /\ PublishBuffer \in Nat
  BY <1>1, LenProperties, BuffersHold, Zenon DEF BusInv
<1>3. UNCHANGED runVars
  BY Zenon DEF publishEvent, controlWorker, EnqueueTerminal, GiveUpTerminal
<1>4. RunInv' /\ run' = run
  BY <1>1, <1>3, RunStands, Zenon DEF runVars
<1>5. ASSUME NEW s \in Verdicts, EnqueueTerminal(i, s) PROVE IInv'
  <2>1. /\ Len(events[i]) < PublishBuffer /\ events' = [events EXCEPT ![i] = Append(@, s)]
        /\ waiting' = [waiting EXCEPT ![i] = @ \ {s}] /\ UNCHANGED <<control, lost, subVars>>
    BY <1>5, Zenon DEF EnqueueTerminal
  <2>2. Append(events[i], s) \in Seq(QueryState) /\ Len(Append(events[i], s)) = Len(events[i]) + 1
    BY <1>2, AppendProperties DEF Verdicts, QueryState
  <2>3. Len(Append(events[i], s)) <= PublishBuffer
    BY <1>2, <2>1, <2>2
  <2>4. events' \in [Instance -> Seq(QueryState)] /\ \A j \in Instance : Len(events'[j]) <= PublishBuffer
    <3>1. \A j \in Instance : events'[j] = IF j = i THEN Append(events[i], s) ELSE events[j]
      BY <1>1, <2>1, Zenon DEF BusInv
    <3> QED
      BY <1>1, <2>1, <2>2, <2>3, <3>1, Zenon DEF BusInv
  <2>5. waiting' \in [Instance -> SUBSET Verdicts] /\ waiting'[Owner] \subseteq waiting[Owner]
    BY <1>1, <2>1, Zenon DEF BusInv
  <2>6. BusInv' /\ LinkInv' /\ SubInv'
    BY <1>1, <1>4, <2>1, <2>4, <2>5, SubStands, Zenon DEF BusInv, LinkInv, subVars, watchVars
  <2> QED
    BY <1>4, <2>6, Parts, Zenon
<1>6. ASSUME NEW s \in Verdicts, GiveUpTerminal(i, s) PROVE IInv'
  <2>1. /\ waiting' = [waiting EXCEPT ![i] = @ \ {s}] /\ lost' = TRUE
        /\ UNCHANGED <<events, control, subVars>>
    BY <1>6, Zenon DEF GiveUpTerminal
  <2>2. waiting' \in [Instance -> SUBSET Verdicts] /\ waiting'[Owner] \subseteq waiting[Owner]
    BY <1>1, <2>1, Zenon DEF BusInv
  <2>3. BusInv' /\ LinkInv' /\ SubInv'
    BY <1>1, <1>4, <2>1, <2>2, SubStands, Zenon DEF BusInv, LinkInv, subVars, watchVars
  <2> QED
    BY <1>4, <2>3, Parts, Zenon
<1>7. CASE publishEvent(i)
  <2>1. /\ events[i] # <<>> /\ events' = [events EXCEPT ![i] = Tail(@)] /\ UNCHANGED <<waiting, subVars>>
        /\ \/ control' = control
           \/ /\ IsTerminal(Head(events[i]))
              /\ control' = [control EXCEPT ![Other(i)] = Append(@, Head(events[i]))]
        /\ lost' \in {lost, TRUE}
    BY <1>7, Zenon DEF publishEvent
  <2>2. Head(events[i]) \in QueryState /\ Tail(events[i]) \in Seq(QueryState) /\ Len(Tail(events[i])) = Len(events[i]) - 1
    BY <1>2, <2>1, HeadTailProperties, Zenon
  <2>3. events' \in [Instance -> Seq(QueryState)] /\ \A j \in Instance : Len(events'[j]) <= PublishBuffer
    <3>1. \A j \in Instance : events'[j] = IF j = i THEN Tail(events[i]) ELSE events[j]
      BY <1>1, <2>1, Zenon DEF BusInv
    <3>2. Len(Tail(events[i])) <= PublishBuffer
      BY <1>2, <2>2
    <3> QED
      BY <1>1, <2>1, <2>2, <3>1, <3>2, Zenon DEF BusInv
  <2>4. control' \in [Instance -> Seq(QueryState)] /\ \A j \in Instance : \A k \in 1 .. Len(control'[j]) : IsTerminal(control'[j][k])
    <3>1. CASE control' = control
      BY <1>1, <3>1, Zenon DEF BusInv
    <3>2. CASE /\ IsTerminal(Head(events[i]))
               /\ control' = [control EXCEPT ![Other(i)] = Append(@, Head(events[i]))]
      <4> DEFINE d == Append(control[Other(i)], Head(events[i]))
                 n == Len(control[Other(i)])
      <4>1. /\ d \in Seq(QueryState) /\ Len(d) = n + 1 /\ d[n + 1] = Head(events[i])
            /\ \A k \in 1 .. n : d[k] = control[Other(i)][k]
        BY <1>2, <2>2, AppendProperties
      <4>2. control' \in [Instance -> Seq(QueryState)] /\ \A j \in Instance : control'[j] = IF j = Other(i) THEN d ELSE control[j]
        BY <1>1, <3>2, <4>1, Zenon DEF BusInv
      <4>3. \A k \in 1 .. n : IsTerminal(control[Other(i)][k])
        BY <1>1, Zenon DEF BusInv
      <4> HIDE DEF d
      <4>4. \A k \in 1 .. Len(d) : IsTerminal(d[k])
        BY <1>2, <3>2, <4>1, <4>3, SMTT(20)
      <4> QED
        BY <1>1, <4>2, <4>4, Zenon DEF BusInv
    <3> QED
      BY <2>1, <3>1, <3>2, Zenon
  <2>5. BusInv' /\ LinkInv' /\ SubInv'
    BY <1>1, <1>4, <2>1, <2>3, <2>4, SubStands, Zenon DEF BusInv, LinkInv, subVars, watchVars
  <2> QED
    BY <1>4, <2>5, Parts, Zenon
<1>8. CASE controlWorker(i)
  <2>1. /\ control[i] # <<>> /\ control' = [control EXCEPT ![i] = Tail(@)]
        /\ UNCHANGED <<events, waiting, lost>>
        /\ UNCHANGED subVars \/ deliverEvent(i, Head(control[i]))
    BY <1>8, Zenon DEF controlWorker
  <2>2. /\ Head(control[i]) \in QueryState /\ Tail(control[i]) \in Seq(QueryState)
        /\ Len(Tail(control[i])) = Len(control[i]) - 1 /\ Head(control[i]) = control[i][1]
        /\ \A k \in 1 .. Len(Tail(control[i])) : Tail(control[i])[k] = control[i][k + 1]
        /\ Len(control[i]) \in Nat \ {0}
    BY <1>2, <2>1, HeadTailProperties, EmptySeq
  <2>3. \A k \in 1 .. Len(control[i]) : IsTerminal(control[i][k])
    BY <1>1, Zenon DEF BusInv
  <2>4. SubInv' /\ wpc' = wpc
    <3>1. Rank(Head(control[i])) = 3
      BY <2>2, <2>3, RankBounds
    <3>2. CASE UNCHANGED subVars
      BY <1>1, <3>2, SubStands, Zenon DEF subVars, watchVars
    <3>3. CASE deliverEvent(i, Head(control[i]))
      BY <1>1, <2>2, <3>1, <3>3, DeliverKeeps
    <3> QED
      BY <2>1, <3>2, <3>3, Zenon
  <2>5. control' \in [Instance -> Seq(QueryState)] /\ \A j \in Instance : \A k \in 1 .. Len(control'[j]) : IsTerminal(control'[j][k])
    <3>1. control' \in [Instance -> Seq(QueryState)] /\ \A j \in Instance : control'[j] = IF j = i THEN Tail(control[i]) ELSE control[j]
      BY <1>1, <2>1, <2>2, Zenon DEF BusInv
    <3>2. ASSUME NEW k \in 1 .. Len(Tail(control[i])) PROVE IsTerminal(Tail(control[i])[k])
      <4>1. k + 1 \in 1 .. Len(control[i])
        BY <2>2
      <4>2. Tail(control[i])[k] = control[i][k + 1] /\ IsTerminal(control[i][k + 1])
        BY <2>2, <2>3, <4>1, Zenon
      <4> QED
        BY <4>2, Zenon
    <3> QED
      BY <1>1, <3>1, <3>2, ZenonT(20) DEF BusInv
  <2>6. BusInv' /\ LinkInv'
    BY <1>1, <1>4, <2>1, <2>4, <2>5, Zenon DEF BusInv, LinkInv
  <2> QED
    BY <1>4, <2>4, <2>6, Parts, Zenon
<1> QED
  BY <1>5, <1>6, <1>7, <1>8, Zenon

(* The subscription of the synchronous submission. *)
LEMMA SyncKeeps ==
  ASSUME IInv, SyncResolve \/ SyncWatchFails \/ SyncRegister \/ SyncReceive \/ SyncClientLeaves
  PROVE  IInv'
<1>1. SubInv /\ RunInv /\ BusInv /\ LinkInv /\ WatchInv /\ Sync \in Watcher /\ ctxDone \subseteq Watcher
  BY Parts, SyncIsWatcher, Zenon DEF SubInv, WatchInv, WatchTypeOK
<1>2. UNCHANGED <<runVars, busVars>>
  BY Zenon DEF SyncResolve, SyncWatchFails, SyncRegister, SyncReceive, SyncClientLeaves
<1>3. RunInv' /\ BusInv' /\ run' = run /\ waiting' = waiting
  BY <1>1, <1>2, RunStands, BusStands, Zenon DEF runVars, busVars
<1>4. /\ wpc \in [Watcher -> {"idle", "resolved", "watching", "released", "failed"}]
      /\ current \in [Watcher -> QueryState \cup {"NONE"}]
      /\ Sync \in watchers => wpc[Sync] = "watching"
  BY <1>1, Zenon DEF WatchInv, WatchTypeOK, ClosedOnce
<1>5. CASE SyncResolve
  <2>1. /\ run = "pending" /\ WatchResolve(Sync, stored) /\ stored \in QueryState /\ UNCHANGED <<chan, seen, ctxDone, watchers>>
        /\ wpc[Sync] = "idle" /\ wpc'[Sync] = "resolved" /\ current'[Sync] = stored
    BY <1>1, <1>4, <1>5, Zenon DEF SyncResolve, WatchResolve, RunInv, States
  <2>2. WatchInv'
    BY <1>1, <2>1, WatchKeeps, Zenon
  <2>3. SubInv' /\ LinkInv'
    BY <1>1, <1>3, <1>4, <2>1, <2>2, Zenon DEF SubInv, LinkInv
  <2> QED
    BY <1>3, <2>3, Parts, Zenon
<1>6. CASE SyncWatchFails
  <2>1. /\ run = "pending" /\ WatchFails(Sync) /\ UNCHANGED <<chan, seen, ctxDone, watchers, current>>
        /\ wpc[Sync] = "idle" /\ wpc'[Sync] = "failed"
    BY <1>4, <1>6, SyncIsWatcher, Zenon DEF SyncWatchFails, WatchFails
  <2>2. WatchInv'
    BY <1>1, <2>1, WatchKeeps, Zenon
  <2>3. SubInv' /\ LinkInv'
    BY <1>1, <1>3, <1>4, <2>1, <2>2, Zenon DEF SubInv, LinkInv
  <2> QED
    BY <1>3, <2>3, Parts, Zenon
<1>7. CASE SyncRegister
  <2> DEFINE s == current[Sync]
  <2>1. /\ WatchRegister(Sync) /\ chan' = <<s>> /\ UNCHANGED <<seen, ctxDone>> /\ wpc[Sync] = "resolved"
        /\ wpc'[Sync] \in {"watching", "released"}
        /\ IsTerminal(s) => watchers' = watchers
    BY <1>4, <1>7, SyncIsWatcher, Zenon DEF SyncRegister, WatchRegister
  <2>2. s \in QueryState /\ seen = "NONE" /\ Sync \notin watchers /\ run # "new"
    BY <1>1, <1>4, <2>1, Zenon DEF SubInv, LinkInv
  <2>3. WatchInv'
    BY <1>1, <2>1, WatchKeeps, Zenon
  <2> HIDE DEF s
  <2>4. Rank(s) \in 0 .. 3 /\ (~IsTerminal(s) => Rank(s) < 3) /\ Rank("NONE") = 0
    BY <2>2, RankBounds DEF States, Rank, IsTerminal, QueryState
  <2>5. <<s>> \in Seq(QueryState) /\ Len(<<s>>) = 1 /\ <<s>>[1] = s /\ 1 <= WatcherBuffer
    BY <2>2, BuffersHold
  <2>6. InOrder(<<"NONE">> \o <<s>>)
    <3> DEFINE c == <<"NONE">> \o <<s>>
    <3>1. <<"NONE">> \in Seq(States) /\ <<s>> \in Seq(States) /\ Len(<<"NONE">>) = 1
      BY <2>2 DEF States
    <3>2. Len(c) = 2 /\ c[1] = "NONE" /\ c[2] = s
      BY <2>5, <3>1, ConcatProperties
    <3> HIDE DEF c
    <3> QED
      BY <2>4, <3>2 DEF InOrder
  <2>7. Sync \in watchers' => Rank(seen') < 3 /\ \A k \in 1 .. Len(chan') : Rank(chan'[k]) < 3
    BY <2>1, <2>2, <2>4, <2>5
  <2>8. SubInv' /\ LinkInv'
    BY <1>1, <1>3, <2>1, <2>2, <2>3, <2>5, <2>6, <2>7, Zenon DEF SubInv, LinkInv, States
  <2> QED
    BY <1>3, <2>8, Parts, Zenon
<1>8. CASE SyncReceive
  <2>1. /\ UNCHANGED <<watchers, wpc, current, closes>> /\ ctxDone' \subseteq Watcher
        /\ \/ UNCHANGED <<seen, chan>>
           \/ chan # <<>> /\ seen' = Head(chan) /\ chan' = Tail(chan)
    BY <1>1, <1>8, Zenon DEF SyncReceive
  <2>2. WatchInv' /\ LinkInv'
    BY <1>1, <1>3, <2>1, WatchStands, Zenon DEF LinkInv
  <2>3. CASE UNCHANGED <<seen, chan>>
    BY <1>1, <1>3, <2>1, <2>2, <2>3, Parts, Zenon DEF SubInv
  <2>4. CASE chan # <<>> /\ seen' = Head(chan) /\ chan' = Tail(chan)
    <3>1. chan \in Seq(QueryState) /\ chan \in Seq(States) /\ seen \in States
      BY <1>1, SeqMonotonic, Zenon DEF SubInv, States
    <3>2. /\ InOrder(<<Head(chan)>> \o Tail(chan)) /\ Head(chan) \in States
          /\ Head(chan) = chan[1] /\ Len(Tail(chan)) = Len(chan) - 1 /\ Len(chan) \in Nat \ {0}
          /\ \A k \in 1 .. Len(Tail(chan)) : Tail(chan)[k] = chan[k + 1]
      BY <1>1, <2>4, <3>1, OrderTake, EmptySeq, Zenon DEF SubInv
    <3>3. Tail(chan) \in Seq(QueryState)
      BY <2>4, <3>1, HeadTailProperties, Zenon
    <3>4. Len(Tail(chan)) <= WatcherBuffer
      BY <1>1, <3>2, BuffersHold DEF SubInv
    <3>5. Sync \in watchers => Rank(seen') < 3 /\ \A k \in 1 .. Len(chan') : Rank(chan'[k]) < 3
      <4>1. Sync \in watchers => \A k \in 1 .. Len(chan) : Rank(chan[k]) < 3
        BY <1>1, Zenon DEF SubInv
      <4>2. seen' = chan[1] /\ \A k \in 1 .. Len(chan') : chan'[k] = chan[k + 1] /\ k + 1 \in 1 .. Len(chan)
        BY <2>4, <3>2
      <4>3. 1 \in 1 .. Len(chan)
        BY <3>2
      <4> QED
        BY <4>1, <4>2, <4>3, Zenon
    <3>6. wpc[Sync] \notin {"idle", "resolved"}
      BY <1>1, <2>4, Zenon DEF SubInv
    <3>7. SubInv'
      BY <2>1, <2>2, <2>4, <3>2, <3>3, <3>4, <3>5, <3>6, Zenon DEF SubInv
    <3> QED
      BY <1>3, <2>2, <3>7, Parts, Zenon
  <2> QED
    BY <2>1, <2>3, <2>4, Zenon
<1>9. CASE SyncClientLeaves
  <2>1. UNCHANGED <<watchers, wpc, current, closes, chan, seen>> /\ ctxDone' \subseteq Watcher
    BY <1>1, <1>9, Zenon DEF SyncClientLeaves
  <2>2. SubInv' /\ LinkInv'
    BY <1>1, <1>3, <2>1, WatchStands, Zenon DEF SubInv, LinkInv
  <2> QED
    BY <1>3, <2>2, Parts, Zenon
<1> QED
  BY <1>5, <1>6, <1>7, <1>8, <1>9, Zenon

(* The subscriptions of the peer, and the goroutines of Watch. *)
LEMMA OthersKeep ==
  ASSUME IInv, (\E w \in Remote : RemoteWatch(w)) \/ (\E w \in Watcher : WatchEnds(w))
  PROVE  IInv'
<1>1. SubInv /\ RunInv /\ BusInv /\ LinkInv /\ WatchInv /\ Sync \in Watcher /\ ctxDone \subseteq Watcher
  BY Parts, SyncIsWatcher, Zenon DEF SubInv, WatchInv, WatchTypeOK
<1>2. UNCHANGED <<chan, seen, runVars, busVars>>
  BY Zenon DEF RemoteWatch, WatchEnds
<1>3. RunInv' /\ BusInv' /\ run' = run /\ waiting' = waiting
  BY <1>1, <1>2, RunStands, BusStands, Zenon DEF runVars, busVars
<1>4. /\ wpc \in [Watcher -> {"idle", "resolved", "watching", "released", "failed"}]
      /\ current \in [Watcher -> QueryState \cup {"NONE"}] /\ stored \in States
  BY <1>1, Zenon DEF WatchInv, WatchTypeOK, RunInv
<1> DEFINE Kept ==
             /\ WatchInv' /\ (Sync \in watchers' => Sync \in watchers)
             /\ current'[Sync] = current[Sync]
             /\ wpc'[Sync] = wpc[Sync] \/ (wpc[Sync] = "watching" /\ wpc'[Sync] = "released")
<1>5. Kept
  <2>1. ASSUME NEW w \in Remote, RemoteWatch(w) PROVE Kept
    <3>1. w \in Watcher /\ w # Sync
      BY Zenon DEF Remote
    <3>2. /\ WatchFails(w) \/ WatchRegister(w) \/ (stored \in QueryState /\ WatchResolve(w, stored))
          /\ ctxDone' = ctxDone
      BY <1>4, <2>1, Zenon DEF RemoteWatch, WatchResolve, WatchRegister, States
    <3>3. WatchInv'
      BY <1>1, <3>1, <3>2, WatchKeeps, Zenon
    <3> QED
      BY <1>1, <1>4, <3>1, <3>2, <3>3 DEF WatchResolve, WatchFails, WatchRegister
  <2>2. ASSUME NEW w \in Watcher, WatchEnds(w) PROVE Kept
    <3>1. unwatch(w)
      BY <2>2, Zenon DEF WatchEnds
    <3>2. WatchInv'
      BY <1>1, <3>1, unwatchKeeps, Zenon
    <3> QED
      BY <1>1, <1>4, <3>1, <3>2, Zenon DEF unwatch, dropWatchersLocked
  <2> QED
    BY <2>1, <2>2, Zenon
<1>6. SubInv' /\ LinkInv'
  BY <1>1, <1>2, <1>3, <1>5, Zenon DEF SubInv, LinkInv
<1> QED
  BY <1>3, <1>6, Parts, Zenon

(* The process goes, with everything it held. *)
LEMMA ExitKeeps ==
  ASSUME IInv, Exit
  PROVE  IInv'
<1>1. SubInv /\ RunInv /\ BusInv /\ LinkInv /\ Sync \in Watcher /\ Owner \in Instance
  BY Parts, SyncIsWatcher, Zenon DEF Instance
<1>2. WatchInv'
  <2>1. /\ watchers' = watchers \ {Sync} /\ ctxDone' = ctxDone \ {Sync}
        /\ wpc' = [wpc EXCEPT ![Sync] = "idle"]
        /\ current' = [current EXCEPT ![Sync] = "NONE"]
        /\ closes' = [closes EXCEPT ![Sync] = 0]
    BY Zenon DEF Exit
  <2>2. WatchInv
    BY <1>1, Zenon DEF SubInv
  <2>3. WatchTypeOK'
    BY <1>1, <2>1, <2>2 DEF WatchInv, WatchTypeOK
  <2>4. \A w \in Watcher : /\ wpc'[w] = IF w = Sync THEN "idle" ELSE wpc[w]
                           /\ closes'[w] = IF w = Sync THEN 0 ELSE closes[w]
    BY <1>1, <2>1, <2>2, Zenon DEF WatchInv, WatchTypeOK
  <2>5. ClosedOnce'
    BY <2>1, <2>2, <2>4 DEF WatchInv, ClosedOnce
  <2>6. \A w \in Watcher : wpc'[w] \in {"idle", "resolved", "failed"} => closes'[w] = 0
    BY <2>2, <2>4, Zenon DEF WatchInv
  <2> QED
    BY <2>3, <2>5, <2>6, Zenon DEF WatchInv
<1>3. wpc'[Sync] = "idle" /\ Sync \notin watchers' /\ chan' = <<>> /\ seen' = "NONE"
  BY <1>1, Zenon DEF Exit, SubInv, WatchInv, WatchTypeOK
<1>4. SubInv'
  <2> DEFINE c == <<"NONE">> \o <<>>
  <2>1. <<"NONE">> \in Seq(States) /\ Len(<<"NONE">>) = 1 /\ <<>> \in Seq(States) /\ <<>> \in Seq(QueryState) /\ Len(<<>>) = 0
    BY DEF States
  <2>2. Len(c) = 1
    BY <2>1, ConcatProperties
  <2> HIDE DEF c
  <2>3. InOrder(c)
    BY <2>2 DEF InOrder
  <2>4. chan' \in Seq(QueryState) /\ Len(chan') <= WatcherBuffer
    BY <1>3, <2>1, BuffersHold
  <2>5. seen' \in States /\ <<seen'>> \o chan' = c
    BY <1>3, Zenon DEF States, c
  <2> QED
    BY <1>2, <1>3, <2>3, <2>4, <2>5, Zenon DEF SubInv
<1>5. RunInv'
  BY <1>1, Zenon DEF Exit, RunInv, RunAt, Registered
<1>6. BusInv'
  <2>1. /\ lost' \in BOOLEAN
        /\ events' = [events EXCEPT ![Owner] = <<>>]
        /\ waiting' = [waiting EXCEPT ![Owner] = {}]
        /\ control' = [control EXCEPT ![Owner] = <<>>]
    BY Zenon DEF Exit
  <2>2. <<>> \in Seq(QueryState) /\ Len(<<>>) = 0
    OBVIOUS
  <2>3. /\ events' \in [Instance -> Seq(QueryState)] /\ waiting' \in [Instance -> SUBSET Verdicts]
        /\ control' \in [Instance -> Seq(QueryState)]
    BY <1>1, <2>1, <2>2, Zenon DEF BusInv
  <2>4. \A i \in Instance : Len(events'[i]) <= PublishBuffer
    BY <1>1, <2>1, <2>2, BuffersHold DEF BusInv
  <2>5. ASSUME NEW i \in Instance, NEW k \in 1 .. Len(control'[i]) PROVE IsTerminal(control'[i][k])
    BY <1>1, <2>1, <2>2, <2>5 DEF BusInv
  <2> QED
    BY <2>1, <2>3, <2>4, <2>5, Zenon DEF BusInv
<1>7. LinkInv'
  BY <1>1, Zenon DEF Exit, LinkInv, BusInv
<1> QED
  BY <1>4, <1>5, <1>6, <1>7, Parts, Zenon

(* Every step. *)
LEMMA EventsNext == IInv /\ [Next]_vars => IInv'
<1> SUFFICES ASSUME IInv, [Next]_vars PROVE IInv'
  OBVIOUS
<1>1. CASE SubmitPending \/ MarkRunning \/ Progress \/ AnnounceVerdict \/ AnnounceOwnerLost
  BY <1>1, AnnounceKeeps, Zenon
<1>2. CASE Launch \/ (\E s \in Outcome : Settle(s)) \/ Deregister \/ FailOwnerLost \/ CloseStopsPublisher
  BY <1>2, RunKeeps, Zenon
<1>3. CASE \E i \in Instance : \/ publishEvent(i) \/ controlWorker(i)
                               \/ \E s \in Verdicts : EnqueueTerminal(i, s) \/ GiveUpTerminal(i, s)
  BY <1>3, BusKeeps, Zenon
<1>4. CASE SyncResolve \/ SyncWatchFails \/ SyncRegister \/ SyncReceive \/ SyncClientLeaves
  BY <1>4, SyncKeeps, Zenon
<1>5. CASE (\E w \in Remote : RemoteWatch(w)) \/ (\E w \in Watcher : WatchEnds(w))
  BY <1>5, OthersKeep, Zenon
<1>6. CASE CloseEnds \/ Crash
  BY <1>6, ExitKeeps, Zenon DEF CloseEnds, Crash
<1>7. CASE UNCHANGED vars
  BY <1>7, Parts, SubStands, RunStands, BusStands, Zenon
    DEF vars, runVars, busVars, subVars, watchVars, LinkInv
<1> QED
  BY <1>1, <1>2, <1>3, <1>4, <1>5, <1>6, <1>7, Zenon DEF Next

(* The inductive invariant holds at every moment. *)
LEMMA EventsAlways == Spec => []IInv
BY EventsInit, EventsNext, PTL DEF Spec

(***************************************************************************)
(* What a synchronous submission receives never goes back, and every       *)
(* channel is closed once, whatever the buffers hold and however many      *)
(* subscriptions the peer has (Watch, deliverEvent, dropWatcherLocked).    *)
(***************************************************************************)
THEOREM SyncAlwaysInOrder == Spec => []SyncOrder
<1>1. IInv => SyncOrder
  BY Zenon DEF IInv
<1> QED
  BY <1>1, EventsAlways, PTL

(***************************************************************************)
(* While the owner executes the query only the run's own verdict, the      *)
(* client or the end of the process ends the subscription of a synchronous *)
(* submission (controlWorker).                                             *)
(***************************************************************************)
THEOREM SyncEndsByOwnVerdict == Spec => OwnVerdictEndsSync
<1> DEFINE Allowed == Registered /\ Sync \in watchers \ watchers' /\ Sync \notin ctxDone
                        => run = "settled" \/ proc' = "down"
<1>1. ASSUME IInv, Next PROVE Allowed
  <2> SUFFICES ASSUME Registered, Sync \in watchers, Sync \notin watchers', Sync \notin ctxDone
               PROVE  run = "settled" \/ proc' = "down"
    OBVIOUS
  <2>1. Peer # Owner /\ Sync \notin Remote /\ HeldAt(Peer) = Remote
    BY InstancesDiffer, Zenon DEF HeldAt, Remote
  <2>2. ASSUME NEW s, deliverEvent(Peer, s) PROVE FALSE
    BY <2>1, <2>2, Zenon DEF deliverEvent, dropWatchersLocked
  <2>3. ASSUME NEW s \in {"PENDING", "RUNNING"}, notifyWatchers(Owner, s) PROVE FALSE
    BY <2>3, Zenon DEF notifyWatchers, deliverEvent, IsTerminal
  <2>4. CASE SubmitPending \/ MarkRunning \/ Progress
    BY <2>3, <2>4, Zenon DEF SubmitPending, MarkRunning, Progress
  <2>5. CASE AnnounceVerdict
    BY <2>5, Zenon DEF AnnounceVerdict
  <2>6. CASE AnnounceOwnerLost
    BY <2>2, <2>6, Zenon DEF AnnounceOwnerLost, notifyWatchers
  <2>7. CASE Launch \/ (\E s \in Outcome : Settle(s)) \/ Deregister \/ FailOwnerLost \/ CloseStopsPublisher
    BY <2>7, Zenon
      DEF Launch, Settle, Deregister, FailOwnerLost, CloseStopsPublisher, subVars, watchVars
  <2>8. ASSUME NEW i \in Instance, controlWorker(i) PROVE FALSE
    BY <2>2, <2>8, Zenon DEF controlWorker, Instance, subVars, watchVars
  <2>9. ASSUME NEW i \in Instance,
               publishEvent(i) \/ \E s \in Verdicts : EnqueueTerminal(i, s) \/ GiveUpTerminal(i, s)
        PROVE  FALSE
    BY <2>9, Zenon DEF publishEvent, EnqueueTerminal, GiveUpTerminal, subVars, watchVars
  <2>10. CASE SyncResolve \/ SyncWatchFails \/ SyncRegister \/ SyncReceive \/ SyncClientLeaves
    BY <2>10, Zenon DEF SyncResolve, SyncWatchFails, SyncRegister, SyncReceive, SyncClientLeaves,
                 WatchResolve, WatchFails, WatchRegister
  <2>11. CASE \E w \in Remote : RemoteWatch(w)
    BY <2>11, Zenon DEF RemoteWatch, WatchResolve, WatchFails, WatchRegister
  <2>12. CASE \E w \in Watcher : WatchEnds(w)
    BY <2>12, Zenon DEF WatchEnds, unwatch, dropWatchersLocked
  <2>13. CASE CloseEnds \/ Crash
    BY <2>13, Zenon DEF CloseEnds, Crash, Exit
  <2> QED
    BY <1>1, <2>4, <2>5, <2>6, <2>7, <2>8, <2>9, <2>10, <2>11, <2>12, <2>13, Zenon DEF Next
<1>2. IInv /\ [Next]_vars => [Allowed]_vars
  BY <1>1, Zenon
<1> QED
  BY <1>2, EventsAlways, PTL DEF Spec, OwnVerdictEndsSync

(***************************************************************************)
(* A Close that waited for the runs, and whose publisher emptied its       *)
(* queue, loses no verdict (Close, eventPublisher).                        *)
(***************************************************************************)
THEOREM FlushAlwaysPublishes == Spec => []FlushedIsPublished
<1>1. IInv => FlushedIsPublished
  <2> SUFFICES ASSUME IInv, proc = "flushing", events[Owner] = <<>> PROVE ~Unpublished
    BY Zenon DEF FlushedIsPublished
  <2>1. run \in {"new", "gone"} /\ waiting[Owner] = {}
    BY Parts, Zenon DEF RunInv, LinkInv, Registered
  <2>2. Range(events[Owner]) = {}
    BY DEF Range
  <2> QED
    BY <2>1, <2>2, Zenon DEF Unpublished
<1> QED
  BY <1>1, EventsAlways, PTL

-----------------------------------------------------------------------------
(* A connection.                                                           *)

(* What conn.subs lists bounds what is live. *)
LEMMA LiveBound ==
  ASSUME NEW S, IsFiniteSet(S), Cardinality(S) <= MaxSubscriptions, NEW live \in SUBSET S
  PROVE  Cardinality(live) <= MaxSubscriptions
<1>1. IsFiniteSet(live) /\ Cardinality(live) <= Cardinality(S)
  BY FS_Subset, Zenon
<1>2. Cardinality(S) \in Nat /\ Cardinality(live) \in Nat
  BY <1>1, FS_CardinalityType, Zenon
<1> QED
  BY <1>1, <1>2, BudgetHolds

(* A step that takes entries out of conn.subs and cancels them, and starts *)
(* no pump.                                                                *)
LEMMA UnsubscribeKeeps ==
  ASSUME HubIInv, NEW gone, subs' = subs \ gone, subs \cap gone \subseteq ctxDone',
         ctxDone \subseteq ctxDone', HubTypeOK', WatchInv',
         \A w \in Watcher : pump'[w] = "pumping" => pump[w] = "pumping",
         \A w \in Watcher : pump'[w] # "none" => wpc'[w] \in {"watching", "released"},
         sub' \subseteq sub
  PROVE  HubIInv'
<1> DEFINE live == {w \in Watcher : pump'[w] = "pumping" /\ w \notin ctxDone'}
<1>1. \A w \in Watcher : pump[w] = "pumping" /\ w \notin ctxDone => w \in subs
  BY Zenon DEF HubIInv, LivePumpIsListed
<1>2. live \subseteq subs'
  BY <1>1, Zenon
<1>3. IsFiniteSet(subs') /\ Cardinality(subs') <= MaxSubscriptions
  <2>1. IsFiniteSet(subs) /\ Cardinality(subs) <= MaxSubscriptions
    BY Zenon DEF HubIInv
  <2>2. IsFiniteSet(subs') /\ Cardinality(subs') <= Cardinality(subs)
    BY <2>1, FS_Subset, Zenon
  <2> QED
    BY <2>1, <2>2, FS_CardinalityType, BudgetHolds
<1>4. \A v, w \in subs' : QueryOf(v) = QueryOf(w) => v = w
  BY Zenon DEF HubIInv
<1>5. Cardinality(live) <= MaxSubscriptions
  BY <1>2, <1>3, LiveBound, Zenon
<1>6. LivePumpIsListed'
  BY <1>2, <1>4, <1>5, Zenon DEF LivePumpIsListed
<1>7. sub' \subseteq subs' \cup ctxDone'
  BY Zenon DEF HubIInv
<1> QED
  BY <1>3, <1>4, <1>6, <1>7, Zenon DEF HubIInv

(* A connection starts with no entry. *)
LEMMA HubInitInv == HubInit => HubIInv
<1> SUFFICES ASSUME HubInit PROVE HubIInv
  OBVIOUS
<1> USE DEF HubInit
<1>1. WatchInv
  BY WatchInitInv, Zenon
<1>2. IsFiniteSet({}) /\ Cardinality({}) = 0
  BY FS_EmptySet, Zenon
<1>3. HubTypeOK
  BY <1>1, <1>2, Zenon DEF HubTypeOK, WatchInv, Nobody, QueryState
<1>4. {w \in Watcher : pump[w] = "pumping" /\ w \notin ctxDone} = {}
  OBVIOUS
<1>5. LivePumpIsListed
  BY <1>2, <1>3, <1>4, BudgetHolds DEF LivePumpIsListed
<1> QED
  BY <1>1, <1>2, <1>5, BudgetHolds DEF HubIInv, Nobody

(* Queries that finish, and what the manager does with their subscriptions. *)
LEMMA ManagerKeeps ==
  ASSUME HubIInv,
         \/ \E q \in Query : Finish(q) \/ DeliverTerminal(q) \/ LoseTerminal(q)
         \/ \E w \in Watcher : ConnWatchEnds(w)
  PROVE  HubIInv'
<1>1. UNCHANGED hubVars /\ ctxDone' = ctxDone
  BY Zenon DEF Finish, DeliverTerminal, LoseTerminal, ConnWatchEnds, unwatch, watchVars
<1>2. WatchInv /\ ctxDone \subseteq Watcher
  BY Zenon DEF HubIInv, WatchInv, WatchTypeOK
<1> DEFINE Kept ==
             /\ WatchInv'
             /\ \A w \in Watcher : wpc[w] \in {"watching", "released"} => wpc'[w] \in {"watching", "released"}
             /\ due' \subseteq Query /\ states' \in [Query -> QueryState]
<1>3. Kept
  <2>1. HubTypeOK
    BY Zenon DEF HubIInv, LivePumpIsListed
  <2>2. ASSUME NEW q \in Query, Finish(q) \/ LoseTerminal(q) PROVE Kept
    <3>1. UNCHANGED watchVars
      BY <2>2, Zenon DEF Finish, LoseTerminal
    <3> QED
      BY <1>2, <2>1, <2>2, <3>1, WatchStands, Zenon
        DEF watchVars, Finish, LoseTerminal, HubTypeOK, QueryState
  <2>3. ASSUME NEW q \in Query, DeliverTerminal(q) PROVE Kept
    BY <1>2, <2>1, <2>3, DropKeeps, Zenon DEF DeliverTerminal, HubTypeOK
  <2>4. ASSUME NEW w \in Watcher, ConnWatchEnds(w) PROVE Kept
    <3>1. WatchInv'
      BY <1>2, <2>4, unwatchKeeps, Zenon DEF ConnWatchEnds
    <3> QED
      BY <2>1, <2>4, <3>1, Zenon DEF ConnWatchEnds, unwatch, queryVars, HubTypeOK, WatchTypeOK
  <2> QED
    BY <2>2, <2>3, <2>4, Zenon
<1>4. HubTypeOK'
  BY <1>1, <1>3, Zenon DEF HubIInv, LivePumpIsListed, HubTypeOK, hubVars, WatchInv
<1>5. \A w \in Watcher : pump'[w] # "none" => wpc'[w] \in {"watching", "released"}
  BY <1>1, <1>3, Zenon DEF HubIInv, hubVars
<1>6. /\ subs' = subs \ {} /\ subs \cap {} \subseteq ctxDone' /\ sub' \subseteq sub /\ ctxDone \subseteq ctxDone'
      /\ pump' = pump
  BY <1>1, Zenon DEF hubVars
<1> QED
  BY <1>3, <1>4, <1>5, <1>6, UnsubscribeKeeps, ZenonT(20)

(* A "watch" message adds the one entry of its query. *)
LEMMA SubscribeKeeps ==
  ASSUME HubIInv, NEW w \in Watcher, Subscribe(w)
  PROVE  HubIInv'
<1>1. HubTypeOK /\ WatchInv /\ IsFiniteSet(subs) /\ Cardinality(subs) < MaxSubscriptions
  BY Zenon DEF HubIInv, LivePumpIsListed, Subscribe
<1>2. /\ subs' = subs \cup {w} /\ sub' = {w} /\ loop' = "subscribing"
      /\ UNCHANGED <<watchers, wpc, current, closes, ctxDone, states, due, pump>>
  BY Zenon DEF Subscribe, watchVars, queryVars
<1>3. IsFiniteSet({w}) /\ Cardinality({w}) = 1
  BY FS_Singleton, Zenon
<1>4. WatchInv'
  BY <1>1, <1>2, WatchStands, Zenon DEF WatchInv, WatchTypeOK
<1>5. HubTypeOK'
  BY <1>1, <1>2, <1>3, <1>4, Zenon DEF HubTypeOK, WatchInv
<1>6. IsFiniteSet(subs') /\ Cardinality(subs') <= MaxSubscriptions
  <2>1. IsFiniteSet(subs \cup {w}) /\ Cardinality(subs \cup {w}) <= Cardinality(subs) + 1
    BY <1>1, FS_AddElement, FS_CardinalityType
  <2> QED
    BY <1>1, <1>2, <2>1, FS_CardinalityType, BudgetHolds
<1>7. \A u, v \in subs' : QueryOf(u) = QueryOf(v) => u = v
  BY <1>2, Zenon DEF HubIInv, Subscribe, EntryOf
<1> DEFINE live == {v \in Watcher : pump'[v] = "pumping" /\ v \notin ctxDone'}
<1>8. live \subseteq subs'
  BY <1>2, Zenon DEF HubIInv, LivePumpIsListed
<1>9. Cardinality(live) <= MaxSubscriptions
  BY <1>6, <1>8, LiveBound, Zenon
<1>10. LivePumpIsListed'
  BY <1>5, <1>7, <1>8, <1>9, Zenon DEF LivePumpIsListed
<1> QED
  BY <1>2, <1>4, <1>6, <1>7, <1>10, Zenon DEF HubIInv

(* WatchQuery, and the pump it ends with. *)
LEMMA ResolveKeeps ==
  ASSUME HubIInv, NEW w \in Watcher, SubscribeResolve(w)
  PROVE  HubIInv'
<1>1. /\ HubTypeOK /\ WatchInv /\ UNCHANGED <<subs, loop, sub, pump, states, due, ctxDone, closes, watchers>>
      /\ wpc[w] = "idle" /\ wpc' = [wpc EXCEPT ![w] = "resolved"]
  BY Zenon DEF HubIInv, LivePumpIsListed, SubscribeResolve, WatchResolve, queryVars, hubVars
<1>2. states[QueryOf(w)] \in QueryState
  BY <1>1, WatchersName, Zenon DEF HubTypeOK, QueryOf
<1>3. WatchInv'
  BY <1>1, <1>2, WatchKeeps, Zenon DEF SubscribeResolve, WatchInv, WatchTypeOK
<1>4. HubTypeOK'
  BY <1>1, <1>3, Zenon DEF HubTypeOK, WatchInv
<1>5. \A v \in Watcher : pump'[v] # "none" => wpc'[v] \in {"watching", "released"}
  BY <1>1, Zenon DEF HubIInv, WatchInv, WatchTypeOK
<1>6. /\ subs' = subs \ {} /\ subs \cap {} \subseteq ctxDone' /\ sub' \subseteq sub /\ ctxDone \subseteq ctxDone'
      /\ pump' = pump
  BY <1>1, Zenon
<1> QED
  BY <1>3, <1>4, <1>5, <1>6, UnsubscribeKeeps, Zenon

(* A pump starts with the entry in place, or canceled. *)
LEMMA RegisterKeeps ==
  ASSUME HubIInv, NEW w \in Watcher, SubscribeRegister(w)
  PROVE  HubIInv'
<1>1. /\ HubTypeOK /\ WatchInv /\ w \in subs \cup ctxDone
      /\ UNCHANGED <<subs, states, due, ctxDone>>
      /\ pump' = [pump EXCEPT ![w] = "pumping"] /\ loop' = "reading" /\ sub' = {}
  BY Zenon DEF HubIInv, LivePumpIsListed, SubscribeRegister, WatchRegister, queryVars, Nobody
<1>2. WatchInv'
  BY <1>1, WatchKeeps, Zenon DEF SubscribeRegister, WatchInv, WatchTypeOK
<1>3. HubTypeOK'
  BY <1>1, <1>2, FS_EmptySet, Zenon DEF HubTypeOK, WatchInv
<1>4. \A v \in Watcher : wpc'[v] = wpc[v] \/ (v = w /\ wpc'[v] \in {"watching", "released"})
  BY Zenon DEF HubIInv, WatchInv, WatchTypeOK, SubscribeRegister, WatchRegister
<1>5. \A v \in Watcher : pump'[v] # "none" => wpc'[v] \in {"watching", "released"}
  <2>1. wpc'[w] \in {"watching", "released"}
    BY Zenon DEF HubIInv, WatchInv, WatchTypeOK, SubscribeRegister, WatchRegister
  <2> QED
    BY <1>1, <1>4, <2>1, Zenon DEF HubIInv, HubTypeOK
<1> DEFINE live == {v \in Watcher : pump'[v] = "pumping" /\ v \notin ctxDone'}
<1>6. live \subseteq subs'
  BY <1>1, Zenon DEF HubIInv, LivePumpIsListed, HubTypeOK
<1>7. IsFiniteSet(subs') /\ Cardinality(subs') <= MaxSubscriptions /\ subs' = subs
  BY <1>1, Zenon DEF HubIInv
<1>8. Cardinality(live) <= MaxSubscriptions
  BY <1>6, <1>7, LiveBound, Zenon
<1>9. \A u, v \in subs' : QueryOf(u) = QueryOf(v) => u = v
  BY <1>1, Zenon DEF HubIInv
<1>10. LivePumpIsListed'
  BY <1>3, <1>6, <1>8, <1>9, Zenon DEF LivePumpIsListed
<1> QED
  BY <1>1, <1>2, <1>5, <1>7, <1>9, <1>10, Zenon DEF HubIInv

(* Every way an entry goes cancels its context. *)
LEMMA EntriesGo ==
  ASSUME HubIInv,
         \/ \E w \in Watcher : SubscribeFails(w) \/ PumpDone(w)
         \/ \E q \in Query : Unwatch(q)
         \/ CloseAll
  PROVE  HubIInv'
<1> DEFINE Gone(g) ==
             /\ subs' = subs \ g /\ ctxDone' = ctxDone \cup (subs \cap g) /\ UNCHANGED <<states, due>>
             /\ \A w \in Watcher : pump'[w] = "pumping" => pump[w] = "pumping"
             /\ \A w \in Watcher : pump'[w] # "none" => pump[w] # "none"
             /\ pump' \in [Watcher -> {"none", "pumping", "returned", "done"}]
             /\ sub' \subseteq sub /\ WatchInv'
             /\ loop' \in {"reading", "subscribing", "closing", "closed"}
             /\ Cardinality(sub') = (IF loop' = "subscribing" THEN 1 ELSE 0)
             /\ \A w \in Watcher : pump[w] # "none" => wpc'[w] \in {"watching", "released"}
<1>1. HubTypeOK /\ WatchInv /\ subs \subseteq Watcher /\ ctxDone \subseteq Watcher
  BY Zenon DEF HubIInv, LivePumpIsListed, HubTypeOK, WatchTypeOK
<1>2. \A w \in Watcher : pump[w] # "none" => wpc[w] \in {"watching", "released"}
  BY Zenon DEF HubIInv
<1>3. ASSUME NEW w \in Watcher, SubscribeFails(w) PROVE Gone(EntryOf(QueryOf(w)))
  <2>1. /\ subs' = subs \ EntryOf(QueryOf(w)) /\ ctxDone' = ctxDone \cup EntryOf(QueryOf(w))
        /\ UNCHANGED <<states, due, pump>> /\ loop' = "reading" /\ sub' = {}
        /\ WatchFails(w) /\ wpc' = [wpc EXCEPT ![w] = "failed"] /\ wpc[w] = "idle"
    BY <1>3, Zenon DEF SubscribeFails, unsubscribe, queryVars, Nobody, WatchFails
  <2>2. EntryOf(QueryOf(w)) = subs \cap EntryOf(QueryOf(w))
    BY Zenon DEF EntryOf
  <2>3. WatchInv'
    BY <1>1, <2>1, <2>2, WatchKeeps, Zenon
  <2> QED
    BY <1>1, <1>2, <2>1, <2>2, <2>3, FS_EmptySet, Zenon DEF HubTypeOK, WatchTypeOK
<1>4. ASSUME NEW w \in Watcher, PumpDone(w) PROVE Gone(EntryOf(QueryOf(w)))
  <2>1. /\ subs' = subs \ EntryOf(QueryOf(w)) /\ ctxDone' = ctxDone \cup EntryOf(QueryOf(w))
        /\ UNCHANGED <<states, due, loop, sub, watchers, wpc, current, closes>>
        /\ pump[w] = "returned" /\ pump' = [pump EXCEPT ![w] = "done"]
    BY <1>4, Zenon DEF PumpDone, unsubscribe, queryVars
  <2>2. EntryOf(QueryOf(w)) = subs \cap EntryOf(QueryOf(w))
    BY Zenon DEF EntryOf
  <2>3. WatchInv'
    BY <1>1, <2>1, <2>2, WatchStands, Zenon
  <2> QED
    BY <1>1, <1>2, <2>1, <2>2, <2>3, Zenon DEF HubTypeOK
<1>5. ASSUME NEW q \in Query, Unwatch(q) PROVE Gone(EntryOf(q))
  <2>1. /\ subs' = subs \ EntryOf(q) /\ ctxDone' = ctxDone \cup EntryOf(q)
        /\ UNCHANGED <<states, due, loop, sub, watchers, wpc, current, closes, pump>>
    BY <1>5, Zenon DEF Unwatch, unsubscribe, queryVars
  <2>2. EntryOf(q) = subs \cap EntryOf(q)
    BY Zenon DEF EntryOf
  <2>3. WatchInv'
    BY <1>1, <2>1, <2>2, WatchStands, Zenon
  <2> QED
    BY <1>1, <1>2, <2>1, <2>2, <2>3, Zenon DEF HubTypeOK
<1>6. ASSUME CloseAll PROVE Gone(subs)
  <2>1. /\ subs' = subs \ subs /\ ctxDone' = ctxDone \cup (subs \cap subs) /\ loop = "reading" /\ loop' = "closing"
        /\ UNCHANGED <<states, due, sub, watchers, wpc, current, closes, pump>>
    BY <1>6, Zenon DEF CloseAll, queryVars
  <2>2. WatchInv'
    BY <1>1, <2>1, WatchStands, Zenon
  <2> QED
    BY <1>1, <1>2, <2>1, <2>2, Zenon DEF HubTypeOK
<1>7. PICK g : Gone(g)
  BY <1>3, <1>4, <1>5, <1>6, Zenon
<1>8. HubTypeOK'
  BY <1>1, <1>7, Zenon DEF HubTypeOK, WatchInv
<1>9. subs \cap g \subseteq ctxDone' /\ ctxDone \subseteq ctxDone'
  BY <1>7, Zenon
<1>10. \A w \in Watcher : pump'[w] # "none" => wpc'[w] \in {"watching", "released"}
  BY <1>7, Zenon
<1> QED
  BY <1>7, <1>8, <1>9, <1>10, UnsubscribeKeeps, Zenon

(* Every step of a connection preserves the invariant. *)
LEMMA HubNextInv == HubIInv /\ [HubNext]_connVars => HubIInv'
<1> SUFFICES ASSUME HubIInv, [HubNext]_connVars PROVE HubIInv'
  OBVIOUS
<1>1. CASE \/ \E q \in Query : Finish(q) \/ DeliverTerminal(q) \/ LoseTerminal(q)
           \/ \E w \in Watcher : ConnWatchEnds(w)
  BY <1>1, ManagerKeeps, Zenon
<1>2. ASSUME NEW w \in Watcher, Subscribe(w) \/ SubscribeResolve(w) \/ SubscribeRegister(w) PROVE HubIInv'
  BY <1>2, SubscribeKeeps, ResolveKeeps, RegisterKeeps, Zenon
<1>3. CASE \/ \E w \in Watcher : SubscribeFails(w) \/ PumpDone(w)
           \/ \E q \in Query : Unwatch(q)
           \/ CloseAll
  BY <1>3, EntriesGo, Zenon
<1>4. CASE (\E w \in Watcher : PumpReturns(w)) \/ ConnClosed \/ UNCHANGED connVars
  <2>1. UNCHANGED <<watchers, wpc, current, closes, ctxDone, states, due, subs, sub>>
    BY <1>4, Zenon DEF PumpReturns, ConnClosed, connVars, watchVars, queryVars, hubVars
  <2>2. HubTypeOK /\ WatchInv /\ \A w \in Watcher : pump[w] # "none" => wpc[w] \in {"watching", "released"}
    BY Zenon DEF HubIInv, LivePumpIsListed
  <2>3. WatchInv'
    BY <2>1, <2>2, WatchStands, Zenon DEF WatchInv, WatchTypeOK
  <2>4. /\ pump' \in [Watcher -> {"none", "pumping", "returned", "done"}]
        /\ \A w \in Watcher : pump'[w] = "pumping" => pump[w] = "pumping"
        /\ \A w \in Watcher : pump'[w] # "none" => pump[w] # "none"
    BY <1>4, <2>2, Zenon DEF PumpReturns, ConnClosed, connVars, hubVars, HubTypeOK
  <2>5. loop' = loop \/ (loop = "closing" /\ loop' = "closed")
    BY <1>4, Zenon DEF PumpReturns, ConnClosed, connVars, hubVars
  <2>6. HubTypeOK'
    BY <2>1, <2>2, <2>3, <2>4, <2>5, Zenon DEF HubTypeOK, WatchInv
  <2>7. subs' = subs \ {} /\ subs \cap {} \subseteq ctxDone' /\ sub' \subseteq sub /\ ctxDone \subseteq ctxDone'
    BY <2>1, Zenon
  <2>8. \A w \in Watcher : pump'[w] # "none" => wpc'[w] \in {"watching", "released"}
    BY <2>1, <2>2, <2>4, Zenon
  <2> QED
    BY <2>3, <2>4, <2>6, <2>7, <2>8, UnsubscribeKeeps, ZenonT(20)
<1> QED
  BY <1>1, <1>2, <1>3, <1>4, Zenon DEF HubNext

(***************************************************************************)
(* For every number of queries, of subscriptions and every budget: a pump  *)
(* whose context is live is listed in conn.subs, a query has one live pump *)
(* at most, and the live pumps are within the budget of the connection.    *)
(***************************************************************************)
THEOREM LivePumpsAreListed == HubSpec => []LivePumpIsListed
<1>1. HubIInv => LivePumpIsListed
  BY Zenon DEF HubIInv
<1> QED
  BY <1>1, HubInitInv, HubNextInv, PTL DEF HubSpec

(* No channel of a connection's subscriptions is closed twice. *)
THEOREM HubClosesOnce == HubSpec => []ClosedOnce
<1>1. HubIInv => ClosedOnce
  BY Zenon DEF HubIInv, WatchInv
<1> QED
  BY <1>1, HubInitInv, HubNextInv, PTL DEF HubSpec
=============================================================================
