---------------------------- MODULE QueryLedger ----------------------------
(***************************************************************************)
(* What the execution core promises about query records, whoever writes    *)
(* them and whatever crashes: a record appears once, as PENDING; a verdict *)
(* of the run is final; "LOST", the verdict of a reaper, is provisional.   *)
(* It is the state machine of internal/core/domain with that provisional   *)
(* state made explicit.                                                    *)
(***************************************************************************)
CONSTANT Query

VARIABLE ledger

Unfinished == {"PENDING", "RUNNING", "LOST"}
Verdict == {"SUCCEEDED", "FAILED", "CANCELED"}

Init == ledger = [q \in Query |-> "NONE"]

Enter(q, from, to) == ledger[q] \in from /\ ledger' = [ledger EXCEPT ![q] = to]

Accept(q) == Enter(q, {"NONE"}, "PENDING")

Start(q) == Enter(q, Unfinished, "RUNNING")

Settle(q) == \E v \in Verdict : Enter(q, Unfinished, v)

(* One reaper or recovery pass loses any number of unfinished queries. *)
Lose(Q) ==
  /\ \A q \in Q : ledger[q] \in {"PENDING", "RUNNING"}
  /\ ledger' = [q \in Query |-> IF q \in Q THEN "LOST" ELSE ledger[q]]

Next ==
  \/ \E q \in Query : Accept(q) \/ Start(q) \/ Settle(q)
  \/ \E Q \in SUBSET Query : Lose(Q)

Spec == Init /\ [][Next]_ledger
=============================================================================
