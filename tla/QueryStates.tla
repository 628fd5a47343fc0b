---------------------------- MODULE QueryStates ----------------------------
(***************************************************************************)
(* The query state machine of internal/core/domain/models.go and the       *)
(* mapping of an execution error to a terminal state.                      *)
(***************************************************************************)

QueryState == {"PENDING", "RUNNING", "SUCCEEDED", "FAILED", "CANCELED", "EXPIRED"}

IsTerminal(s) == s \in {"SUCCEEDED", "FAILED", "CANCELED", "EXPIRED"}

CanTransitionTo(s, next) ==
  \/ s = next
  \/ s = "PENDING" /\ next \in {"RUNNING", "CANCELED", "FAILED"}
  \/ s = "RUNNING" /\ next \in {"SUCCEEDED", "FAILED", "CANCELED"}
  \/ s \in {"SUCCEEDED", "FAILED", "CANCELED"} /\ next = "EXPIRED"

(***************************************************************************)
(* A QueryRecord as far as the properties tell records apart: its state,   *)
(* whether it carries a ResultRef, and which error it carries.             *)
(* "owner_lost" is the verdict of a reaper, "timeout" and "failed" are     *)
(* verdicts of the run itself.                                             *)
(***************************************************************************)
QueryError == {"none", "failed", "timeout", "owner_lost"}

QueryRecord == [state : QueryState, result : BOOLEAN, error : QueryError]

Record(s, err) == [state |-> s, result |-> FALSE, error |-> err]

(* What GetQuery answers with ErrNotFound: a state that is not a QueryState. *)
NoRecord == Record("NONE", "none")

(* The three values of an execution context's Err(). *)
CtxErr == {"live", "canceled", "deadline"}

(* The verdict on a run that failed with err under a context in state ctx. *)
terminalFor(ctx, err) ==
  IF "canceled" \in {err, ctx} THEN Record("CANCELED", "none")
  ELSE IF "deadline" \in {err, ctx} THEN Record("FAILED", "timeout")
  ELSE Record("FAILED", "failed")
=============================================================================
