------------------------------ MODULE Results ------------------------------
(***************************************************************************)
(* The life of one query's stored result: the execution that encodes the   *)
(* rows and hands them to a backend (run, EncodeStream, encodeParquet and  *)
(* the Writers of the fs, s3 and clickhouse stores), the record that       *)
(* references it, a download, and the garbage collectors of several        *)
(* instances, kept apart by a lock with a time limit.                      *)
(*                                                                         *)
(* Output is a sequence of pieces: a header, a piece per row, a footer.    *)
(* An output cut short keeps a prefix of them; what an aborted encoder     *)
(* still adds to an object it is about to delete is left out.              *)
(***************************************************************************)
EXTENDS QueryStates, Integers, Sequences, Functions

CONSTANTS
  Collector,    \* instances that run gcWorker
  Healthy,      \* one of them
  Jobs,         \* what is asked for: [backend, format, columns, rows]
  Absent,       \* no object
  Sample,       \* parquetSchemaSample
  RowGroup,     \* parquetRowsPerRowGroup
  CommitEvery,  \* rows of one ClickHouse transaction (500)
  Period        \* gcPeriodDur, in ticks

ASSUME HealthyCollects == Healthy \in Collector
ASSUME SizesArePositive ==
  Sample \in Nat \ {0} /\ RowGroup \in Nat \ {0} /\ CommitEvery \in Nat \ {0} /\ Period \in Nat \ {0}

(***************************************************************************)
(* Encoding.  A value is "nil", "int" or "text"; kinds other than int      *)
(* behave as int does.                                                     *)
(***************************************************************************)
Header == <<0, "header">>
Footer == <<0, "footer">>

(* CSV writes every value as text, and a NULL as empty text (toString). *)
toString(v) == "text"

kindOf(v) == IF v = "int" THEN "int" ELSE "text"

(* The kind of a column: that of the first value that is not NULL, text when the sample
   holds another one, and text for a sample of NULLs. *)
columnKind(sample) ==
  LET decided == {kindOf(sample[i]) : i \in {j \in DOMAIN sample : sample[j] # "nil"}}
  IN  IF decided = {"int"} THEN "int" ELSE "text"

Unconvertible == "unconvertible"

converterFor(kind, v) ==
  IF v = "nil" THEN "nil"
  ELSE IF kind = "int" /\ v # "int" THEN Unconvertible
  ELSE kind

(* A column name is the sequence of its parts: base_n is Append(base, n). *)
ColumnPlaceholder == 100

(* base, base_1, base_2, ...: the first name that no earlier column has. *)
columnName(columns, i, seen) ==
  LET base      == IF columns[i] = <<>> THEN <<ColumnPlaceholder, i - 1>> ELSE columns[i]
      choice(n) == IF n = 0 THEN base ELSE Append(base, n)
      free      == {n \in 0 .. i : choice(n) \notin seen}
  IN  choice(CHOOSE n \in free : \A m \in free : n <= m)

uniqueColumnNames(columns) ==
  LET names[i \in DOMAIN columns] == columnName(columns, i, {names[j] : j \in 1 .. i - 1})
  IN  names

(* What the file of a result must hold, from the rows alone. *)
Stored(format, rows) ==
  LET kind == columnKind(SubSeq(rows, 1, IF Len(rows) < Sample THEN Len(rows) ELSE Sample))
  IN  CASE format = "csv"     -> <<Header>> \o [i \in DOMAIN rows |-> <<i, "text">>]
        [] format = "jsonl"   -> [i \in DOMAIN rows |-> <<i, rows[i]>>]
        [] format = "parquet" -> [i \in DOMAIN rows |-> <<i, IF rows[i] = "nil" THEN "nil" ELSE kind>>]
                                   \o <<Footer>>

(***************************************************************************)
(* SupportsFormat: ClickHouse splits its input into lines and only keeps   *)
(* JSON lines unchanged.  A job outside it is refused at submission.       *)
(***************************************************************************)
SupportsFormat(backend, format) == backend = "clickhouse" => format = "jsonl"

(* A column name is a sequence of parts, a row one value. *)
Options ==
  [backend : {"fs", "s3", "clickhouse"}, format : {"csv", "jsonl", "parquet"},
   columns : Seq(Seq(Nat)), rows : Seq({"nil", "int", "text"})]

ASSUME JobsAreOptions == Jobs \subseteq Options
ASSUME JobsAreAdmitted == \A j \in Jobs : SupportsFormat(j.backend, j.format)

(***************************************************************************)
(* gcPeriod(), gcBudget() and gcLockTTL().                                 *)
(***************************************************************************)
(* Mutant of gcBudget: a pass may use the whole period. *)
gcBudgetWhole == Period

gcBudget == (Period * 3) \div 4

gcLockTTL == (Period * 5) \div 6

VARIABLES
  job,      \* the query's options, its columns and the rows the database returns
  wpc,      \* where the execution is
  next,     \* the next row to read, 1 outside the loop
  names,    \* the parquet field names, while the schema is built
  buffer,   \* encoded pieces the encoder still holds (csv.Writer, a parquet row group)
  staged,   \* pieces the backend took but does not show yet (an upload, a transaction)
  upload,   \* the goroutine behind an s3 or clickhouse writer: "none", "running" or "failed"
  object,   \* the stored pieces, or Absent
  verdict,  \* the terminal state the execution is heading for
  rec,      \* the record in the MetaStore
  due,      \* its retention is over
  lost,     \* a fault that may cost the reference to a stored object has happened
  lock,     \* ticks until the GC lock expires
  gc,       \* each collector: where it is, ticks left of its budget, the record it read
  reader    \* a download: where it is and what it got

runVars == <<job, wpc, next, names, buffer, staged, upload, verdict>>
gcVars == <<lock, gc>>
vars == <<runVars, object, rec, due, lost, gcVars, reader>>

NoObject == IF job.backend = "clickhouse" THEN <<>> ELSE Absent

Idle == [pc |-> "idle", left |-> 0, rec |-> NoRecord]

Init ==
  /\ job \in Jobs
  /\ wpc = "run"
  /\ next = 1
  /\ names = <<>> /\ buffer = <<>> /\ staged = <<>>
  /\ upload = "none"
  /\ object = NoObject
  /\ verdict = "SUCCEEDED"
  /\ rec = Record("RUNNING", "none")
  /\ due = FALSE
  /\ lost = FALSE
  /\ lock = 0
  /\ gc = [c \in Collector |-> Idle]
  /\ reader = [pc |-> "idle", got |-> <<>>]

Kind == columnKind(SubSeq(job.rows, 1, IF Len(job.rows) < Sample THEN Len(job.rows) ELSE Sample))

(* terminalFor makes it FAILED or CANCELED; nothing here tells the two apart. *)
Fail(pc) == verdict' = "FAILED" /\ wpc' = pc

(***************************************************************************)
(* store.Writer.  The file exists from here on; S3 and ClickHouse start    *)
(* the goroutine that reads the other end of a pipe.                       *)
(***************************************************************************)
Writer ==
  /\ wpc = "run"
  /\ \/ /\ wpc' = IF job.format = "parquet" THEN "schema" ELSE "encode"
        /\ object' = IF job.backend = "fs" THEN <<>> ELSE object
        /\ upload' = IF job.backend = "fs" THEN "none" ELSE "running"
        /\ buffer' = IF job.format = "csv" THEN <<Header>> ELSE <<>>
        /\ names' = IF job.format = "parquet" THEN uniqueColumnNames(job.columns) ELSE <<>>
        /\ UNCHANGED verdict
     \/ /\ Fail("settle")
        /\ UNCHANGED <<object, upload, buffer, names>>
  /\ job' = [job EXCEPT !.columns = <<>>]
  /\ UNCHANGED <<next, staged, rec, due, lost, gcVars, reader>>

(* buildParquetSchema: a field per name, or the query fails. *)
BuildSchema ==
  /\ wpc = "schema"
  /\ IF IsInjective(names) THEN wpc' = "encode" /\ UNCHANGED verdict ELSE Fail("close")
  /\ names' = <<>>
  /\ UNCHANGED <<job, next, buffer, staged, upload, object, rec, due, lost, gcVars, reader>>

(***************************************************************************)
(* Write on the backend.  ClickHouse commits every CommitEvery lines.      *)
(***************************************************************************)
Write(pieces) ==
  LET whole == staged \o pieces
  IN  /\ upload # "failed"
      /\ CASE job.backend = "fs" -> object' = object \o pieces /\ UNCHANGED staged
           [] job.backend = "s3" -> staged' = whole /\ UNCHANGED object
           [] job.backend = "clickhouse" ->
                IF (Len(object) + Len(whole)) % CommitEvery = 0
                THEN object' = object \o whole /\ staged' = <<>>
                ELSE staged' = whole /\ UNCHANGED object

(* The piece of the next row, or Unconvertible in its second place. *)
Piece ==
  LET v == job.rows[next]
  IN  <<next, CASE job.format = "csv" -> toString(v)
                [] job.format = "jsonl" -> v
                [] job.format = "parquet" -> converterFor(Kind, v)>>

(* csv.Writer passes on what it holds when its buffer is full, the parquet writer at the
   end of a row group, and a JSON line is written at once. *)
PassesOn ==
  CASE job.format = "jsonl" -> {TRUE}
    [] job.format = "csv" -> BOOLEAN
    [] job.format = "parquet" -> {next % RowGroup = 0}

(* One turn of the loop of EncodeStream or encodeParquet that adds a row. *)
EncodeRow ==
  /\ wpc = "encode"
  /\ next <= Len(job.rows)
  /\ Piece[2] # Unconvertible
  /\ \E full \in PassesOn :
       IF full THEN Write(Append(buffer, Piece)) /\ buffer' = <<>>
               ELSE buffer' = Append(buffer, Piece) /\ UNCHANGED <<staged, object>>
  /\ next' = next + 1
  /\ UNCHANGED <<job, wpc, names, upload, verdict, rec, due, lost, gcVars, reader>>

(* Mutant of EncodeFails: the loop ends without asking stream.Err(). *)
EncodeEndsEarly ==
  /\ wpc = "encode"
  /\ Fail("close") \/ (wpc' = "close" /\ UNCHANGED verdict)
  /\ next' = 1 /\ buffer' = <<>>
  /\ UNCHANGED <<job, names, staged, upload, object, rec, due, lost, gcVars, reader>>

(***************************************************************************)
(* EncodeStream returns an error: the context is done, a row does not      *)
(* scan or does not fit its column, a write fails, or the stream ended     *)
(* with an error of its own.                                               *)
(***************************************************************************)
EncodeFails ==
  /\ wpc = "encode"
  /\ Fail("close")
  /\ next' = 1 /\ buffer' = <<>>
  /\ UNCHANGED <<job, names, staged, upload, object, rec, due, lost, gcVars, reader>>

(* The rows are through: csvWriter.Flush, the parquet footer. *)
EncodeEnds ==
  /\ wpc = "encode"
  /\ next > Len(job.rows)
  /\ LET rest == buffer \o IF job.format = "parquet" THEN <<Footer>> ELSE <<>>
     IN  IF rest = <<>> THEN UNCHANGED <<staged, object>> ELSE Write(rest)
  /\ wpc' = "close" /\ next' = 1 /\ buffer' = <<>>
  /\ UNCHANGED <<job, names, upload, verdict, rec, due, lost, gcVars, reader>>

(***************************************************************************)
(* The goroutine behind the pipe fails: an upload the context aborted, an  *)
(* INSERT or a COMMIT.  What was not committed is gone.                    *)
(***************************************************************************)
UploadFails ==
  /\ upload = "running"
  /\ upload' = "failed"
  /\ staged' = <<>>
  /\ UNCHANGED <<job, wpc, next, names, buffer, object, verdict, rec, due, lost, gcVars, reader>>

(***************************************************************************)
(* writer.Close, after an encoding that failed as well: it waits for the   *)
(* goroutine, and an upload or a commit that goes through shows what was   *)
(* written.                                                                *)
(***************************************************************************)
CloseWriter ==
  /\ wpc = "close"
  /\ \/ /\ upload # "failed"
        /\ object' = CASE job.backend = "fs" -> object
                       [] job.backend = "s3" -> staged
                       [] job.backend = "clickhouse" -> object \o staged
        /\ wpc' = IF verdict = "SUCCEEDED" THEN "settle" ELSE "cleanup"
        /\ UNCHANGED verdict
     \/ /\ UNCHANGED object
        /\ IF verdict = "SUCCEEDED" THEN Fail("cleanup") ELSE wpc' = "cleanup" /\ UNCHANGED verdict
  /\ staged' = <<>> /\ upload' = "none"
  /\ UNCHANGED <<job, next, names, buffer, rec, due, lost, gcVars, reader>>

(* deletePartial: a failure is only logged. *)
deletePartial ==
  /\ wpc = "cleanup"
  /\ \/ object' = NoObject /\ UNCHANGED lost
     \/ lost' = TRUE /\ UNCHANGED object
  /\ wpc' = "settle"
  /\ UNCHANGED <<job, next, names, buffer, staged, upload, verdict, rec, due, gcVars, reader>>

Collecting(c) == gc[c].pc \in {"read", "expire", "object", "record"}

(***************************************************************************)
(* finishRun, complete: the verdict is written whatever the record says by *)
(* now, or given up after the last attempt.  A collector that has listed   *)
(* the record before does not look at its retention again: it overwrites   *)
(* or deletes the verdict.                                                 *)
(***************************************************************************)
complete ==
  /\ wpc = "settle"
  /\ wpc' = "over"
  /\ \/ /\ rec' = [Record(verdict, "none") EXCEPT !.result = verdict = "SUCCEEDED"]
        /\ due' = FALSE
        /\ lost' = (lost \/ \E c \in Collector : Collecting(c))
     \/ /\ lost' = TRUE
        /\ UNCHANGED <<rec, due>>
  /\ UNCHANGED <<job, next, names, buffer, staged, upload, verdict, object, gcVars, reader>>

(* The process dies: what was not committed or uploaded is gone. *)
Crash ==
  /\ wpc \notin {"over", "crashed"}
  /\ wpc' = "crashed"
  /\ next' = 1 /\ names' = <<>> /\ buffer' = <<>> /\ staged' = <<>>
  /\ upload' = "none" /\ verdict' = "FAILED"
  /\ lost' = TRUE
  /\ UNCHANGED <<job, object, rec, due, gcVars, reader>>

(* failOwnerLost on some instance: the lease lapsed, of a dead owner or of a live one. *)
failOwnerLost ==
  /\ rec.state = "RUNNING"
  /\ rec' = Record("FAILED", "owner_lost")
  /\ due' = FALSE
  /\ UNCHANGED <<runVars, object, lost, gcVars, reader>>

(***************************************************************************)
(* Retention: time, and the collectors.                                    *)
(***************************************************************************)
RetentionPasses ==
  /\ IsTerminal(rec.state) /\ ~due
  /\ due' = TRUE
  /\ UNCHANGED <<runVars, object, rec, lost, gcVars, reader>>

Tick ==
  /\ lock > 0 \/ \E c \in Collector : gc[c].left > 0
  /\ lock' = IF lock > 0 THEN lock - 1 ELSE 0
  /\ gc' = [c \in Collector |->
              [gc[c] EXCEPT !.left = IF gc[c].left > 0 THEN gc[c].left - 1 ELSE 0]]
  /\ UNCHANGED <<runVars, object, rec, due, lost, reader>>

InPass(c) == gc[c].pc # "idle" /\ gc[c].left > 0

Goto(c, pc) == gc' = [gc EXCEPT ![c].pc = pc]

(* collectGarbage: the budget starts, then the lock is taken for longer than it lasts. *)
TryLock(c) ==
  /\ gc[c].pc = "idle"
  /\ lock = 0
  /\ lock' = gcLockTTL
  /\ gc' = [gc EXCEPT ![c] = [pc |-> "list", left |-> gcBudget, rec |-> NoRecord]]
  /\ UNCHANGED <<runVars, object, rec, due, lost, reader>>

(* Mutant of ListExpiredQueries: the retention of a record is not looked at. *)
ListTerminalQueries(c) ==
  /\ gc[c].pc = "list" /\ InPass(c)
  /\ Goto(c, IF IsTerminal(rec.state) THEN "read" ELSE "idle")
  /\ UNCHANGED <<runVars, object, rec, due, lost, lock, reader>>

(* ListExpiredQueries names the query, or the pass has nothing to do. *)
ListExpiredQueries(c) ==
  /\ gc[c].pc = "list" /\ InPass(c)
  /\ Goto(c, IF IsTerminal(rec.state) /\ due THEN "read" ELSE "idle")
  /\ UNCHANGED <<runVars, object, rec, due, lost, lock, reader>>

(* Mutant of GCRead: a record that is EXPIRED already is passed over. *)
GCReadSkipsExpired(c) ==
  /\ gc[c].pc = "read" /\ InPass(c)
  /\ gc' = IF rec # NoRecord /\ rec.state # "EXPIRED" /\ CanTransitionTo(rec.state, "EXPIRED")
           THEN [gc EXCEPT ![c].pc = "expire", ![c].rec = rec]
           ELSE [gc EXCEPT ![c] = Idle]
  /\ UNCHANGED <<runVars, object, rec, due, lost, lock, reader>>

(* collectQuery reads the record and goes on if it may expire. *)
GCRead(c) ==
  /\ gc[c].pc = "read" /\ InPass(c)
  /\ gc' = IF rec # NoRecord /\ CanTransitionTo(rec.state, "EXPIRED")
           THEN [gc EXCEPT ![c].pc = IF rec.state = "EXPIRED" THEN "object" ELSE "expire",
                           ![c].rec = rec]
           ELSE [gc EXCEPT ![c] = Idle]
  /\ UNCHANGED <<runVars, object, rec, due, lost, lock, reader>>

(* UpdateQuery stores the record it read, now EXPIRED, over whatever is there. *)
GCExpire(c) ==
  /\ gc[c].pc = "expire" /\ InPass(c)
  /\ rec' = [gc[c].rec EXCEPT !.state = "EXPIRED"]
  /\ due' = TRUE
  /\ Goto(c, "object")
  /\ UNCHANGED <<runVars, object, lost, lock, reader>>

(* Mutant of GCDeleteResult: a failed deletion does not keep the metadata. *)
GCDeleteResultIgnored(c) ==
  /\ gc[c].pc = "object" /\ InPass(c)
  /\ object' \in IF gc[c].rec.result THEN {NoObject, object} ELSE {object}
  /\ Goto(c, "record")
  /\ UNCHANGED <<runVars, rec, due, lost, lock, reader>>

(* store.Delete, when the record it read references a result. *)
GCDeleteResult(c) ==
  /\ gc[c].pc = "object" /\ InPass(c)
  /\ object' = IF gc[c].rec.result THEN NoObject ELSE object
  /\ Goto(c, "record")
  /\ UNCHANGED <<runVars, rec, due, lost, lock, reader>>

(* The idempotency key is released (module Idempotency) and DeleteQuery called. *)
GCDeleteRecord(c) ==
  /\ gc[c].pc = "record" /\ InPass(c)
  /\ rec' = NoRecord /\ due' = FALSE
  /\ gc' = [gc EXCEPT ![c] = Idle]
  /\ UNCHANGED <<runVars, object, lost, lock, reader>>

(* A call fails, the budget runs out or the instance dies: the pass is over as it stands. *)
GCReturns(c) ==
  /\ gc[c].pc # "idle"
  /\ gc' = [gc EXCEPT ![c] = Idle]
  /\ UNCHANGED <<runVars, object, rec, due, lost, lock, reader>>

(***************************************************************************)
(* DownloadResult on any instance: the record, then the object.            *)
(***************************************************************************)
DownloadResult ==
  /\ reader.pc = "idle"
  /\ rec.state = "SUCCEEDED" /\ rec.result
  /\ reader' = [pc |-> "found", got |-> <<>>]
  /\ UNCHANGED <<runVars, object, rec, due, lost, gcVars>>

(* Reader: a missing file or key is an error; a SELECT without rows is not.  What is open
   stays readable after a deletion. *)
OpenReader ==
  /\ reader.pc = "found"
  /\ reader' = IF object = Absent THEN [pc |-> "idle", got |-> <<>>]
                                  ELSE [pc |-> "serving", got |-> object]
  /\ UNCHANGED <<runVars, object, rec, due, lost, gcVars>>

DownloadEnds ==
  /\ reader.pc # "idle"
  /\ reader' = [pc |-> "idle", got |-> <<>>]
  /\ UNCHANGED <<runVars, object, rec, due, lost, gcVars>>

RunNext ==
  \/ Writer
  \/ BuildSchema
  \/ EncodeRow
  \/ EncodeFails
  \/ EncodeEnds
  \/ UploadFails
  \/ CloseWriter
  \/ deletePartial
  \/ complete
  \/ Crash
  \/ failOwnerLost

GCNext(c) ==
  \/ TryLock(c)
  \/ ListExpiredQueries(c)
  \/ GCRead(c)
  \/ GCExpire(c)
  \/ GCDeleteResult(c)
  \/ GCDeleteRecord(c)
  \/ GCReturns(c)

Next ==
  \/ RunNext
  \/ RetentionPasses
  \/ Tick
  \/ \E c \in Collector : GCNext(c)
  \/ DownloadResult
  \/ OpenReader
  \/ DownloadEnds

Spec == Init /\ [][Next]_vars

(***************************************************************************)
(* Tickers go on firing and time goes on.  On one instance at least, the   *)
(* calls of a pass do not fail, or outlast the budget, every time.         *)
(***************************************************************************)
Fairness ==
  /\ WF_vars(Tick)
  /\ WF_vars(GCReturns(Healthy))
  /\ SF_vars(TryLock(Healthy))
  /\ SF_vars(ListExpiredQueries(Healthy))
  /\ SF_vars(GCRead(Healthy))
  /\ SF_vars(GCExpire(Healthy))
  /\ SF_vars(GCDeleteResult(Healthy))
  /\ SF_vars(GCDeleteRecord(Healthy))

FairSpec == Spec /\ Fairness

----------------------------------------------------------------------------

WPC == {"run", "schema", "encode", "close", "cleanup", "settle", "over", "crashed"}

Content == Seq(Nat \X {"header", "footer", "nil", "int", "text"})

Pass == [pc : {"idle", "list", "read", "expire", "object", "record"},
         left : 0 .. gcBudget, rec : QueryRecord \cup {NoRecord}]

(***************************************************************************)
(* Types, and who holds pieces when: an encoder buffer only while rows are *)
(* encoded, staged pieces only behind a running goroutine, so that nothing *)
(* is left in flight once writer.Close has returned.                       *)
(***************************************************************************)
TypeOK ==
  /\ job \in Options
  /\ wpc \in WPC
  /\ next \in 1 .. Len(job.rows) + 1
  /\ buffer \in Content /\ (buffer # <<>> => wpc = "encode")
  /\ staged \in Content /\ (staged # <<>> => upload = "running")
  /\ upload \in {"none", "running", "failed"}
  /\ upload # "none" => wpc \in {"schema", "encode", "close"} /\ job.backend # "fs"
  /\ object \in Content \cup {Absent}
  /\ verdict \in {"SUCCEEDED", "FAILED"}
  /\ rec \in QueryRecord \cup {NoRecord}
  /\ due \in BOOLEAN /\ (due => IsTerminal(rec.state))
  /\ lost \in BOOLEAN
  /\ lock \in 0 .. gcLockTTL
  /\ gc \in [Collector -> Pass]
  /\ reader \in [pc : {"idle", "found", "serving"}, got : Content]

(***************************************************************************)
(* A result is whole or not there.  A record says SUCCEEDED only while     *)
(* every row the database returned is stored, in order, NULL exactly where *)
(* it was NULL, with the header or footer of its format and every column   *)
(* under a name of its own: run asks EncodeStream's and Close's errors     *)
(* before it says so ("its error decides whether the query succeeded       *)
(* (I4)", docs/spec.md 103), and a collector deletes the object only after *)
(* the record says EXPIRED.  A download that got as far as a reader serves *)
(* the whole of it or, when a collector was faster and the backend is      *)
(* ClickHouse, nothing, whatever went on between the look at the record    *)
(* and the opening of the object.  The variables are in their types.       *)
(***************************************************************************)
WholeOrNothing ==
  /\ TypeOK
  /\ rec.state = "SUCCEEDED" => rec.result /\ object = Stored(job.format, job.rows)
  /\ IsInjective(names)
  /\ reader.pc = "serving" =>
       \/ reader.got = Stored(job.format, job.rows)
       \/ job.backend = "clickhouse" /\ reader.got = <<>>

(***************************************************************************)
(* Once the execution is over, a stored object is referenced by the        *)
(* record: by its collector's rule ("Metadata is kept whenever the stored  *)
(* result could not be deleted", manager.go 1331) and by the execution's   *)
(* clean-up.  Four faults may strip the reference (lost): a crash, a       *)
(* clean-up that failed, a verdict given up, and a verdict that came while *)
(* a collector was at work on the record it replaced.                      *)
(***************************************************************************)
StoredIsReferenced ==
  wpc = "over" /\ ~lost /\ object # NoObject => rec.result

(* Two collectors are never at work at once: the lock outlasts the budget. *)
OneCollector ==
  \A c, d \in Collector : InPass(c) /\ InPass(d) => c = d

(***************************************************************************)
(* A result leaves SUCCEEDED only when its retention is over, unless the   *)
(* verdict overtook a collector.                                           *)
(***************************************************************************)
RetentionIsHonoured ==
  [][rec.state = "SUCCEEDED" /\ rec' # rec => due \/ lost]_vars

(* What is past its retention is collected in the end, record and object. *)
DueIsCollected == due ~> ~due

-----------------------------------------------------------------------------
(* The inductive invariant of the proofs.                                  *)

(* A pass has no more time than the lock it runs under. *)
LockOutlasts == \A c \in Collector : gc[c].left <= lock

(* The piece of row i, what the first n rows are encoded as, and what the  *)
(* backend was handed.                                                     *)
Row(format, rows, i) ==
  LET kind == columnKind(SubSeq(rows, 1, IF Len(rows) < Sample THEN Len(rows) ELSE Sample))
  IN  <<i, CASE format = "csv"     -> "text"
             [] format = "jsonl"   -> rows[i]
             [] format = "parquet" -> IF rows[i] = "nil" THEN "nil" ELSE kind>>

Encoded(format, rows, n) ==
  (IF format = "csv" THEN <<Header>> ELSE <<>>) \o [i \in 1 .. n |-> Row(format, rows, i)]

Handed ==
  CASE job.backend = "fs" -> object
    [] job.backend = "s3" -> staged
    [] job.backend = "clickhouse" -> object \o staged

(***************************************************************************)
(* Nothing is lost on the way through the encoder and the writer: unless   *)
(* the goroutine behind the pipe failed, what the backend was handed and   *)
(* what the encoder still holds are the rows read so far.                  *)
(***************************************************************************)
NothingDropped ==
  /\ job.backend = "clickhouse" => object \in Content
  /\ wpc = "run" => object = NoObject
  /\ wpc = "schema" => job.format = "parquet"
  /\ wpc \in {"run", "schema"} => next = 1
  /\ wpc \in {"schema", "encode", "close"} =>
       IF job.backend = "fs" THEN object \in Content ELSE upload # "none"
  /\ wpc = "schema" /\ upload # "failed" => Handed = <<>>
  /\ wpc = "encode" /\ upload # "failed" =>
       Handed \o buffer = Encoded(job.format, job.rows, next - 1)
  /\ wpc = "close" /\ upload # "failed" /\ verdict = "SUCCEEDED" =>
       Handed = Stored(job.format, job.rows)
  /\ wpc = "cleanup" => verdict = "FAILED"
  /\ wpc = "settle" /\ verdict = "SUCCEEDED" => object = Stored(job.format, job.rows)

(* The reference is the last thing written, and nothing but a collector    *)
(* that has made the record EXPIRED deletes what it refers to.             *)
ReferenceComesLast ==
  /\ rec.result \/ rec.state = "SUCCEEDED" => wpc = "over"
  /\ rec.state = "SUCCEEDED" => rec.result /\ object = Stored(job.format, job.rows)
  /\ reader.pc = "found" => wpc = "over" /\ object \in {Stored(job.format, job.rows), NoObject}
  /\ \A c \in Collector :
       /\ gc[c].rec.result => wpc = "over"
       /\ gc[c].pc = "object" /\ gc[c].rec.result => rec.state # "SUCCEEDED"

(* What a pass has read is still so, unless a fault came between. *)
PassIsCurrent ==
  /\ wpc = "settle" /\ verdict = "FAILED" /\ ~lost => object = NoObject
  /\ wpc = "over" /\ ~lost => rec.state # "RUNNING"
  /\ \A c \in Collector :
       /\ Collecting(c) /\ rec.state = "SUCCEEDED" => due \/ lost
       /\ wpc = "over" /\ ~lost /\ InPass(c) =>
            /\ gc[c].pc \in {"expire", "object"} => gc[c].rec.result = rec.result
            /\ gc[c].pc = "record" => object = NoObject

IInv ==
  /\ WholeOrNothing /\ StoredIsReferenced /\ OneCollector
  /\ LockOutlasts /\ NothingDropped /\ ReferenceComesLast /\ PassIsCurrent
=============================================================================
