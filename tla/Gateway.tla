------------------------------- MODULE Gateway -------------------------------
(***************************************************************************)
(* The way into an instance: the REST router of internal/transport/rest    *)
(* and the Connect handlers of internal/transport/grpcconnect, which put   *)
(* every call through the rate limiter, authentication and a scope check,  *)
(* and the QueryService behind both, which decides whose records a caller  *)
(* reaches and what a submission must satisfy.                             *)
(*                                                                         *)
(* A call is answered in one step: what happens between the steps of a     *)
(* submission is the subject of Idempotency and Execution.  The answer is  *)
(* an operator of the state, so that an invariant can speak of every call  *)
(* that could be made now.                                                 *)
(***************************************************************************)
EXTENDS QueryStates, SqlGuard, Limiter, Download

CONSTANTS Id,            \* query ids
          Database,      \* database ids that a configuration may name
          Credential,    \* bearer tokens the configuration lists
          Identity,      \* Identity[c] is the subject and the scopes of c
          NoCredential,  \* no token, or one that is not listed
          IdemKey,       \* idempotency keys a client may choose
          NoKey,
          Submission,    \* the arguments of StartQuery that are tried
          MaxConcurrent, \* Defaults.MaxConcurrentQueries
          Second,        \* time units in a second: 10^9 in the program
          DefaultTTL     \* Defaults.ResultTTL, in time units

ASSUME GatewayAssumption ==
  /\ Identity \in [Credential -> [subject : STRING, scopes : SUBSET {"read", "write", "admin"}]]
  /\ NoCredential \notin Credential /\ "-" \notin Credential
  /\ NoKey \notin IdemKey
  /\ \A a \in Submission : a.ttl \in Int /\ a.key \in IdemKey \cup {NoKey}
  /\ Second \in Nat \ {0} /\ DefaultTTL \in 0 .. MaxInt

VARIABLES authRequired, \* an Authenticator was configured at startup
          config,       \* the databases and AllowWrites of the stored Config
          draining,     \* lifecycle.IsDraining
          records,      \* QueryRecords of the MetaStore
          claims        \* idempotency keys held: database, scoped key, query id

gatewayVars == <<authRequired, config, draining, records, claims>>
vars == <<gatewayVars, limiterVars>>

(* The subject of a call made while authentication is off. *)
Nobody == ""

Subject == {Identity[c].subject : c \in Credential} \cup {Nobody}

Gone == [state |-> "NONE"]

Stored == [state : QueryState, subject : Subject, db : Database, key : IdemKey \cup {NoKey},
           ttl : 0 .. MaxInt, stopper : Credential \cup {NoCredential, "-"}]

TypeOK ==
  /\ LimiterTypeOK
  /\ authRequired \in BOOLEAN /\ draining \in BOOLEAN
  /\ config \in [databases : SUBSET Database, allowWrites : BOOLEAN]
  /\ records \in [Id -> Stored \cup {Gone}]
  /\ claims \subseteq Database \X (Subject \X IdemKey) \X Id
  /\ \A a, b \in claims : a[1] = b[1] /\ a[2] = b[2] => a = b

Init ==
  /\ LimiterInit
  /\ authRequired \in BOOLEAN /\ draining = FALSE
  /\ config = [databases |-> Database, allowWrites |-> FALSE]
  /\ records = [id \in Id |-> Gone]
  /\ claims = {}

(***************************************************************************)
(* Authentication and scopes                                               *)
(***************************************************************************)
Operation == {"StartQuery", "StopQuery", "GetQueryStatus", "GetQueryStats", "DownloadResult",
              "ListDatabases", "WatchQuery", "ReloadConfig", "CanIBeStopped"}

(* Identity.Has. *)
Has(c, scope) ==
  \/ scope \in Identity[c].scopes
  \/ "admin" \in Identity[c].scopes
  \/ scope = "read" /\ "write" \in Identity[c].scopes

IsAdmin(c) == "admin" \in Identity[c].scopes

(* The scopes the middleware of a route asks for, from the outermost group in. *)
RouteScopes(op) ==
  CASE op \in {"DownloadResult", "WatchQuery", "ListDatabases", "GetQueryStatus", "GetQueryStats"} -> {"read"}
    [] op \in {"StartQuery", "StopQuery"} -> {"read", "write"}
    [] op \in {"ReloadConfig", "CanIBeStopped"} -> {"admin"}

procedureScopes ==
  [op \in Operation |-> CASE op \in {"StartQuery", "StopQuery"} -> "write"
                         [] op \in {"GetQueryStatus", "GetQueryStats", "DownloadResult",
                                     "ListDatabases", "WatchQuery"} -> "read"
                         [] op \in {"ReloadConfig", "CanIBeStopped"} -> "admin"]

ScopeForProcedure(op) == IF op \in DOMAIN procedureScopes THEN procedureScopes[op] ELSE "admin"

(* require and interceptor.check: the error a call with credential c is turned away with. *)
Check(c, scopes) ==
  IF ~ authRequired THEN "ok"
  ELSE IF c \notin Credential THEN "unauthenticated"
  ELSE IF \E s \in scopes : ~ Has(c, s) THEN "forbidden"
  ELSE "ok"

Gate(transport, op, c) ==
  Check(c, IF transport = "rest" THEN RouteScopes(op) ELSE {ScopeForProcedure(op)})

(* The credential whose identity is in the context of a call that passed the gate. *)
Caller(c) == IF authRequired THEN c ELSE NoCredential

SubjectFromContext(c) == IF Caller(c) \in Credential THEN Identity[c].subject ELSE Nobody

AuthorizeSubject(c, owner) ==
  \/ Caller(c) \notin Credential
  \/ IsAdmin(c)
  \/ owner # Nobody /\ owner = Identity[c].subject

(***************************************************************************)
(* QueryService                                                            *)
(***************************************************************************)
Error(kind) == [kind |-> kind]
Answer(r) == [kind |-> "ok", record |-> r]

authorized(c, id) ==
  IF authRequired /\ Caller(c) \notin Credential THEN Error("NotFound")
  ELSE IF records[id] = Gone THEN Error("NotFound")
  ELSE IF ~ AuthorizeSubject(c, records[id].subject) THEN Error("NotFound")
  ELSE Answer(records[id])

(* DownloadResult, up to the reader it opens: every SUCCEEDED record has a result. *)
DownloadResult(c, id) ==
  LET found == authorized(c, id)
  IN  IF found.kind = "ok" /\ found.record.state # "SUCCEEDED" THEN Error("Validation") ELSE found

DatabasesSeen == {records[id].db : id \in {i \in Id : records[i] # Gone}}

ListDatabases(reachable) ==
  {[id |-> d, healthy |-> d \in reachable] : d \in config.databases}
    \cup {[id |-> d, healthy |-> FALSE] : d \in DatabasesSeen \ config.databases}

(***************************************************************************)
(* Submission                                                              *)
(***************************************************************************)
(* What the transports make of the options: seconds become a Duration, an int64. *)
Options(a) == [mode |-> a.mode, format |-> a.format, backend |-> a.backend, ttl |-> Int64(a.ttl * Second)]

(* Mutant of applyDefaults: a client's retention is taken for unset. *)
applyDefaultsAlways(o) ==
  [mode |-> IF o.mode = "" THEN "async" ELSE o.mode,
   format |-> IF o.format = "" THEN "jsonl" ELSE o.format,
   backend |-> IF o.backend = "" THEN "fs" ELSE o.backend,
   ttl |-> IF o.ttl >= 0 THEN DefaultTTL ELSE o.ttl]

applyDefaults(o) ==
  [mode |-> IF o.mode = "" THEN "async" ELSE o.mode,
   format |-> IF o.format = "" THEN "jsonl" ELSE o.format,
   backend |-> IF o.backend = "" THEN "fs" ELSE o.backend,
   ttl |-> IF o.ttl = 0 THEN DefaultTTL ELSE o.ttl]

Validate(o) ==
  /\ o.mode \in {"async", "sync"}
  /\ o.format \in {"jsonl", "csv", "parquet"}
  /\ o.ttl >= 0

RegisteredBackend == {"fs", "clickhouse"}

(* ClickHouse stores rows, so it cannot give back an encoded file. *)
SupportsFormat(backend, format) == backend = "clickhouse" => format = "jsonl"

(* Mutant of scopedIdempotencyKey: one name space for every subject. *)
unscopedIdempotencyKey(subject, key) == <<Nobody, key>>

scopedIdempotencyKey(subject, key) == <<subject, key>>

Active == {id \in Id : records[id] # Gone /\ ~ IsTerminal(records[id].state)}

(* The queries an earlier submission of this key started. *)
resolveIdempotency(c, a) ==
  {id \in Id : a.key # NoKey /\ <<a.db, scopedIdempotencyKey(SubjectFromContext(c), a.key), id>> \in claims}

NewRecord(c, a) ==
  [state |-> "PENDING", subject |-> SubjectFromContext(c), db |-> a.db, key |-> a.key,
   ttl |-> applyDefaults(Options(a)).ttl, stopper |-> "-"]

(* The submissions that sqlguard.Check lets through. *)
ReadSubmission == {a \in Submission : ReadOnly(Render(a.sql))}

(* StartQuery and SubmitQuery: the answer when the database answers Ping or does not. *)
SubmitQuery(c, a, pings) ==
  LET o == applyDefaults(Options(a))
  IN  IF draining THEN Error("Draining")
      ELSE IF a.db \notin config.databases THEN Error("NotFound")
      ELSE IF ~ Validate(o) \/ o.backend \notin RegisteredBackend \/ ~ SupportsFormat(o.backend, o.format)
        THEN Error("Validation")
      ELSE IF ~ config.allowWrites /\ a \notin ReadSubmission THEN Error("Validation")
      ELSE IF resolveIdempotency(c, a) # {}
        THEN Answer(records[CHOOSE id \in resolveIdempotency(c, a) : TRUE])
      ELSE IF ~ pings THEN Error("Unavailable")
      ELSE IF Cardinality(Active) >= MaxConcurrent THEN Error("ResourceExhausted")
      ELSE Answer(NewRecord(c, a))

(***************************************************************************)
(* Answers on the wire                                                     *)
(***************************************************************************)
classify(kind) ==
  CASE kind = "ok" -> 200 [] kind = "Validation" -> 400 [] kind = "NotFound" -> 404
    [] kind \in {"Draining", "Unavailable"} -> 503 [] kind = "ResourceExhausted" -> 429
    [] kind = "unauthenticated" -> 401 [] kind = "forbidden" -> 403

(* Mutant of connectError: a draining instance answers with an internal error. *)
connectErrorDraining(kind) ==
  CASE kind = "ok" -> "ok" [] kind = "Validation" -> "invalid_argument" [] kind = "NotFound" -> "not_found"
    [] kind = "Draining" -> "internal" [] kind = "Unavailable" -> "unavailable"
    [] kind = "ResourceExhausted" -> "resource_exhausted"
    [] kind = "unauthenticated" -> "unauthenticated" [] kind = "forbidden" -> "permission_denied"

connectError(kind) ==
  CASE kind = "ok" -> "ok" [] kind = "Validation" -> "invalid_argument" [] kind = "NotFound" -> "not_found"
    [] kind \in {"Draining", "Unavailable"} -> "unavailable"
    [] kind = "ResourceExhausted" -> "resource_exhausted"
    [] kind = "unauthenticated" -> "unauthenticated" [] kind = "forbidden" -> "permission_denied"

(* The HTTP status the Connect protocol gives a code. *)
HTTPStatus(code) ==
  CASE code = "ok" -> 200 [] code = "invalid_argument" -> 400 [] code = "unauthenticated" -> 401
    [] code = "permission_denied" -> 403 [] code = "not_found" -> 404 [] code = "resource_exhausted" -> 429
    [] code = "internal" -> 500 [] code = "unavailable" -> 503

(* toRecordDTO and mapToProtoRecord: durations go back to whole seconds. *)
toRecordDTO(r) == [state |-> r.state, subject |-> r.subject, db |-> r.db, key |-> r.key, ttl |-> r.ttl \div Second]

mapToProtoState(s) ==
  IF s \in {"PENDING", "RUNNING", "SUCCEEDED", "FAILED", "CANCELED", "EXPIRED"} THEN s ELSE "UNSPECIFIED"

mapToProtoRecord(r) ==
  [state |-> mapToProtoState(r.state), subject |-> r.subject, db |-> r.db, key |-> r.key, ttl |-> r.ttl \div Second]

(* What the service answers to a call that passed the gate, on any transport. *)
Serve(c, call) ==
  CASE call.op \in {"GetQueryStatus", "GetQueryStats", "WatchQuery", "StopQuery"} -> authorized(c, call.id)
    [] call.op = "DownloadResult" -> DownloadResult(c, call.id)
    [] call.op = "StartQuery" -> SubmitQuery(c, call.args, call.pings)
    [] call.op \in {"ListDatabases", "ReloadConfig", "CanIBeStopped"} -> Error("ok")

(* handleStartQuery turns away a submission that names no database or no SQL. *)
Handle(transport, c, call) ==
  IF transport = "rest" /\ call.op = "StartQuery" /\ (call.args.db = "" \/ call.args.sql = <<>>)
    THEN Error("Validation")
    ELSE Serve(c, call)

(* An answer as its transport writes it. *)
Written(transport, answer) ==
  LET status == IF transport = "rest" THEN classify(answer.kind) ELSE HTTPStatus(connectError(answer.kind))
  IN  IF answer.kind = "ok" /\ "record" \in DOMAIN answer
        THEN [status |-> status,
              record |-> IF transport = "rest" THEN toRecordDTO(answer.record) ELSE mapToProtoRecord(answer.record)]
        ELSE [status |-> status]

Respond(transport, c, call) ==
  Written(transport, IF Gate(transport, call.op, c) = "ok" THEN Handle(transport, c, call)
                     ELSE Error(Gate(transport, call.op, c)))

(***************************************************************************)
(* Calls that change something.  Every call is counted by the limiter      *)
(* before anything else looks at it.                                       *)
(***************************************************************************)
Passes(k, transport, op, c) == Allowed(k) /\ Gate(transport, op, c) = "ok"

(* A submission, with the first free id as its new one: the ids bound the records. *)
StartQuery(k, transport, c, a, pings) ==
  LET answer == Handle(transport, c, [op |-> "StartQuery", args |-> a, pings |-> pings])
      starts == Passes(k, transport, "StartQuery", c) /\ answer.kind = "ok" /\ resolveIdempotency(c, a) = {}
  IN  /\ Allow(k)
      /\ \/ /\ starts
            /\ \E id \in Id :
                 /\ records[id] = Gone
                 /\ records' = [records EXCEPT ![id] = NewRecord(c, a)]
                 /\ claims' = IF a.key = NoKey THEN claims
                              ELSE claims \cup {<<a.db, scopedIdempotencyKey(SubjectFromContext(c), a.key), id>>}
         \/ /\ ~ starts
            /\ UNCHANGED <<records, claims>>
      /\ UNCHANGED <<authRequired, config, draining>>

(* The run is told to stop; it settles in its own time. *)
StopQuery(k, transport, c, id) ==
  /\ Allow(k)
  /\ records' = IF Passes(k, transport, "StopQuery", c) /\ authorized(c, id).kind = "ok" /\ id \in Active
                  THEN [records EXCEPT ![id].stopper = Caller(c)]
                  ELSE records
  /\ UNCHANGED <<authRequired, config, draining, claims>>

(* The stored configuration is replaced by whatever the file holds. *)
ReloadConfig(k, transport, c) ==
  /\ Allow(k)
  /\ config' \in IF Passes(k, transport, "ReloadConfig", c)
                   THEN [databases : SUBSET Database, allowWrites : BOOLEAN]
                   ELSE {config}
  /\ UNCHANGED <<authRequired, draining, records, claims>>

(* Any other call changes the limiter alone. *)
Read(k) == Allow(k) /\ UNCHANGED gatewayVars

(* The instance's own doings: a query moves on, its record is collected, time passes. *)
Settle(id, s) ==
  /\ records[id] # Gone /\ s # records[id].state
  /\ CanTransitionTo(records[id].state, s)
  /\ records' = [records EXCEPT ![id].state = s]
  /\ UNCHANGED <<authRequired, config, draining, claims, limiterVars>>

Collect(id) ==
  /\ records[id].state = "EXPIRED"
  /\ records' = [records EXCEPT ![id] = Gone]
  /\ claims' = {claim \in claims : claim[3] # id}
  /\ UNCHANGED <<authRequired, config, draining, limiterVars>>

Drain == ~ draining /\ draining' = TRUE /\ UNCHANGED <<authRequired, config, records, claims, limiterVars>>

(* Restarted, perhaps with or without an auth section; the MetaStore keeps its records. *)
Restart ==
  /\ draining /\ draining' = FALSE
  /\ authRequired' \in BOOLEAN
  /\ entries' = [k \in Key |-> NoEntry] /\ sincePurge' = IdleEviction /\ budget' = [k \in Key |-> Burst]
  /\ UNCHANGED <<config, records, claims>>

Tick == TimePasses /\ UNCHANGED gatewayVars

Next ==
  \/ \E k \in Key, t \in {"rest", "connect"}, c \in Credential \cup {NoCredential} :
       \/ \E a \in Submission, pings \in BOOLEAN : StartQuery(k, t, c, a, pings)
       \/ \E id \in Id : StopQuery(k, t, c, id)
       \/ ReloadConfig(k, t, c)
  \/ \E k \in Key : Read(k)
  \/ \E id \in Id : Collect(id) \/ \E s \in QueryState : Settle(id, s)
  \/ Drain \/ Restart \/ Tick

Spec == Init /\ [][Next]_vars

(***************************************************************************)
(* The calls an invariant ranges over.                                     *)
(***************************************************************************)
Call ==
  {[op |-> op, id |-> id] : op \in Operation \ {"StartQuery"}, id \in Id}
    \cup {[op |-> "StartQuery", args |-> a, pings |-> b] : a \in Submission, b \in BOOLEAN}

Requester == Credential \cup {NoCredential}

(* The record an answer carries, if any, is the caller's own, or the caller an administrator. *)
MayReceive(c, answer) ==
  "record" \in DOMAIN answer =>
    c \in Credential /\ (IsAdmin(c) \/ answer.record.subject = Identity[c].subject)

(* The record an answer carries, if any, is what the submission asked for. *)
AsAsked(a, answer) ==
  "record" \in DOMAIN answer =>
    /\ answer.record.ttl = IF a.ttl = 0 THEN DefaultTTL \div Second ELSE a.ttl
    /\ answer.record.db = a.db /\ answer.record.key = a.key

(* The retention asked for is a Duration, or wraps once. *)
InReach(a) == a.ttl * Second \in (0 - MaxInt - 1) .. (2 * MaxInt + 1)

(* A key leads to the record its own subject started under it. *)
ClaimsAreRecorded ==
  \A claim \in claims :
    /\ records[claim[3]] # Gone
    /\ claim = <<records[claim[3]].db,
                 scopedIdempotencyKey(records[claim[3]].subject, records[claim[3]].key), claim[3]>>

(* Whoever told a run to stop might do so. *)
StoppersMight ==
  \A id \in Id :
    records[id] # Gone /\ records[id].stopper \in Credential =>
      \/ IsAdmin(records[id].stopper)
      \/ Identity[records[id].stopper].subject = records[id].subject

(***************************************************************************)
(* No answer carries another subject's record (comment of                  *)
(* QueryService.authorized): with authentication on, a record that reaches *)
(* a caller is its own or the caller is an administrator, whichever call   *)
(* and transport brought it, a repeated submission included, and whatever  *)
(* the instance ran with when the record was made.  Likewise whoever last  *)
(* told a run to stop while authentication was on held a token of its      *)
(* subject or an administrator's (QueryService.StopQuery).  The variables  *)
(* are in their types.                                                     *)
(***************************************************************************)
OwnRecordsOnly ==
  /\ TypeOK
  /\ authRequired =>
       \A t \in {"rest", "connect"}, c \in Requester, call \in Call :
         MayReceive(c, Respond(t, c, call))
  /\ StoppersMight

(***************************************************************************)
(* The two transports are one API (NewAuthInterceptor "enforces the same   *)
(* rules as the REST middleware", classify and connectError): the same     *)
(* call, made by the same caller now, gets the same status and the same    *)
(* record on both.  A submission that leaves the database or the SQL out   *)
(* is not compared: only REST turns those away before the service does.    *)
(***************************************************************************)
TransportsAgree ==
  \A c \in Requester, call \in Call :
    (call.op = "StartQuery" => call.args.db # "" /\ call.args.sql # <<>>)
      => Respond("rest", c, call) = Respond("connect", c, call)

(***************************************************************************)
(* A submission is on record as it was asked for, or left no trace.  One   *)
(* that is accepted is stored with the retention, database and key asked   *)
(* for: a retention that does not fit a Duration wraps to a negative one,  *)
(* which is refused (SubmitQuery, Options.Validate); one of more than      *)
(* twice the longest Duration wraps on, and is left out.  Every key that   *)
(* is held leads to a record which its own subject started under it, on    *)
(* that database: "everything that can reject the request runs before the  *)
(* first side effect".  And the database of a record stays in the list, as *)
(* unhealthy, after it was dropped from the configuration (ListDatabases,  *)
(* invariant I2).                                                          *)
(***************************************************************************)
SubmissionIsOnRecord ==
  /\ \A t \in {"rest", "connect"}, c \in Requester, a \in Submission :
       resolveIdempotency(c, a) = {} /\ InReach(a) =>
         AsAsked(a, Respond(t, c, [op |-> "StartQuery", args |-> a, pings |-> TRUE]))
  /\ ClaimsAreRecorded
  /\ \A reachable \in SUBSET config.databases :
       LET listed == ListDatabases(reachable)
       IN  /\ \A id \in Id : records[id] # Gone => \E info \in listed : info.id = records[id].db
           /\ \A info \in listed : info.healthy => info.id \in config.databases
           /\ \A i, j \in listed : i.id = j.id => i = j

(***************************************************************************)
(* What is downloaded is exactly what was asked for (handleDownloadResult, *)
(* sectionReadCloser): a 206 delivers the bytes its Content-Range names,   *)
(* clipped to the result, and a range is refused only when it is malformed *)
(* or starts past the end; offset and limit deliver that many bytes from   *)
(* there, in whatever pieces the store returns them.                       *)
(***************************************************************************)
RangeIsServed == (\E id \in Id : records[id].state = "SUCCEEDED") => SectionsAreExact

(***************************************************************************)
(* While writes are not allowed, the read-only check decides by what is    *)
(* outside comments, literals and quoted identifiers (sqlguard.scan "can   *)
(* never contribute a keyword"): of all statements of up to MaxLexemes     *)
(* lexemes it accepts exactly those whose first bare word is a read verb,  *)
(* that hold no bare write keyword and no semicolon between two pieces of  *)
(* content.                                                                *)
(***************************************************************************)
GuardIsExact == ~ config.allowWrites => ScanIsExact

-----------------------------------------------------------------------------
(* The inductive invariant of the proofs.                                  *)

GatewayInv == LimiterInv /\ TypeOK /\ ClaimsAreRecorded /\ StoppersMight
=============================================================================
