--------------------------- MODULE Gateway_proofs ---------------------------
(* The gateway for every set of callers, records, submissions and rates:   *)
(* the limiter's sweep is invisible, answers carry the caller's own        *)
(* records, the transports agree, and a submission is on record as asked.  *)
EXTENDS Gateway, Data_proofs, TLAPS

(* An empty map of buckets: how a server starts. *)
LEMMA LimiterInitInv == LimiterInit => LimiterInv
  BY LimiterAssumption DEF LimiterInit, LimiterInv, LimiterTypeOK, IdleIsFull, Entry

(* A bucket that has regained Rate per idle tick is full after the window. *)
LEMMA IdleBucketIsFull ==
  ASSUME NEW n \in 0 .. Burst, Rate * (IdleEviction + 1) <= n
  PROVE  FALSE
<1>1. Rate * (IdleEviction + 1) = Rate * IdleEviction + Rate
  BY LimiterAssumption
<1>2. Rate * IdleEviction \in Nat
  BY LimiterAssumption
<1> QED
  BY <1>1, <1>2, LimiterAssumption

(* One more idle tick is paid for by one more refill. *)
LEMMA RefillKeepsPace ==
  ASSUME NEW n \in 0 .. Burst, NEW i \in 0 .. IdleEviction, n = Burst \/ Rate * i <= n
  PROVE  /\ Refill(n) \in 0 .. Burst
         /\ Refill(n) = Burst \/ Rate * (i + 1) <= Refill(n)
<1>1. Rate * (i + 1) = Rate * i + Rate
  BY LimiterAssumption
<1>2. Rate * i \in Nat
  BY LimiterAssumption
<1> QED
  BY <1>1, <1>2, LimiterAssumption DEF Refill

(* purgeLocked: what Allow finds is what an unswept bucket would hold. *)
LEMMA SweptIsFull ==
  ASSUME LimiterInv, NEW k \in Key
  PROVE  /\ Purged(entries)[k] \in {entries[k], NoEntry}
         /\ Purged(entries)[k] = NoEntry => budget[k] = Burst
         /\ Tokens(k) = budget[k]
<1>1. CASE entries[k] = NoEntry
  BY <1>1, Zenon DEF LimiterInv, LimiterTypeOK, IdleIsFull, Purged, Tokens
<1>2. CASE entries[k] # NoEntry
  <2>1. /\ entries[k].tokens \in 0 .. Burst /\ entries[k].idle \in 0 .. IdleEviction + 1
        /\ budget[k] = entries[k].tokens
        /\ entries[k].tokens = Burst \/ Rate * entries[k].idle <= entries[k].tokens
    BY <1>2, Zenon DEF LimiterInv, LimiterTypeOK, IdleIsFull, Entry
  <2>2. entries[k].idle > IdleEviction => entries[k].idle = IdleEviction + 1
    BY <2>1, LimiterAssumption
  <2>3. entries[k].idle > IdleEviction => budget[k] = Burst
    BY <2>1, <2>2, IdleBucketIsFull, Zenon
  <2> QED
    BY <1>2, <2>1, <2>3, Zenon DEF Purged, Tokens, LimiterInv, LimiterTypeOK
<1> QED
  BY <1>1, <1>2, Zenon

(* A request preserves the invariant, admitted or not. *)
LEMMA AllowKeeps ==
  ASSUME LimiterInv, NEW k \in Key, Allow(k)
  PROVE  LimiterInv'
<1>1. LimiterTypeOK /\ budget[k] \in 0 .. Burst /\ Tokens(k) = budget[k]
  BY SweptIsFull, Zenon DEF LimiterInv, LimiterTypeOK
<1>2. Spend(budget[k]) \in 0 .. Burst
  BY <1>1, LimiterAssumption DEF Spend
<1>3. budget' \in [Key -> 0 .. Burst] /\ sincePurge' \in 0 .. IdleEviction
  BY <1>1, <1>2, LimiterAssumption DEF Allow, LimiterTypeOK
<1> DEFINE new == [tokens |-> Spend(budget[k]), idle |-> 0]
<1>4. new \in Entry /\ new # NoEntry /\ new.tokens = Spend(budget[k]) /\ new.idle = 0
  BY <1>2, LimiterAssumption DEF Entry
<1>5. /\ entries'[k] = new
      /\ \A j \in Key \ {k} : entries'[j] = Purged(entries)[j]
      /\ entries' \in [Key -> Entry \cup {NoEntry}]
  <2>1. \A j \in Key : Purged(entries)[j] \in Entry \cup {NoEntry}
    BY <1>1, SweptIsFull, Zenon DEF LimiterTypeOK
  <2>2. Purged(entries) = [j \in Key |-> Purged(entries)[j]]
    BY <1>1, Zenon DEF Purged, LimiterTypeOK
  <2>3. entries' = [Purged(entries) EXCEPT ![k] = new]
    BY <1>1, Zenon DEF Allow
  <2> HIDE DEF new
  <2> QED
    BY <1>4, <2>1, <2>2, <2>3, Zenon
<1>6. ASSUME NEW j \in Key
      PROVE  IF entries'[j] = NoEntry
               THEN budget'[j] = Burst
               ELSE /\ budget'[j] = entries'[j].tokens
                    /\ entries'[j].tokens = Burst \/ Rate * entries'[j].idle <= entries'[j].tokens
  <2>1. CASE j = k
    BY <1>1, <1>2, <1>4, <1>5, <2>1, LimiterAssumption DEF Allow, LimiterTypeOK
  <2>2. CASE j # k
    BY <1>1, <1>5, <2>2, SweptIsFull, Zenon DEF Allow, LimiterTypeOK, LimiterInv, IdleIsFull
  <2> QED
    BY <2>1, <2>2, Zenon
<1> QED
  BY <1>3, <1>5, <1>6, Zenon DEF LimiterInv, LimiterTypeOK, IdleIsFull

(* The passing of time preserves the invariant. *)
LEMMA TimeKeeps ==
  ASSUME LimiterInv, TimePasses
  PROVE  LimiterInv'
<1>1. ASSUME NEW k \in Key
      PROVE  /\ entries'[k] \in Entry \cup {NoEntry} /\ budget'[k] \in 0 .. Burst
             /\ IF entries'[k] = NoEntry
                  THEN budget'[k] = Burst
                  ELSE /\ budget'[k] = entries'[k].tokens
                       /\ entries'[k].tokens = Burst \/ Rate * entries'[k].idle <= entries'[k].tokens
  <2>1. budget[k] \in 0 .. Burst /\ budget'[k] = Refill(budget[k])
    BY Zenon DEF LimiterInv, LimiterTypeOK, TimePasses
  <2>2. CASE entries[k] = NoEntry
    BY <2>1, <2>2, LimiterAssumption DEF LimiterInv, IdleIsFull, TimePasses, Refill
  <2>3. CASE entries[k] # NoEntry
    <3>1. /\ entries[k].tokens \in 0 .. Burst /\ entries[k].idle \in 0 .. IdleEviction + 1
          /\ budget[k] = entries[k].tokens
          /\ entries[k].tokens = Burst \/ Rate * entries[k].idle <= entries[k].tokens
      BY <2>3, Zenon DEF LimiterInv, LimiterTypeOK, IdleIsFull, Entry
    <3> DEFINE t == Refill(entries[k].tokens)
               i == IF entries[k].idle > IdleEviction THEN entries[k].idle ELSE entries[k].idle + 1
    <3>2. entries'[k] = [tokens |-> t, idle |-> i]
      BY <2>3, Zenon DEF TimePasses
    <3>3. t \in 0 .. Burst /\ i \in 0 .. IdleEviction + 1 /\ (t = Burst \/ Rate * i <= t)
      <4>1. CASE entries[k].idle > IdleEviction
        <5>1. entries[k].idle = IdleEviction + 1
          BY <3>1, <4>1, LimiterAssumption
        <5>2. entries[k].tokens = Burst
          BY <3>1, <5>1, IdleBucketIsFull, Zenon
        <5> QED
          BY <3>1, <4>1, <5>2, LimiterAssumption DEF Refill
      <4>2. CASE ~(entries[k].idle > IdleEviction)
        <5>1. entries[k].idle \in 0 .. IdleEviction
          BY <3>1, <4>2, LimiterAssumption
        <5> QED
          BY <3>1, <4>2, <5>1, RefillKeepsPace, LimiterAssumption
      <4> QED
        BY <4>1, <4>2, Zenon
    <3>4. [tokens |-> t, idle |-> i] \in Entry /\ [tokens |-> t, idle |-> i] # NoEntry
      BY <3>3, LimiterAssumption DEF Entry
    <3> QED
      BY <2>1, <3>1, <3>2, <3>3, <3>4
  <2> QED
    BY <2>2, <2>3, Zenon
<1>2. /\ entries' = [k \in Key |-> entries'[k]] /\ budget' = [k \in Key |-> budget'[k]]
      /\ sincePurge' \in 0 .. IdleEviction
  BY LimiterAssumption DEF TimePasses, LimiterInv, LimiterTypeOK
<1> QED
  BY <1>1, <1>2, Zenon DEF LimiterInv, LimiterTypeOK, IdleIsFull

(* Every step preserves the invariant. *)
LEMMA LimiterNextInv == LimiterInv /\ [LimiterNext]_limiterVars => LimiterInv'
<1> SUFFICES ASSUME LimiterInv, [LimiterNext]_limiterVars PROVE LimiterInv'
  OBVIOUS
<1>1. CASE UNCHANGED limiterVars
  BY <1>1, Zenon DEF limiterVars, LimiterInv, LimiterTypeOK, IdleIsFull
<1> QED
  BY <1>1, AllowKeeps, TimeKeeps, Zenon DEF LimiterNext

-----------------------------------------------------------------------------
(* What the service answers.                                               *)

(* The values of an int64: those that fit stand, and twice the range below wraps to the negatives. *)
LEMMA Wraps ==
  ASSUME NEW x \in Int
  PROVE  /\ Int64(x) \in (0 - MaxInt - 1) .. MaxInt
         /\ x \in (0 - MaxInt - 1) .. MaxInt => Int64(x) = x
         /\ x \in (MaxInt + 1) .. (2 * MaxInt + 1) => Int64(x) < 0
<1> DEFINE m == 2 * (MaxInt + 1)
           y == x + MaxInt + 1
<1>1. MaxInt \in Nat /\ m \in Nat \ {0} /\ y \in Int /\ Int64(x) = (y % m) - (MaxInt + 1)
  BY DownloadAssumption DEF Int64
<1>2. y % m \in 0 .. m - 1
  BY <1>1
<1>3. y \in 0 .. m - 1 => y % m = y
  BY <1>1
<1>4. ASSUME x \in (MaxInt + 1) .. (2 * MaxInt + 1) PROVE y % m = y - m
  <2>1. y - m \in 0 .. m - 1
    BY <1>1, <1>4
  <2> QED
    BY <1>1, <2>1
<1> QED
  BY <1>1, <1>2, <1>3, <1>4

(* A record is not the absence of one. *)
LEMMA StoredIsThere ==
  ASSUME NEW r \in Stored
  PROVE  /\ r # Gone /\ r.state \in QueryState /\ r.subject \in Subject /\ r.db \in Database
         /\ r.key \in IdemKey \cup {NoKey} /\ r.ttl \in 0 .. MaxInt
         /\ r.stopper \in Credential \cup {NoCredential, "-"}
  BY DEF Stored, Gone, QueryState

(* The subject of a call is one the configuration names, or nobody. *)
LEMMA CallerKnown ==
  ASSUME NEW c \in Requester
  PROVE  /\ SubjectFromContext(c) \in Subject
         /\ Caller(c) \in Credential \cup {NoCredential}
         /\ Caller(c) \in Credential => authRequired /\ c \in Credential
         /\ authRequired /\ c \in Credential => SubjectFromContext(c) = Identity[c].subject
  BY GatewayAssumption, Zenon DEF Requester, SubjectFromContext, Caller, Subject

(* What a submission that passed every check is stored as. *)
LEMMA NewRecordStored ==
  ASSUME TypeOK, NEW c \in Requester, NEW a \in Submission, a.db \in config.databases,
         Validate(applyDefaults(Options(a)))
  PROVE  NewRecord(c, a) \in Stored
<1>1. a.ttl \in Int /\ a.key \in IdemKey \cup {NoKey} /\ Second \in Nat /\ a.ttl * Second \in Int
  BY GatewayAssumption
<1>2. Options(a).ttl \in (0 - MaxInt - 1) .. MaxInt
  <2>1. Options(a).ttl = Int64(a.ttl * Second)
    BY Zenon DEF Options
  <2> QED
    BY <1>1, <2>1, Wraps, Zenon
<1>3. applyDefaults(Options(a)).ttl \in 0 .. MaxInt
  <2>1. applyDefaults(Options(a)).ttl = IF Options(a).ttl = 0 THEN DefaultTTL ELSE Options(a).ttl
    BY Zenon DEF applyDefaults
  <2>2. applyDefaults(Options(a)).ttl >= 0
    BY Zenon DEF Validate
  <2> QED
    BY <1>2, <2>1, <2>2, GatewayAssumption, DownloadAssumption
<1>4. a.db \in Database
  BY Zenon DEF TypeOK
<1> QED
  BY <1>1, <1>3, <1>4, CallerKnown, Zenon DEF NewRecord, Stored, QueryState

(* SubmitQuery: a new submission is stored, a repeated one finds its own record, others are refused. *)
LEMMA SubmitAnswers ==
  ASSUME GatewayInv, NEW c \in Requester, NEW a \in Submission, NEW pings \in BOOLEAN
  PROVE  \/ /\ resolveIdempotency(c, a) = {} /\ a.db \in config.databases
            /\ Validate(applyDefaults(Options(a))) /\ NewRecord(c, a) \in Stored
            /\ SubmitQuery(c, a, pings) = Answer(NewRecord(c, a))
         \/ /\ resolveIdempotency(c, a) # {}
            /\ \E r \in Stored : /\ SubmitQuery(c, a, pings) = Answer(r)
                                 /\ r.subject = SubjectFromContext(c)
         \/ \E kind \in {"Draining", "NotFound", "Validation", "Unavailable", "ResourceExhausted"} :
              SubmitQuery(c, a, pings) = Error(kind)
<1>1. CASE resolveIdempotency(c, a) # {}
  <2> DEFINE id == CHOOSE i \in resolveIdempotency(c, a) : TRUE
  <2>1. id \in resolveIdempotency(c, a)
    BY <1>1, Zenon
  <2> HIDE DEF id
  <2>2. id \in Id /\ <<a.db, scopedIdempotencyKey(SubjectFromContext(c), a.key), id>> \in claims
    BY <2>1, Zenon DEF resolveIdempotency
  <2>3. records[id] # Gone /\ records[id].subject = SubjectFromContext(c)
    BY <2>2, Zenon DEF GatewayInv, ClaimsAreRecorded, scopedIdempotencyKey
  <2>4. records[id] \in Stored
    BY <2>2, <2>3, Zenon DEF GatewayInv, TypeOK
  <2> QED
    BY <1>1, <2>3, <2>4, ZenonT(20) DEF SubmitQuery, id
<1>2. CASE resolveIdempotency(c, a) = {}
  BY <1>2, NewRecordStored, Zenon DEF SubmitQuery, GatewayInv
<1> QED
  BY <1>1, <1>2, Zenon

(* QueryService.authorized: a record goes to its owner, to an administrator, or to anyone without auth. *)
LEMMA AuthorizedAnswers ==
  ASSUME GatewayInv, NEW c \in Requester, NEW id \in Id
  PROVE  \/ authorized(c, id) = Error("NotFound")
         \/ /\ records[id] # Gone /\ records[id] \in Stored /\ authorized(c, id) = Answer(records[id])
            /\ authRequired => c \in Credential /\ (IsAdmin(c) \/ records[id].subject = Identity[c].subject)
  BY Zenon DEF authorized, AuthorizeSubject, Caller, GatewayInv, TypeOK

(* Every answer of the service is an error the transports know, or a record the caller may see. *)
LEMMA ServeAnswers ==
  ASSUME GatewayInv, NEW c \in Requester, NEW call \in Call
  PROVE  \/ \E kind \in {"ok", "Draining", "NotFound", "Validation", "Unavailable", "ResourceExhausted"} :
              Serve(c, call) = Error(kind)
         \/ \E r \in Stored :
              /\ Serve(c, call) = Answer(r)
              /\ authRequired /\ c \in Credential => IsAdmin(c) \/ r.subject = Identity[c].subject
<1>1. CASE \E op \in Operation \ {"StartQuery"}, id \in Id : call = [op |-> op, id |-> id]
  <2>1. PICK op \in Operation \ {"StartQuery"}, id \in Id : call = [op |-> op, id |-> id]
    BY <1>1, Zenon
  <2>2. call.op = op /\ call.id = id
    BY <2>1, Zenon
  <2>3. CASE op \in {"GetQueryStatus", "GetQueryStats", "WatchQuery", "StopQuery"}
    <3>1. Serve(c, call) = authorized(c, id)
      BY <2>2, <2>3, Zenon DEF Serve
    <3> QED
      BY <3>1, AuthorizedAnswers, Zenon
  <2>4. CASE op = "DownloadResult"
    <3>1. Serve(c, call) = DownloadResult(c, id)
      BY <2>2, <2>4, Zenon DEF Serve
    <3>2. Serve(c, call) \in {authorized(c, id), Error("Validation")}
      BY <3>1, Zenon DEF DownloadResult
    <3> QED
      BY <3>2, AuthorizedAnswers, Zenon
  <2>5. CASE op \in {"ListDatabases", "ReloadConfig", "CanIBeStopped"}
    <3>1. Serve(c, call) = Error("ok")
      BY <2>2, <2>5, Zenon DEF Serve
    <3> QED
      BY <3>1, Zenon
  <2> QED
    BY <2>3, <2>4, <2>5, Zenon DEF Operation
<1>2. CASE \E a \in Submission, b \in BOOLEAN : call = [op |-> "StartQuery", args |-> a, pings |-> b]
  <2>1. PICK a \in Submission, b \in BOOLEAN : call = [op |-> "StartQuery", args |-> a, pings |-> b]
    BY <1>2, Zenon
  <2>2. Serve(c, call) = SubmitQuery(c, a, b)
    BY <2>1, Zenon DEF Serve
  <2>3. NewRecord(c, a).subject = SubjectFromContext(c)
    BY Zenon DEF NewRecord
  <2> QED
    BY <2>2, <2>3, SubmitAnswers, CallerKnown
<1> QED
  BY <1>1, <1>2 DEF Call

(* The operation of a call. *)
LEMMA CallHasOp ==
  ASSUME NEW call \in Call
  PROVE  call.op \in Operation
  BY DEF Call, Operation

(* Identity.Has: who may write may read, so one scope a procedure asks for what the routes ask. *)
LEMMA GatesAgree ==
  ASSUME NEW c \in Requester, NEW op \in Operation
  PROVE  /\ Gate("rest", op, c) = Gate("connect", op, c)
         /\ Gate("rest", op, c) \in {"ok", "unauthenticated", "forbidden"}
         /\ Gate("rest", op, c) = "ok" /\ authRequired => c \in Credential
<1>1. ScopeForProcedure(op) = procedureScopes[op]
  BY Zenon DEF ScopeForProcedure, procedureScopes
<1>2. \/ RouteScopes(op) = {"read"} /\ procedureScopes[op] = "read"
      \/ RouteScopes(op) = {"read", "write"} /\ procedureScopes[op] = "write"
      \/ RouteScopes(op) = {"admin"} /\ procedureScopes[op] = "admin"
  BY Zenon DEF RouteScopes, procedureScopes, Operation
<1> QED
  BY <1>1, <1>2, Zenon DEF Gate, Check, Has

(* What either transport writes of an answer: the status of an error, the same record. *)
LEMMA WrittenAlike ==
  ASSUME NEW answer,
         \/ \E kind \in {"ok", "Draining", "NotFound", "Validation", "Unavailable", "ResourceExhausted",
                         "unauthenticated", "forbidden"} : answer = Error(kind)
         \/ \E r \in Stored : answer = Answer(r)
  PROVE  /\ Written("rest", answer) = Written("connect", answer)
         /\ \A t \in {"rest", "connect"} :
              "record" \in DOMAIN Written(t, answer) =>
                \E r \in Stored : answer = Answer(r) /\ Written(t, answer).record = toRecordDTO(r)
<1>1. CASE \E kind \in {"ok", "Draining", "NotFound", "Validation", "Unavailable", "ResourceExhausted",
                        "unauthenticated", "forbidden"} : answer = Error(kind)
  <2>1. PICK kind \in {"ok", "Draining", "NotFound", "Validation", "Unavailable", "ResourceExhausted",
                        "unauthenticated", "forbidden"} : answer = Error(kind)
    BY <1>1, Zenon
  <2>2. classify(kind) = HTTPStatus(connectError(kind))
    BY DEF classify, HTTPStatus, connectError
  <2>3. answer.kind = kind /\ "record" \notin DOMAIN answer
    BY <2>1, Zenon DEF Error
  <2>4. \A t \in {"rest", "connect"} : Written(t, answer) = [status |-> classify(kind)]
    BY <2>2, <2>3, Zenon DEF Written
  <2> QED
    BY <2>4
<1>2. CASE \E r \in Stored : answer = Answer(r)
  <2>1. PICK r \in Stored : answer = Answer(r)
    BY <1>2, Zenon
  <2>2. classify("ok") = 200 /\ HTTPStatus(connectError("ok")) = 200
    BY DEF classify, HTTPStatus, connectError
  <2>3. answer.kind = "ok" /\ "record" \in DOMAIN answer /\ answer.record = r
    BY <2>1, Zenon DEF Answer
  <2>4. toRecordDTO(r) = mapToProtoRecord(r)
    BY StoredIsThere, Zenon DEF toRecordDTO, mapToProtoRecord, mapToProtoState, QueryState
  <2>5. \A t \in {"rest", "connect"} : Written(t, answer) = [status |-> 200, record |-> toRecordDTO(r)]
    BY <2>2, <2>3, <2>4, Zenon DEF Written
  <2> QED
    BY <2>1, <2>5
<1> QED
  BY <1>1, <1>2, Zenon

(* A response carries a record only when the call passed the gate and the service answered with one. *)
LEMMA RespondsWith ==
  ASSUME GatewayInv, NEW c \in Requester, NEW call \in Call, NEW t \in {"rest", "connect"},
         "record" \in DOMAIN Respond(t, c, call)
  PROVE  \E r \in Stored : /\ Serve(c, call) = Answer(r) /\ Respond(t, c, call).record = toRecordDTO(r)
                           /\ authRequired => c \in Credential
                           /\ authRequired => IsAdmin(c) \/ r.subject = Identity[c].subject
<1> DEFINE gate == Gate(t, call.op, c)
           answer == IF gate = "ok" THEN Handle(t, c, call) ELSE Error(gate)
<1>1. gate \in {"ok", "unauthenticated", "forbidden"} /\ (gate = "ok" /\ authRequired => c \in Credential)
  BY CallHasOp, GatesAgree, Zenon
<1>2. Respond(t, c, call) = Written(t, answer)
  BY Zenon DEF Respond
<1>3. answer \in {Serve(c, call), Error("Validation"), Error("unauthenticated"), Error("forbidden")}
  BY <1>1, Zenon DEF Handle
<1>4. answer = Serve(c, call) \/ \A r : answer # Answer(r)
  <2>1. \A kind, r : Error(kind) # Answer(r)
    BY Zenon DEF Error, Answer
  <2> QED
    BY <1>3, <2>1, Zenon
<1> HIDE DEF gate, answer
<1>5. PICK r \in Stored : answer = Answer(r) /\ Written(t, answer).record = toRecordDTO(r)
  BY <1>2, <1>3, ServeAnswers, WrittenAlike, Zenon
<1>6. gate = "ok" /\ Serve(c, call) = Answer(r)
  <2>1. \A kind : Error(kind) # Answer(r)
    BY Zenon DEF Error, Answer
  <2> QED
    BY <1>4, <1>5, <2>1, Zenon DEF answer
<1>7. authRequired => c \in Credential /\ (IsAdmin(c) \/ r.subject = Identity[c].subject)
  <2>1. \A s : Answer(s) = Answer(r) => s = r
    BY Zenon DEF Answer
  <2>2. \A kind : Error(kind) # Answer(r)
    BY Zenon DEF Error, Answer
  <2> QED
    BY <1>1, <1>6, <2>1, <2>2, ServeAnswers, Zenon
<1> QED
  BY <1>2, <1>5, <1>6, <1>7, Zenon

(* No answer carries another subject's record. *)
LEMMA OwnAnswers == GatewayInv => OwnRecordsOnly
<1> SUFFICES ASSUME GatewayInv PROVE OwnRecordsOnly
  OBVIOUS
<1>1. ASSUME authRequired, NEW t \in {"rest", "connect"}, NEW c \in Requester, NEW call \in Call
      PROVE  MayReceive(c, Respond(t, c, call))
  <2> SUFFICES ASSUME "record" \in DOMAIN Respond(t, c, call)
               PROVE  c \in Credential /\ (IsAdmin(c) \/ Respond(t, c, call).record.subject = Identity[c].subject)
    BY Zenon DEF MayReceive
  <2>1. PICK r \in Stored : /\ Respond(t, c, call).record = toRecordDTO(r)
                            /\ c \in Credential /\ (IsAdmin(c) \/ r.subject = Identity[c].subject)
    BY <1>1, RespondsWith, Zenon
  <2>2. toRecordDTO(r).subject = r.subject
    BY Zenon DEF toRecordDTO
  <2> QED
    BY <2>1, <2>2, Zenon
<1> QED
  BY <1>1, Zenon DEF OwnRecordsOnly, GatewayInv

(* The same call gets the same response on both transports. *)
LEMMA SameAnswers == GatewayInv => TransportsAgree
<1> SUFFICES ASSUME GatewayInv, NEW c \in Requester, NEW call \in Call,
                    call.op = "StartQuery" => call.args.db # "" /\ call.args.sql # <<>>
             PROVE  Respond("rest", c, call) = Respond("connect", c, call)
  BY Zenon DEF TransportsAgree
<1> DEFINE gate == Gate("rest", call.op, c)
           answer == IF gate = "ok" THEN Serve(c, call) ELSE Error(gate)
<1>1. gate = Gate("connect", call.op, c) /\ gate \in {"ok", "unauthenticated", "forbidden"}
  BY CallHasOp, GatesAgree, Zenon
<1>2. Handle("rest", c, call) = Serve(c, call) /\ Handle("connect", c, call) = Serve(c, call)
  BY Zenon DEF Handle
<1>3. Respond("rest", c, call) = Written("rest", answer) /\ Respond("connect", c, call) = Written("connect", answer)
  BY <1>1, <1>2, Zenon DEF Respond
<1>4. \/ \E kind \in {"ok", "Draining", "NotFound", "Validation", "Unavailable", "ResourceExhausted",
                      "unauthenticated", "forbidden"} : answer = Error(kind)
      \/ \E r \in Stored : answer = Answer(r)
  BY <1>1, ServeAnswers, Zenon
<1> HIDE DEF answer
<1> QED
  BY <1>3, <1>4, WrittenAlike, Zenon

(* A retention in reach is stored as it was asked for, or refused. *)
LEMMA RetentionKept ==
  ASSUME NEW a \in Submission, InReach(a), Validate(applyDefaults(Options(a)))
  PROVE  applyDefaults(Options(a)).ttl \div Second = IF a.ttl = 0 THEN DefaultTTL \div Second ELSE a.ttl
<1> DEFINE x == a.ttl * Second
<1>1. a.ttl \in Int /\ Second \in Nat \ {0} /\ x \in Int /\ MaxInt \in Nat
  BY GatewayAssumption, DownloadAssumption
<1>2. applyDefaults(Options(a)).ttl = IF Int64(x) = 0 THEN DefaultTTL ELSE Int64(x)
  <2>1. Options(a).ttl = Int64(x)
    BY Zenon DEF Options
  <2> QED
    BY <2>1, Zenon DEF applyDefaults
<1>3. applyDefaults(Options(a)).ttl >= 0
  BY Zenon DEF Validate
<1>4. a.ttl = 0 <=> x = 0
  BY <1>1
<1>5. x \div Second = a.ttl
  BY <1>1
<1>6. x \in (0 - MaxInt - 1) .. (2 * MaxInt + 1)
  BY Zenon DEF InReach
<1> HIDE DEF x
<1>7. Int64(x) \in (0 - MaxInt - 1) .. MaxInt
  BY <1>1, Wraps, Zenon
<1>8. CASE x \in (0 - MaxInt - 1) .. MaxInt
  <2>1. Int64(x) = x
    BY <1>1, <1>8, Wraps, Zenon
  <2> QED
    BY <1>2, <1>4, <1>5, <2>1, Zenon
<1>9. CASE x \in (MaxInt + 1) .. (2 * MaxInt + 1)
  <2>1. Int64(x) < 0
    BY <1>1, <1>9, Wraps, Zenon
  <2> QED
    BY <1>2, <1>3, <1>7, <2>1
<1> QED
  BY <1>1, <1>6, <1>8, <1>9

(* The list holds the configured databases and those of the records, each once. *)
LEMMA ListIsComplete ==
  ASSUME NEW reachable \in SUBSET config.databases
  PROVE  /\ \A id \in Id : records[id] # Gone => \E info \in ListDatabases(reachable) : info.id = records[id].db
         /\ \A info \in ListDatabases(reachable) : info.healthy => info.id \in config.databases
         /\ \A i, j \in ListDatabases(reachable) : i.id = j.id => i = j
<1> DEFINE known == {[id |-> d, healthy |-> d \in reachable] : d \in config.databases}
           dropped == {[id |-> d, healthy |-> FALSE] : d \in DatabasesSeen \ config.databases}
<1>1. ListDatabases(reachable) = known \cup dropped
  BY Zenon DEF ListDatabases
<1>2. \A i \in known : i.id \in config.databases /\ i = [id |-> i.id, healthy |-> i.id \in reachable]
  OBVIOUS
<1>3. \A i \in dropped : i.id \notin config.databases /\ i.healthy = FALSE /\ i = [id |-> i.id, healthy |-> FALSE]
  OBVIOUS
<1>4. ASSUME NEW id \in Id, records[id] # Gone
      PROVE  \E info \in known \cup dropped : info.id = records[id].db
  <2>1. records[id].db \in DatabasesSeen
    BY <1>4, Zenon DEF DatabasesSeen
  <2> DEFINE d == records[id].db
  <2> HIDE DEF d
  <2>2. CASE d \in config.databases
    <3>1. [id |-> d, healthy |-> d \in reachable] \in known
      BY <2>2, Zenon
    <3>2. [id |-> d, healthy |-> d \in reachable].id = d
      OBVIOUS
    <3> HIDE DEF known, dropped
    <3> QED
      BY <3>1, <3>2, Zenon DEF d
  <2>3. CASE d \notin config.databases
    <3>1. [id |-> d, healthy |-> FALSE] \in dropped
      BY <2>1, <2>3, Zenon DEF d
    <3>2. [id |-> d, healthy |-> FALSE].id = d
      OBVIOUS
    <3> HIDE DEF known, dropped
    <3> QED
      BY <3>1, <3>2, Zenon DEF d
  <2> QED
    BY <2>2, <2>3, Zenon
<1>5. \A i, j \in known \cup dropped : i.id = j.id => i = j
  <2> HIDE DEF known, dropped
  <2> QED
    BY <1>2, <1>3, Zenon
<1>6. \A i \in known \cup dropped : i.healthy => i.id \in config.databases
  <2> HIDE DEF known, dropped
  <2> QED
    BY <1>2, <1>3, Zenon
<1> HIDE DEF known, dropped
<1> QED
  BY <1>1, <1>4, <1>5, <1>6, Zenon

(* A submission is on record as it was asked for. *)
LEMMA SubmittedAsAsked == GatewayInv => SubmissionIsOnRecord
<1> SUFFICES ASSUME GatewayInv PROVE SubmissionIsOnRecord
  OBVIOUS
<1>1. ASSUME NEW t \in {"rest", "connect"}, NEW c \in Requester, NEW a \in Submission,
             resolveIdempotency(c, a) = {}, InReach(a)
      PROVE  AsAsked(a, Respond(t, c, [op |-> "StartQuery", args |-> a, pings |-> TRUE]))
  <2> DEFINE call == [op |-> "StartQuery", args |-> a, pings |-> TRUE]
             answer == Respond(t, c, call)
  <2> SUFFICES ASSUME "record" \in DOMAIN answer
               PROVE  /\ answer.record.ttl = IF a.ttl = 0 THEN DefaultTTL \div Second ELSE a.ttl
                      /\ answer.record.db = a.db /\ answer.record.key = a.key
    BY Zenon DEF AsAsked
  <2>1. call \in Call
    <3>1. \E x \in Submission, b \in BOOLEAN : call = [op |-> "StartQuery", args |-> x, pings |-> b]
      <4>1. TRUE \in BOOLEAN
        OBVIOUS
      <4> QED
        BY <4>1, Zenon
    <3> DEFINE starting == {[op |-> "StartQuery", args |-> x, pings |-> b] : x \in Submission, b \in BOOLEAN}
    <3>2. starting \subseteq Call
      BY DEF Call
    <3> HIDE DEF call
    <3>3. call \in starting
      BY <3>1
    <3> HIDE DEF starting
    <3> QED
      BY <3>2, <3>3, Zenon
  <2>2. Serve(c, call) = SubmitQuery(c, a, TRUE)
    BY Zenon DEF Serve
  <2> HIDE DEF call
  <2>3. PICK r \in Stored : Serve(c, call) = Answer(r) /\ answer.record = toRecordDTO(r)
    BY <2>1, RespondsWith, Zenon
  <2>4. (\A kind : Error(kind) # Answer(r)) /\ (\A s : Answer(s) = Answer(r) => s = r)
    BY Zenon DEF Error, Answer
  <2>5. Validate(applyDefaults(Options(a))) /\ r = NewRecord(c, a)
    BY <1>1, <2>2, <2>3, <2>4, SubmitAnswers, ZenonT(20)
  <2>6. /\ answer.record.ttl = applyDefaults(Options(a)).ttl \div Second
        /\ answer.record.db = a.db /\ answer.record.key = a.key
    BY <2>3, <2>5, SMTT(20) DEF NewRecord, toRecordDTO
  <2> QED
    BY <1>1, <2>5, <2>6, RetentionKept, Zenon
<1> QED
  BY <1>1, ListIsComplete, Zenon DEF SubmissionIsOnRecord, GatewayInv

-----------------------------------------------------------------------------
(* The steps.                                                              *)

(* A server starts with no records, no keys and an empty map of buckets. *)
LEMMA GatewayInit == Init => GatewayInv
<1> SUFFICES ASSUME Init PROVE GatewayInv
  OBVIOUS
<1>1. LimiterInv
  BY LimiterInitInv, Zenon DEF Init
<1>2. records \in [Id -> Stored \cup {Gone}] /\ \A id \in Id : records[id] = Gone
  BY Zenon DEF Init
<1>3. config \in [databases : SUBSET Database, allowWrites : BOOLEAN]
  BY Zenon DEF Init
<1>4. claims = {} /\ authRequired \in BOOLEAN /\ draining \in BOOLEAN
  BY Zenon DEF Init
<1> QED
  BY <1>1, <1>2, <1>3, <1>4, Zenon
    DEF GatewayInv, TypeOK, LimiterInv, ClaimsAreRecorded, StoppersMight

(* The invariant is about records and keys, the limiter aside. *)
LEMMA RestStands ==
  ASSUME GatewayInv, LimiterInv', UNCHANGED <<records, claims>>,
         authRequired' \in BOOLEAN, draining' \in BOOLEAN,
         config' \in [databases : SUBSET Database, allowWrites : BOOLEAN]
  PROVE  GatewayInv'
  BY Zenon DEF GatewayInv, TypeOK, LimiterInv, ClaimsAreRecorded, StoppersMight

(* A record that keeps its owner, database and key keeps what leads to it. *)
LEMMA RecordMovesOn ==
  ASSUME GatewayInv, LimiterInv', UNCHANGED <<authRequired, config, draining, claims>>,
         NEW id \in Id, NEW r \in Stored, records[id] # Gone, records' = [records EXCEPT ![id] = r],
         r.subject = records[id].subject, r.db = records[id].db, r.key = records[id].key,
         r.stopper \in Credential => \/ r.stopper = records[id].stopper \/ IsAdmin(r.stopper)
                                     \/ Identity[r.stopper].subject = r.subject
  PROVE  GatewayInv'
<1>1. records \in [Id -> Stored \cup {Gone}] /\ claims \subseteq Database \X (Subject \X IdemKey) \X Id
  BY Zenon DEF GatewayInv, TypeOK
<1>2. records' \in [Id -> Stored \cup {Gone}]
  BY <1>1, Zenon
<1>3. \A j \in Id : records'[j] = IF j = id THEN r ELSE records[j]
  BY <1>1, Zenon
<1>4. r # Gone
  BY StoredIsThere, Zenon
<1>5. TypeOK'
  BY <1>2, Zenon DEF GatewayInv, TypeOK, LimiterInv
<1>6. ClaimsAreRecorded'
  <2> SUFFICES ASSUME NEW claim \in claims
               PROVE  /\ records'[claim[3]] # Gone
                      /\ claim = <<records'[claim[3]].db,
                                   <<records'[claim[3]].subject, records'[claim[3]].key>>, claim[3]>>
    BY Zenon DEF ClaimsAreRecorded, scopedIdempotencyKey
  <2>1. claim[3] \in Id
    BY <1>1, Zenon
  <2>2. /\ records[claim[3]] # Gone
        /\ claim = <<records[claim[3]].db,
                     <<records[claim[3]].subject, records[claim[3]].key>>, claim[3]>>
    BY Zenon DEF GatewayInv, ClaimsAreRecorded, scopedIdempotencyKey
  <2>3. CASE claim[3] = id
    BY <1>3, <1>4, <2>1, <2>2, <2>3, Zenon
  <2>4. CASE claim[3] # id
    BY <1>3, <2>1, <2>2, <2>4, Zenon
  <2> QED
    BY <2>3, <2>4, Zenon
<1>7. StoppersMight'
  BY <1>3, SMTT(20) DEF GatewayInv, StoppersMight, IsAdmin
<1> QED
  BY <1>5, <1>6, <1>7, Zenon DEF GatewayInv

(* A claim is its three parts. *)
LEMMA Triple ==
  ASSUME NEW A, NEW B, NEW C, NEW x \in A \X B \X C
  PROVE  x = <<x[1], x[2], x[3]>> /\ x[3] \in C
  OBVIOUS

(* A submission that is accepted takes a free id, and its key if it has one. *)
LEMMA SubmissionKeeps ==
  ASSUME GatewayInv, LimiterInv', UNCHANGED <<authRequired, config, draining>>,
         NEW c \in Requester, NEW a \in Submission, NEW id \in Id,
         resolveIdempotency(c, a) = {}, NewRecord(c, a) \in Stored, a.db \in config.databases,
         records[id] = Gone, records' = [records EXCEPT ![id] = NewRecord(c, a)],
         claims' = IF a.key = NoKey THEN claims
                   ELSE claims \cup {<<a.db, scopedIdempotencyKey(SubjectFromContext(c), a.key), id>>}
  PROVE  GatewayInv'
<1> DEFINE r == NewRecord(c, a)
           new == <<a.db, <<SubjectFromContext(c), a.key>>, id>>
<1>1. records \in [Id -> Stored \cup {Gone}] /\ claims \subseteq Database \X (Subject \X IdemKey) \X Id
  BY Zenon DEF GatewayInv, TypeOK
<1>2. records' \in [Id -> Stored \cup {Gone}] /\ \A j \in Id : records'[j] = IF j = id THEN r ELSE records[j]
  BY <1>1, Zenon
<1>3. /\ r \in Stored /\ r # Gone /\ r.subject = SubjectFromContext(c) /\ r.db = a.db /\ r.key = a.key
      /\ r.stopper \notin Credential
  BY StoredIsThere, GatewayAssumption, Zenon DEF NewRecord
<1>4. \/ claims' = claims
      \/ claims' = claims \cup {new} /\ a.key # NoKey
  BY Zenon DEF scopedIdempotencyKey
<1>5. \A claim \in claims : claim[3] \in Id /\ claim[3] # id
  BY <1>1, Zenon DEF GatewayInv, ClaimsAreRecorded
<1>6. new \in Database \X (Subject \X IdemKey) \X Id \/ a.key = NoKey
  BY CallerKnown, GatewayAssumption, Zenon DEF GatewayInv, TypeOK
<1>7. new[1] = a.db /\ new[2] = <<SubjectFromContext(c), a.key>> /\ new[3] = id
  BY Zenon
<1>8. a.key # NoKey => \A claim \in claims : claim[1] # new[1] \/ claim[2] # new[2]
  <2> SUFFICES ASSUME a.key # NoKey, NEW claim \in claims, claim[1] = new[1], claim[2] = new[2] PROVE FALSE
    BY Zenon
  <2>1. claim = <<claim[1], claim[2], claim[3]>> /\ claim[3] \in Id
    BY <1>1, Triple, SMTT(20)
  <2>2. claim = <<a.db, scopedIdempotencyKey(SubjectFromContext(c), a.key), claim[3]>>
    BY <1>7, <2>1, Zenon DEF scopedIdempotencyKey
  <2>3. claim[3] \in resolveIdempotency(c, a)
    BY <2>1, <2>2, Zenon DEF resolveIdempotency
  <2> QED
    BY <2>3, Zenon
<1> HIDE DEF r, new
<1>9. TypeOK'
  <2>1. claims' \subseteq Database \X (Subject \X IdemKey) \X Id
    BY <1>1, <1>4, <1>6, Zenon
  <2>2. \A x, y \in claims' : x[1] = y[1] /\ x[2] = y[2] => x = y
    BY <1>4, <1>8, Zenon DEF GatewayInv, TypeOK
  <2> QED
    BY <1>2, <2>1, <2>2, Zenon DEF GatewayInv, TypeOK, LimiterInv
<1>10. ClaimsAreRecorded'
  <2> SUFFICES ASSUME NEW claim \in claims'
               PROVE  /\ records'[claim[3]] # Gone
                      /\ claim = <<records'[claim[3]].db,
                                   <<records'[claim[3]].subject, records'[claim[3]].key>>, claim[3]>>
    BY Zenon DEF ClaimsAreRecorded, scopedIdempotencyKey
  <2>1. CASE claim \in claims
    BY <1>2, <1>5, <2>1, Zenon DEF GatewayInv, ClaimsAreRecorded, scopedIdempotencyKey
  <2>2. CASE claim = new
    BY <1>2, <1>3, <1>7, <2>2, Zenon DEF new
  <2> QED
    BY <1>4, <2>1, <2>2, Zenon
<1>11. StoppersMight'
  BY <1>2, <1>3, Zenon DEF GatewayInv, StoppersMight, IsAdmin
<1> QED
  BY <1>9, <1>10, <1>11, Zenon DEF GatewayInv

(* Collecting a record frees its key. *)
LEMMA CollectKeeps ==
  ASSUME GatewayInv, NEW id \in Id, Collect(id)
  PROVE  GatewayInv'
<1>1. records \in [Id -> Stored \cup {Gone}] /\ claims \subseteq Database \X (Subject \X IdemKey) \X Id
  BY Zenon DEF GatewayInv, TypeOK
<1>2. /\ records' \in [Id -> Stored \cup {Gone}]
      /\ \A j \in Id : records'[j] = IF j = id THEN Gone ELSE records[j]
  BY <1>1, Zenon DEF Collect
<1>3. claims' = {claim \in claims : claim[3] # id} /\ \A claim \in claims : claim[3] \in Id
  BY <1>1, Zenon DEF Collect
<1>4. LimiterInv'
  BY Zenon DEF Collect, GatewayInv, LimiterInv, LimiterTypeOK, IdleIsFull, limiterVars
<1>5. TypeOK'
  BY <1>2, <1>3, <1>4, Zenon DEF GatewayInv, TypeOK, LimiterInv, Collect
<1>6. ClaimsAreRecorded'
  BY <1>2, <1>3, Zenon DEF GatewayInv, ClaimsAreRecorded, scopedIdempotencyKey
<1>7. StoppersMight'
  BY <1>2, Zenon DEF GatewayInv, StoppersMight, IsAdmin
<1> QED
  BY <1>4, <1>5, <1>6, <1>7, Zenon DEF GatewayInv

(* StartQuery, on either transport. *)
LEMMA StartKeeps ==
  ASSUME GatewayInv, LimiterInv', NEW k \in Key, NEW t \in {"rest", "connect"}, NEW c \in Requester,
         NEW a \in Submission, NEW pings \in BOOLEAN, StartQuery(k, t, c, a, pings)
  PROVE  GatewayInv'
<1> DEFINE call == [op |-> "StartQuery", args |-> a, pings |-> pings]
           answer == Handle(t, c, call)
           starts == Passes(k, t, "StartQuery", c) /\ answer.kind = "ok" /\ resolveIdempotency(c, a) = {}
<1>1. /\ \/ /\ starts
            /\ \E id \in Id :
                 /\ records[id] = Gone
                 /\ records' = [records EXCEPT ![id] = NewRecord(c, a)]
                 /\ claims' = IF a.key = NoKey THEN claims
                              ELSE claims \cup {<<a.db, scopedIdempotencyKey(SubjectFromContext(c), a.key), id>>}
         \/ UNCHANGED <<records, claims>>
      /\ UNCHANGED <<authRequired, config, draining>>
  BY Zenon DEF StartQuery
<1>2. answer \in {SubmitQuery(c, a, pings), Error("Validation")}
  BY Zenon DEF Handle, Serve
<1> HIDE DEF call, answer
<1>3. ASSUME answer.kind = "ok", resolveIdempotency(c, a) = {}
      PROVE  a.db \in config.databases /\ NewRecord(c, a) \in Stored
  <2>1. \A kind : Error(kind).kind = kind
    BY Zenon DEF Error
  <2>2. answer = SubmitQuery(c, a, pings)
    BY <1>2, <1>3, <2>1, Zenon
  <2>3. \A kind \in {"Draining", "NotFound", "Validation", "Unavailable", "ResourceExhausted"} :
          SubmitQuery(c, a, pings) # Error(kind)
    BY <1>3, <2>1, <2>2, Zenon
  <2> QED
    BY <1>3, <2>3, SubmitAnswers, Zenon
<1>4. CASE UNCHANGED <<records, claims>>
  BY <1>1, <1>4, RestStands, Zenon DEF GatewayInv, TypeOK
<1>5. CASE ~ UNCHANGED <<records, claims>>
  BY <1>1, <1>3, <1>5, SubmissionKeeps, Zenon
<1> QED
  BY <1>4, <1>5, Zenon

(* StopQuery: only who might reach the record leaves a mark on it. *)
LEMMA StopKeeps ==
  ASSUME GatewayInv, LimiterInv', NEW k \in Key, NEW t \in {"rest", "connect"}, NEW c \in Requester,
         NEW id \in Id, StopQuery(k, t, c, id)
  PROVE  GatewayInv'
<1>1. UNCHANGED <<authRequired, config, draining, claims>>
  BY Zenon DEF StopQuery
<1>2. CASE records' = records
  BY <1>1, <1>2, RestStands, Zenon DEF GatewayInv, TypeOK
<1>3. CASE authorized(c, id).kind = "ok" /\ records' = [records EXCEPT ![id].stopper = Caller(c)]
  <2>1. /\ records[id] # Gone /\ records[id] \in Stored
        /\ authRequired => c \in Credential /\ (IsAdmin(c) \/ records[id].subject = Identity[c].subject)
    <3>1. Error("NotFound").kind # "ok"
      BY Zenon DEF Error
    <3> QED
      BY <1>3, <3>1, AuthorizedAnswers, Zenon
  <2> DEFINE r == [records[id] EXCEPT !.stopper = Caller(c)]
  <2>2. /\ r \in Stored /\ r.subject = records[id].subject /\ r.db = records[id].db /\ r.key = records[id].key
        /\ r.stopper = Caller(c)
    BY <2>1, CallerKnown, Zenon DEF Stored
  <2>3. records' = [records EXCEPT ![id] = r]
    BY <1>3, Zenon
  <2>4. Caller(c) \in Credential => Caller(c) = c /\ authRequired
    BY CallerKnown, Zenon DEF Caller
  <2> HIDE DEF r
  <2> QED
    BY <1>1, <2>1, <2>2, <2>3, <2>4, RecordMovesOn, ZenonT(20)
<1> QED
  BY <1>2, <1>3, Zenon DEF StopQuery

(* A query's state moves on; its owner, database and key stay. *)
LEMMA SettleKeeps ==
  ASSUME GatewayInv, LimiterInv', NEW id \in Id, NEW s \in QueryState, Settle(id, s)
  PROVE  GatewayInv'
<1> DEFINE r == [records[id] EXCEPT !.state = s]
<1>1. records[id] # Gone /\ records[id] \in Stored
  BY Zenon DEF Settle, GatewayInv, TypeOK
<1>2. /\ r \in Stored /\ r.subject = records[id].subject /\ r.db = records[id].db /\ r.key = records[id].key
      /\ r.stopper = records[id].stopper
  BY <1>1, Zenon DEF Stored
<1>3. records' = [records EXCEPT ![id] = r] /\ UNCHANGED <<authRequired, config, draining, claims>>
  BY Zenon DEF Settle
<1> HIDE DEF r
<1> QED
  BY <1>1, <1>2, <1>3, RecordMovesOn, Zenon

(* The limiter takes a step of its own or none, or starts over with the server. *)
LEMMA LimiterGoesAlong ==
  ASSUME LimiterInv, [Next]_vars
  PROVE  LimiterInv'
<1>1. CASE [LimiterNext]_limiterVars
  BY <1>1, LimiterNextInv, Zenon
<1>2. CASE Restart
  BY <1>2, LimiterAssumption DEF Restart, LimiterInv, LimiterTypeOK, IdleIsFull
<1>3. [LimiterNext]_limiterVars \/ Restart
  <2>1. ASSUME NEW k \in Key, Allow(k) PROVE LimiterNext
    BY <2>1, Zenon DEF LimiterNext
  <2>2. ASSUME NEW k \in Key, NEW t \in {"rest", "connect"}, NEW c \in Credential \cup {NoCredential},
               \/ \E a \in Submission, pings \in BOOLEAN : StartQuery(k, t, c, a, pings)
               \/ \E id \in Id : StopQuery(k, t, c, id)
               \/ ReloadConfig(k, t, c)
        PROVE  LimiterNext
    <3>1. Allow(k)
      BY <2>2, Zenon DEF StartQuery, StopQuery, ReloadConfig
    <3> QED
      BY <2>1, <3>1, Zenon
  <2>3. ASSUME NEW k \in Key, Read(k) PROVE LimiterNext
    BY <2>1, <2>3, Zenon DEF Read
  <2>4. CASE Tick
    BY <2>4, Zenon DEF Tick, LimiterNext
  <2>5. ASSUME NEW id \in Id, Collect(id) \/ \E s \in QueryState : Settle(id, s) PROVE UNCHANGED limiterVars
    BY <2>5, Zenon DEF Collect, Settle
  <2>6. CASE UNCHANGED vars \/ Drain
    BY <2>6, Zenon DEF vars, Drain
  <2> QED
    BY <2>2, <2>3, <2>4, <2>5, <2>6, Zenon DEF Next
<1> QED
  BY <1>1, <1>2, <1>3, Zenon

(* Every step preserves the invariant. *)
LEMMA GatewayNext == GatewayInv /\ [Next]_vars => GatewayInv'
<1> SUFFICES ASSUME GatewayInv, [Next]_vars PROVE GatewayInv'
  OBVIOUS
<1>1. LimiterInv'
  BY LimiterGoesAlong, Zenon DEF GatewayInv
<1>2. CASE UNCHANGED vars
  BY <1>1, <1>2, RestStands, Zenon DEF vars, gatewayVars, GatewayInv, TypeOK
<1>3. ASSUME NEW k \in Key, NEW t \in {"rest", "connect"}, NEW c \in Credential \cup {NoCredential},
             \/ \E a \in Submission, pings \in BOOLEAN : StartQuery(k, t, c, a, pings)
             \/ \E id \in Id : StopQuery(k, t, c, id)
             \/ ReloadConfig(k, t, c)
      PROVE  GatewayInv'
  <2>1. c \in Requester
    BY Zenon DEF Requester
  <2>2. CASE ReloadConfig(k, t, c)
    BY <1>1, <2>2, RestStands, Zenon DEF ReloadConfig, GatewayInv, TypeOK
  <2> QED
    BY <1>1, <1>3, <2>1, <2>2, StartKeeps, StopKeeps, Zenon
<1>4. ASSUME NEW k \in Key, Read(k) PROVE GatewayInv'
  BY <1>1, <1>4, RestStands, Zenon DEF Read, gatewayVars, GatewayInv, TypeOK
<1>5. ASSUME NEW id \in Id, Collect(id) PROVE GatewayInv'
  BY <1>5, CollectKeeps, Zenon
<1>6. ASSUME NEW id \in Id, NEW s \in QueryState, Settle(id, s) PROVE GatewayInv'
  BY <1>1, <1>6, SettleKeeps, Zenon
<1>7. CASE Drain
  BY <1>1, <1>7, RestStands, Zenon DEF Drain, GatewayInv, TypeOK
<1>8. CASE Restart
  BY <1>1, <1>8, RestStands, ZenonT(20) DEF Restart, GatewayInv, TypeOK
<1>9. CASE Tick
  BY <1>1, <1>9, RestStands, Zenon DEF Tick, gatewayVars, GatewayInv, TypeOK
<1> QED
  BY <1>2, <1>3, <1>4, <1>5, <1>6, <1>7, <1>8, <1>9, Zenon DEF Next

(* The invariant of every server. *)
LEMMA GatewayAlways == Spec => []GatewayInv
  BY GatewayInit, GatewayNext, PTL DEF Spec

-----------------------------------------------------------------------------
(* QueryService.authorized, resolveIdempotency: whatever call is made, on  *)
(* whichever transport and after whatever restarts with or without         *)
(* authentication, a record goes to its owner or an administrator.         *)
THEOREM OwnRecordsAlways == Spec => []OwnRecordsOnly
  BY GatewayAlways, OwnAnswers, PTL

(* The REST router and the Connect handlers: one API, whatever the records *)
(* and the configuration.                                                  *)
THEOREM TransportsAlwaysAgree == Spec => []TransportsAgree
  BY GatewayAlways, SameAnswers, PTL

(* SubmitQuery: what is accepted is stored as asked, a key leads to its    *)
(* own record, and the list of databases holds those of the records.       *)
THEOREM SubmissionsOnRecord == Spec => []SubmissionIsOnRecord
  BY GatewayAlways, SubmittedAsAsked, PTL

(* Limiter.purgeLocked is invisible to callers: a dropped bucket had       *)
(* refilled, so its successor starts with the same tokens.                 *)
THEOREM EvictionInvisible == Spec => []EvictionIsInvisible
<1>1. GatewayInv => EvictionIsInvisible
  BY SweptIsFull, Zenon DEF EvictionIsInvisible, GatewayInv
<1> QED
  BY <1>1, GatewayAlways, PTL

-----------------------------------------------------------------------------
(* DownloadResult and sectionReadCloser: what was asked for is what is     *)
(* sent, whatever part of a result was asked for and whatever the server   *)
(* has done.                                                               *)
THEOREM RangesAlwaysServed == Spec => []RangeIsServed
<1>1. RangeIsServed
  BY TriedSectionsAreExact, Zenon DEF RangeIsServed
<1> QED
  BY <1>1, PTL

(* sqlguard.ReadOnly, which SubmitQuery consults while writes are not      *)
(* allowed: its scanner decides every statement by its lexemes.            *)
THEOREM GuardAlwaysExact == Spec => []GuardIsExact
<1>1. GuardIsExact
  BY TriedStatementsAreDecided, Zenon DEF GuardIsExact
<1> QED
  BY <1>1, PTL
=============================================================================
