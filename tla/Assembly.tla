------------------------------ MODULE Assembly ------------------------------
(***************************************************************************)
(* The process around the manager: cmd/dbbridge/app.go and shutdown.go     *)
(* build it step by step, undo a start that fails, bind the listeners,     *)
(* and close everything; internal/config decides which files are accepted  *)
(* and what a reload reports.                                              *)
(*                                                                         *)
(* A configuration is its sections as far as the start depends on them.    *)
(* Certs models the handshakes of a listener that serves TLS.              *)
(***************************************************************************)
EXTENDS Certs, Integers, Sequences, Functions

CONSTANTS Files,      \* what the configuration file may hold at the start
          Edits,      \* what it may be edited to
          Width,      \* bits of a Duration: 64 in the program
          LongestGC,  \* the longest gc_interval validate lets through: 58 years
          DefaultGC,  \* one minute
          Reloader    \* calls of QueryManager.Reload that may overlap

MaxInt == 2 ^ (Width - 1) - 1

(* A configuration file: which backends, databases and tokens it has, and whether the
   tokens can be used. *)
Config ==
  [instance : [metastore : STRING, addr : BOOLEAN, default : STRING, gc : Int],
   server : [cert : BOOLEAN, key : BOOLEAN, admin : BOOLEAN],
   storage : SUBSET {"fs", "s3", "clickhouse"},
   auth : {"none", "empty", "bad", "good"}, max : Int, databases : Seq(STRING)]

ASSUME AssemblyAssumption ==
  /\ Width \in Nat \ {0, 1} /\ MaxInt \in Nat
  /\ LongestGC \in Nat /\ DefaultGC \in 1 .. LongestGC /\ 5 * LongestGC <= MaxInt
  /\ Files \subseteq Config /\ Edits \subseteq Files

VARIABLES pc,         \* the step of newApp, serve, awaitSignals or Close that is next
          file,       \* the configuration file
          cfg,        \* app.cfg: the configuration the process was built from
          stored,     \* config.Manager's pointer
          built,      \* components the app holds
          registered, \* names in the storage registry
          closed,     \* components Close has released
          listening,  \* listeners that accept connections
          handling,   \* listeners with a handler running
          cutOff,     \* handlers were left running: a budget ran out or a bind failed
          rpc, old,   \* where a reload is, and the configuration it started from
          read,       \* the configuration it has read
          reported    \* history: the sections some reload reported as ignored

startVars == <<cfg, built, registered>>
closeVars == <<closed, listening, handling, cutOff>>
reloadVars == <<stored, rpc, old, read, reported>>
vars == <<pc, file, startVars, closeVars, reloadVars, certVars>>

NoConfig == [section |-> "none"]

Component == {"telemetry", "metastore", "fs", "s3", "clickhouse", "manager", "auth", "tls"}
Listener == <<"rest", "grpc", "admin">>
Section == {"instance", "server", "storage", "auth", "defaults.max_concurrent_queries"}

(***************************************************************************)
(* internal/config                                                         *)
(***************************************************************************)
(* Mutant of validate: the bound on gc_interval is missing. *)
validateAnyInterval(c) ==
  /\ c.instance.metastore \in {"redis", "memory"}
  /\ c.instance.metastore = "redis" => c.instance.addr
  /\ c.instance.default \in {"", "fs"} \/ (c.instance.default \in {"s3", "clickhouse"} /\ c.instance.default \in c.storage)
  /\ c.auth # "empty"
  /\ c.server.cert = c.server.key
  /\ \A i, j \in DOMAIN c.databases : c.databases[i] = c.databases[j] => i = j

(* Which files are accepted: "" is a default_storage left out, and a database its id.  An
   empty instance id, an unknown engine and an empty DSN are refused the same way. *)
validate(c) ==
  /\ c.instance.metastore \in {"redis", "memory"}
  /\ c.instance.metastore = "redis" => c.instance.addr
  /\ c.instance.default \in {"", "fs"} \/ (c.instance.default \in {"s3", "clickhouse"} /\ c.instance.default \in c.storage)
  /\ c.instance.gc <= LongestGC
  /\ c.auth # "empty"
  /\ c.server.cert = c.server.key
  /\ \A i, j \in DOMAIN c.databases : c.databases[i] = c.databases[j] => i = j

(* The defaults validate fills in. *)
Filled(c) ==
  [c EXCEPT !.instance.default = IF @ = "" THEN "fs" ELSE @,
            !.instance.gc = IF @ = 0 THEN DefaultGC ELSE @]

(* Mutant of NonReloadableChanges: the instance section is not compared. *)
NonReloadableButInstance(oldCfg, newCfg) ==
  {s \in {"server", "storage", "auth"} : oldCfg[s] # newCfg[s]}
    \cup {s \in {"defaults.max_concurrent_queries"} : oldCfg.max # newCfg.max}

NonReloadableChanges(oldCfg, newCfg) ==
  {s \in {"instance", "server", "storage", "auth"} : oldCfg[s] # newCfg[s]}
    \cup {s \in {"defaults.max_concurrent_queries"} : oldCfg.max # newCfg.max}

Enabled(c) == c.server.cert /\ c.server.key

(* Two's complement: 2 * (MaxInt + 1) = 2 ^ Width. *)
Int64(x) == ((x + MaxInt + 1) % (2 * (MaxInt + 1))) - (MaxInt + 1)

(* The period the manager captured, and what a pass derives from it. *)
gcPeriod == IF cfg.instance.gc > 0 THEN cfg.instance.gc ELSE DefaultGC
gcBudget == Int64(gcPeriod * 3) \div 4
gcLockTTL == Int64(gcPeriod * 5) \div 6

(* QueryManager.defaultStorage, captured at construction. *)
defaultStorage == cfg.instance.default

(***************************************************************************)
(* newApp                                                                  *)
(***************************************************************************)
TypeOK ==
  /\ CertsTypeOK
  /\ pc \in {"load", "telemetry", "metastore", "storage", "managers", "auth", "servers", "tls",
             "rest", "grpc", "admin", "run", "stop", "close", "exit"}
  /\ file \in Files
  /\ cfg \in {Filled(f) : f \in Files} \cup {NoConfig}
  /\ stored \in {Filled(f) : f \in Files} \cup {NoConfig}
  /\ built \subseteq Component /\ registered \subseteq built /\ closed \subseteq built
  /\ listening \subseteq Range(Listener) /\ handling \subseteq Range(Listener)
  /\ cutOff \in BOOLEAN
  /\ rpc \in [Reloader -> {"idle", "read", "store", "report"}]
  /\ old \in [Reloader -> {Filled(f) : f \in Files} \cup {NoConfig}]
  /\ read \in [Reloader -> {Filled(f) : f \in Files} \cup {NoConfig}]
  /\ reported \subseteq Section

Init ==
  /\ CertsInit
  /\ pc = "load" /\ file \in Files /\ cfg = NoConfig /\ stored = NoConfig
  /\ built = {} /\ registered = {} /\ closed = {}
  /\ listening = {} /\ handling = {} /\ cutOff = FALSE
  /\ rpc = [r \in Reloader |-> "idle"] /\ old = [r \in Reloader |-> NoConfig]
  /\ read = [r \in Reloader |-> NoConfig] /\ reported = {}

(* A file that is not accepted ends the process before anything is built. *)
LoadConfig ==
  /\ pc = "load"
  /\ \/ /\ validate(file)
        /\ cfg' = Filled(file) /\ stored' = Filled(file) /\ pc' = "telemetry"
     \/ /\ ~ validate(file)
        /\ pc' = "exit" /\ UNCHANGED <<cfg, stored>>
  /\ UNCHANGED <<file, built, registered, closeVars, rpc, old, read, reported, certVars>>

(* A step that built what it names. *)
Builds(step, components, next) ==
  /\ pc = step
  /\ pc' = next
  /\ built' = built \cup components
  /\ UNCHANGED <<file, cfg, closeVars, reloadVars, certVars>>

(* A collector that cannot be reached is not a reason not to serve. *)
initTelemetry ==
  /\ Builds("telemetry", {"telemetry"}, "metastore") \/ Builds("telemetry", {}, "metastore")
  /\ UNCHANGED registered

buildMetaStore == Builds("metastore", {"metastore"}, "storage") /\ UNCHANGED registered

(* The backends the configuration asks for, of those there are, in the order they are built. *)
Backend == <<"fs", "s3", "clickhouse">>
Wanted == {b \in Range(Backend) : b \in cfg.storage \/ (b = "fs" /\ cfg.instance.default = "fs")}

(* Every backend that is asked for is built, or the start fails at the first that is not. *)
registerStorage ==
  /\ pc = "storage"
  /\ \E n \in 0 .. Len(Backend) :
       LET stores == Wanted \cap {Backend[i] : i \in 1 .. n}
       IN  /\ Builds("storage", stores,
                     IF stores = Wanted /\ cfg.instance.default \in stores THEN "managers" ELSE "close")
           /\ registered' = stores

buildManagers ==
  /\ Builds("managers", {"manager"}, "auth") \/ Builds("managers", {}, "close")
  /\ UNCHANGED registered

buildAuthenticator ==
  /\ pc = "auth"
  /\ IF cfg.auth = "bad" THEN Builds("auth", {}, "close")
     ELSE Builds("auth", IF cfg.auth = "good" THEN {"auth"} ELSE {}, "servers")
  /\ UNCHANGED registered

(* The rate limiter and the servers are built from what is there, and cannot fail. *)
buildServers == Builds("servers", {}, "tls") /\ UNCHANGED registered

loadTLSCerts ==
  /\ pc = "tls"
  /\ IF Enabled(cfg) THEN Builds("tls", {"tls"}, "rest") \/ Builds("tls", {}, "close")
     ELSE Builds("tls", {}, "rest")
  /\ UNCHANGED registered

(***************************************************************************)
(* serve, and the requests the listeners take                              *)
(***************************************************************************)
After(l) == CASE l = "rest" -> "grpc" [] l = "grpc" -> "admin" [] l = "admin" -> "run"

(* Bound and served; an admin listener only if it is configured.  A bind that fails sends
   main straight to Close, past the listeners that are up. *)
serveOne(l) ==
  /\ pc = l
  /\ \/ /\ l = "admin" /\ ~ cfg.server.admin
        /\ pc' = After(l) /\ UNCHANGED <<listening, cutOff>>
     \/ /\ l = "admin" => cfg.server.admin
        /\ pc' = After(l) /\ listening' = listening \cup {l} /\ UNCHANGED cutOff
     \/ /\ l = "admin" => cfg.server.admin
        /\ pc' = "close" /\ cutOff' = TRUE /\ UNCHANGED listening
  /\ UNCHANGED <<file, startVars, closed, handling, reloadVars, certVars>>

(* A WebSocket is hijacked, and Shutdown neither closes nor waits for it: Hub has those. *)
Request(l) ==
  /\ l \in listening /\ l \notin handling
  /\ handling' = handling \cup {l}
  /\ UNCHANGED <<pc, file, startVars, closed, listening, cutOff, reloadVars, certVars>>

Respond(l) ==
  /\ l \in handling
  /\ handling' = handling \ {l}
  /\ UNCHANGED <<pc, file, startVars, closed, listening, cutOff, reloadVars, certVars>>

(* A handshake of a listener that serves TLS, and the renewals of its files. *)
Handshakes ==
  /\ listening # {} /\ "tls" \in built
  /\ CertsNext
  /\ UNCHANGED <<pc, file, startVars, closeVars, reloadVars>>

(***************************************************************************)
(* Reload, by a signal or by the endpoint                                  *)
(***************************************************************************)
EditFile ==
  /\ pc = "run"
  /\ file' \in Edits \ {file}
  /\ UNCHANGED <<pc, startVars, closeVars, reloadVars, certVars>>

ReloadBegin(r) ==
  /\ pc = "run" /\ rpc[r] = "idle"
  /\ rpc' = [rpc EXCEPT ![r] = "read"]
  /\ old' = [old EXCEPT ![r] = stored]
  /\ UNCHANGED <<pc, file, startVars, closeVars, stored, read, reported, certVars>>

(* config.Manager.Reload: the file is read, or refused ... *)
ReloadRead(r) ==
  /\ rpc[r] = "read"
  /\ \/ /\ validate(file)
        /\ read' = [read EXCEPT ![r] = Filled(file)]
        /\ rpc' = [rpc EXCEPT ![r] = "store"] /\ UNCHANGED old
     \/ /\ ~ validate(file)
        /\ rpc' = [rpc EXCEPT ![r] = "idle"]
        /\ old' = [old EXCEPT ![r] = NoConfig] /\ UNCHANGED read
  /\ UNCHANGED <<pc, file, startVars, closeVars, stored, reported, certVars>>

(* ... and swapped in. *)
ReloadStore(r) ==
  /\ rpc[r] = "store"
  /\ stored' = read[r]
  /\ read' = [read EXCEPT ![r] = NoConfig]
  /\ rpc' = [rpc EXCEPT ![r] = "report"]
  /\ UNCHANGED <<pc, file, startVars, closeVars, old, reported, certVars>>

(* The report, which names the ignored sections also when a pool failed to open. *)
ReloadReport(r) ==
  /\ rpc[r] = "report"
  /\ reported' = reported \cup NonReloadableChanges(old[r], stored)
  /\ rpc' = [rpc EXCEPT ![r] = "idle"] /\ old' = [old EXCEPT ![r] = NoConfig]
  /\ UNCHANGED <<pc, file, startVars, closeVars, stored, read, certVars>>

(***************************************************************************)
(* Shutdown and Close                                                      *)
(***************************************************************************)
(* The first of the places of a list that are left. *)
IsFirst(i, places) == i \in places /\ \A j \in places : i <= j

(* The drain that comes first is the subject of Drain. *)
runShutdown ==
  /\ pc = "run" /\ pc' = "stop"
  /\ UNCHANGED <<file, startVars, closeVars, reloadVars, certVars>>

(* The listeners are shut in turn, in the order they were bound: each stops accepting and
   waits for its handlers, within a budget they share. *)
stopServers ==
  LET up == {i \in DOMAIN Listener : Listener[i] \in listening}
  IN  /\ pc = "stop"
      /\ \/ /\ handling \subseteq listening
            /\ \E i \in up : IsFirst(i, up) /\ listening' = listening \ {Listener[i]}
            /\ UNCHANGED <<pc, cutOff>>
         \/ /\ handling = {} /\ up = {}
            /\ pc' = "close" /\ UNCHANGED <<listening, cutOff>>
         \/ /\ ~ handling \subseteq listening
            /\ pc' = "close" /\ listening' = {} /\ cutOff' = TRUE
      /\ UNCHANGED <<file, startVars, closed, handling, reloadVars, certVars>>

(* Mutant of closeSteps: the MetaStore goes before what uses it. *)
closeStepsStoreFirst == <<"metastore", "manager", "clickhouse", "fs", "telemetry">>

(* What is closed, in order. *)
closeSteps == <<"manager", "clickhouse", "fs", "metastore", "telemetry">>

(* A step that fails is logged and the next one runs. *)
Close ==
  LET left == {i \in DOMAIN closeSteps : closeSteps[i] \in built \ closed}
  IN  /\ pc = "close"
      /\ \/ /\ \E i \in left : IsFirst(i, left) /\ closed' = closed \cup {closeSteps[i]}
            /\ UNCHANGED pc
         \/ left = {} /\ pc' = "exit" /\ UNCHANGED closed
      /\ UNCHANGED <<file, startVars, listening, handling, cutOff, reloadVars, certVars>>

Next ==
  \/ LoadConfig \/ initTelemetry \/ buildMetaStore \/ registerStorage \/ buildManagers
  \/ buildAuthenticator \/ buildServers \/ loadTLSCerts
  \/ \E l \in Range(Listener) : serveOne(l) \/ Request(l) \/ Respond(l)
  \/ Handshakes \/ EditFile
  \/ \E r \in Reloader : ReloadBegin(r) \/ ReloadRead(r) \/ ReloadStore(r) \/ ReloadReport(r)
  \/ runShutdown \/ stopServers \/ Close

Spec == Init /\ [][Next]_vars

(***************************************************************************)
(* What is in use is not released, and all is released in the end.  "What  *)
(* uses a dependency goes before the dependency itself" (closeSteps), also *)
(* when the start failed half way; telemetry goes last.  A process that    *)
(* ends has released all it built, whichever step of the start failed      *)
(* (newApp: "the half-built app is released through the same Close that    *)
(* ends a normal run").  No request is being handled by components that    *)
(* are closed (runShutdown stops the servers before Close), unless the     *)
(* shutdown budget ran out on it or a later listener could not be bound.   *)
(* The variables are in their types.                                       *)
(***************************************************************************)
ReleasedInOrder ==
  /\ TypeOK
  /\ closed \cap {"clickhouse", "fs", "metastore"} # {} => "manager" \notin built \ closed
  /\ "telemetry" \in closed => built \cap {"manager", "clickhouse", "fs", "metastore"} \subseteq closed
  /\ pc = "exit" => built \cap {"telemetry", "metastore", "fs", "clickhouse", "manager"} \subseteq closed
  /\ handling # {} /\ ~ cutOff => closed = {}

(***************************************************************************)
(* A process that accepts requests runs the way its file says.  With an    *)
(* auth section it holds an authenticator, and with a certificate pair the *)
(* pair (buildAuthenticator, loadTLSCerts).  The backend a query is given  *)
(* when it names none was built, whatever reloads did to                   *)
(* instance.default_storage (defaultStorage, registerStorage).  The bound  *)
(* validate puts on gc_interval keeps a collection's durations in order,   *)
(* with no overflow: the budget ends before the lock does and the lock     *)
(* before the next period (gcLockTTL).                                     *)
(***************************************************************************)
ServesAsConfigured ==
  listening # {} =>
    /\ cfg.auth # "none" => "auth" \in built
    /\ cfg.server.cert \/ cfg.server.key => "tls" \in built
    /\ defaultStorage \in registered
    /\ gcPeriod > 1 => 0 < gcBudget /\ gcBudget <= gcLockTTL /\ gcLockTTL < gcPeriod

(***************************************************************************)
(* "A reload reports them in ReloadReport.Ignored rather than claiming     *)
(* success and quietly keeping the old values" (docs/spec.md, section 8):  *)
(* once no reload is under way, every section in which the stored          *)
(* configuration differs from the one the process runs on was reported,    *)
(* however two reloads and the edits of the file overlapped.  Three can    *)
(* miss one: a second puts the old values back between the swap and the    *)
(* report of a first, and a third, which began after that swap with the    *)
(* changed values as its old ones, stores those again as no change.        *)
(***************************************************************************)
DriftWasReported ==
  pc = "run" /\ (\A r \in Reloader : rpc[r] = "idle") =>
    /\ \A s \in {"instance", "server", "storage", "auth"} : cfg[s] # stored[s] => s \in reported
    /\ cfg.max # stored.max => "defaults.max_concurrent_queries" \in reported

-----------------------------------------------------------------------------
(* The inductive invariants of the proofs.                                 *)

Accepted == {Filled(f) : f \in {g \in Files : validate(g)}}

Starting == {"load", "telemetry", "metastore", "storage", "managers", "auth", "servers", "tls"}
Serving == {"rest", "grpc", "admin", "run", "stop"}

(* Every step of the start leaves what the configuration asks of it, and   *)
(* what it left stays as long as a listener is up.                         *)
BuiltAsAsked ==
  LET reached(steps) == listening # {} \/ pc \in steps \cup Serving
  IN  /\ reached((Starting \ {"load"}) \cup {"close"}) => cfg \in Accepted
      /\ reached({"managers", "auth", "servers", "tls"}) => defaultStorage \in registered
      /\ reached({"servers", "tls"}) /\ cfg.auth # "none" => "auth" \in built
      /\ reached({}) /\ (cfg.server.cert \/ cfg.server.key) => "tls" \in built

(* Nothing is closed before its turn, nor before the handlers are done. *)
ClosedInTurn ==
  /\ pc = "load" => built = {}
  /\ closed # {} => pc \in {"close", "exit"}
  /\ \A i, j \in DOMAIN closeSteps :
       i < j /\ closeSteps[j] \in closed => closeSteps[i] \notin built \ closed
  /\ pc = "exit" => \A i \in DOMAIN closeSteps : closeSteps[i] \notin built \ closed
  /\ pc \in Starting \/ (pc \in {"close", "exit"} /\ ~ cutOff) => listening = {} /\ handling = {}

AssemblyInv == CertsInv /\ TypeOK /\ BuiltAsAsked /\ ClosedInTurn

(* What a section of a configuration says. *)
Says(c, s) == IF s = "defaults.max_concurrent_queries" THEN c.max ELSE c[s]

(***************************************************************************)
(* A section that has drifted was reported, or a reload is about to report *)
(* it that began before it drifted; and while a reload that began after it *)
(* drifted has not stored its file, that other one still will.             *)
(***************************************************************************)
DriftInv ==
  LET drifted(s) == stored # cfg /\ Says(stored, s) # Says(cfg, s)
      reports(r, s) == rpc[r] = "report" /\ Says(old[r], s) = Says(cfg, s)
  IN  /\ pc \in Starting => cfg = stored /\ \A r \in Reloader : rpc[r] = "idle"
      /\ \A s \in Section \ reported :
           /\ drifted(s) => \E r \in Reloader : reports(r, s)
           /\ \A r \in Reloader :
                rpc[r] \in {"read", "store"} /\ Says(old[r], s) # Says(cfg, s)
                  => drifted(s) /\ \E q \in Reloader : reports(q, s)
=============================================================================
