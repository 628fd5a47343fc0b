--------------------------- MODULE Process_proofs ---------------------------
(* Theorems about the process: its certificates, for every number of       *)
(* handshakes and renewals; its start, reloads and end, for every set of   *)
(* configuration files; and its drain, for every set of queries and of     *)
(* probes.                                                                 *)
EXTENDS Assembly, Drain, FiniteSetTheorems, TLAPS

-----------------------------------------------------------------------------
(* The certificate reloader.                                               *)

(* The state after the first load. *)
LEMMA CertsInitInv == CertsInit => CertsInv
  BY CertsAssumption
    DEF CertsInit, CertsInv, CertsTypeOK, ServedIsAPair, Ordered, Version, Pair, Zero

(* A renewal only moves a file ahead of everything read from it. *)
LEMMA RenewKeeps == CertsInv /\ (RenewCert \/ RenewKey) => CertsInv'
  BY CertsAssumption
     DEF RenewCert, RenewKey, CertsInv, CertsTypeOK, ServedIsAPair, Ordered, Version, Pair

(* The steps of one handshake, of which only StorePair changes what is     *)
(* served; every other handshake is left where it was.                     *)
LEMMA HandshakeKeeps ==
  ASSUME CertsInv, NEW h \in Handshake, HandshakeStep(h)
  PROVE  CertsInv'
<1> USE CertsAssumption DEF CertsInv, CertsTypeOK, ServedIsAPair, Ordered, Version, Pair, Zero
<1>1. CASE Changed(h)
  BY <1>1 DEF Changed
<1>2. CASE Compare(h)
  BY <1>2 DEF Compare
<1>3. CASE StatCert(h)
  BY <1>3 DEF StatCert
<1>4. CASE StatKey(h)
  BY <1>4 DEF StatKey
<1>5. CASE ReadCert(h)
  BY <1>5 DEF ReadCert
<1>6. CASE ReadKey(h)
  <2>1. UNCHANGED <<certFile, keyFile, cert, certMod, keyMod>>
    BY <1>6, Zenon DEF ReadKey
  <2>2. CASE loaded[h].c = keyFile
    <3>1. /\ hpc' = [hpc EXCEPT ![h] = "store"] /\ UNCHANGED stat
          /\ loaded' = [loaded EXCEPT ![h] = [c |-> loaded[h].c, k |-> keyFile]]
      BY <1>6, <2>2 DEF ReadKey
    <3>2. Ordered(stat[h].c, loaded[h].c, certFile) /\ Ordered(stat[h].k, keyFile, keyFile)
      BY <1>6 DEF ReadKey
    <3> QED
      BY <2>1, <2>2, <3>1, <3>2, Zenon
  <2>3. CASE loaded[h].c # keyFile
    <3>1. /\ hpc' = [hpc EXCEPT ![h] = "idle"]
          /\ loaded' = [loaded EXCEPT ![h] = Zero] /\ stat' = [stat EXCEPT ![h] = Zero]
      BY <1>6, <2>3, Zenon DEF ReadKey
    <3> QED
      BY <2>1, <3>1
  <2> QED
    BY <2>2, <2>3, Zenon
<1>7. CASE StorePair(h)
  BY <1>7 DEF StorePair
<1>8. CASE FileError(h)
  BY <1>8 DEF FileError
<1> QED
  BY <1>1, <1>2, <1>3, <1>4, <1>5, <1>6, <1>7, <1>8, Zenon DEF HandshakeStep

(* Every step of the reloaders preserves the invariant. *)
LEMMA CertsNextInv == CertsInv /\ [CertsNext]_certVars => CertsInv'
<1> SUFFICES ASSUME CertsInv, [CertsNext]_certVars PROVE CertsInv'
  OBVIOUS
<1>1. CASE UNCHANGED certVars
  BY <1>1, Zenon DEF certVars, CertsInv, CertsTypeOK, ServedIsAPair, Ordered
<1> QED
  BY <1>1, RenewKeeps, HandshakeKeeps, Zenon DEF CertsNext

(* getCertificate never serves a certificate with the key of another       *)
(* renewal, however renewals and handshakes overlap.                       *)
THEOREM AlwaysAPair == CertsSpec => []ServedIsAPair
<1>1. CertsInv => ServedIsAPair
  BY Zenon DEF CertsInv
<1> QED
  BY <1>1, CertsInitInv, CertsNextInv, PTL DEF CertsSpec

(* Reloader.changed never misses a renewal: served times that match those  *)
(* of the files belong to the files' own pair.                             *)
THEOREM StaleAlwaysNoticed == CertsSpec => []StaleIsNoticed
<1>1. CertsInv => StaleIsNoticed
  <2> SUFFICES ASSUME CertsInv, certMod = certFile, keyMod = keyFile
               PROVE  cert = [c |-> certFile, k |-> keyFile]
    BY Zenon DEF StaleIsNoticed
  <2>1. /\ cert \in Pair /\ certMod \in Nat /\ keyMod \in Nat /\ cert.c \in Nat /\ cert.k \in Nat
        /\ certMod <= cert.c /\ cert.c <= certFile /\ keyMod <= cert.k /\ cert.k <= keyFile
    BY CertsAssumption DEF CertsInv, CertsTypeOK, Pair, Version, Ordered
  <2>2. cert.c = certFile /\ cert.k = keyFile
    BY <2>1
  <2> QED
    BY <2>1, <2>2, Zenon DEF Pair
<1> QED
  BY <1>1, CertsInitInv, CertsNextInv, PTL DEF CertsSpec

-----------------------------------------------------------------------------
(* The configuration a process runs on.                                    *)

(* What validate lets through, defaults filled in. *)
LEMMA AcceptedIs ==
  ASSUME NEW c \in Accepted
  PROVE  /\ c \in {Filled(f) : f \in Files}
         /\ c.auth \in {"none", "bad", "good"}
         /\ c.server.cert \in BOOLEAN /\ c.server.key = c.server.cert
         /\ c.instance.gc \in Int /\ c.instance.gc <= LongestGC
<1>1. PICK f \in Files : validate(f) /\ c = Filled(f)
  BY Zenon DEF Accepted
<1>2. f \in Config
  BY AssemblyAssumption, Zenon
<1>3. /\ f.auth \in {"none", "empty", "bad", "good"} /\ f.auth # "empty"
      /\ f.server.cert \in BOOLEAN /\ f.server.key = f.server.cert
      /\ f.instance.gc \in Int /\ f.instance.gc <= LongestGC
  BY <1>1, <1>2, Zenon DEF Config, validate
<1>4. /\ Filled(f).auth = f.auth /\ Filled(f).server = f.server
      /\ Filled(f).instance.gc = IF f.instance.gc = 0 THEN DefaultGC ELSE f.instance.gc
  BY <1>2, Zenon DEF Filled, Config
<1> QED
  BY <1>1, <1>3, <1>4, AssemblyAssumption

(* A number below the modulus is its own remainder. *)
LEMMA SmallRemainder ==
  ASSUME NEW m \in Nat \ {0}, NEW a \in 0 .. m - 1
  PROVE  a % m = a
OBVIOUS

(* A product that fits a Duration is not changed by the conversion. *)
LEMMA FitsInt64 ==
  ASSUME NEW x \in 0 .. MaxInt
  PROVE  Int64(x) = x
<1>1. 2 * (MaxInt + 1) \in Nat \ {0} /\ x + MaxInt + 1 \in 0 .. 2 * (MaxInt + 1) - 1
  BY AssemblyAssumption
<1>2. (x + MaxInt + 1) % (2 * (MaxInt + 1)) = x + MaxInt + 1
  BY <1>1, SmallRemainder, Zenon
<1> QED
  BY <1>2, AssemblyAssumption DEF Int64

(* The bound on gc_interval keeps the durations of a pass in order. *)
LEMMA DurationsInOrder ==
  ASSUME cfg \in Accepted
  PROVE  gcPeriod > 1 => 0 < gcBudget /\ gcBudget <= gcLockTTL /\ gcLockTTL < gcPeriod
<1>1. gcPeriod \in 1 .. LongestGC
  BY AcceptedIs, AssemblyAssumption DEF gcPeriod
<1>2. gcPeriod * 3 \in 0 .. MaxInt /\ gcPeriod * 5 \in 0 .. MaxInt
  BY <1>1, AssemblyAssumption
<1>3. gcBudget = (gcPeriod * 3) \div 4 /\ gcLockTTL = (gcPeriod * 5) \div 6
  BY <1>2, FitsInt64, Zenon DEF gcBudget, gcLockTTL
<1> QED
  BY <1>1, <1>3, AssemblyAssumption

-----------------------------------------------------------------------------
(* The start and the end of the process.                                   *)

(* A process that is about to load its file. *)
LEMMA AssemblyInit == Init => AssemblyInv
<1> SUFFICES ASSUME Init PROVE AssemblyInv
  OBVIOUS
<1>1. CertsInv
  BY CertsInitInv, Zenon DEF Init
<1>2. TypeOK
  BY <1>1, Zenon DEF Init, TypeOK, CertsInv
<1>3. BuiltAsAsked
  BY Zenon DEF Init, BuiltAsAsked, Starting, Serving
<1>4. ClosedInTurn
  BY Zenon DEF Init, ClosedInTurn, closeSteps
<1> QED
  BY <1>1, <1>2, <1>3, <1>4, Zenon DEF AssemblyInv

(* Steps that leave the certificates alone. *)
LEMMA CertsStand ==
  ASSUME CertsInv, UNCHANGED certVars
  PROVE  CertsInv' /\ CertsTypeOK'
<1>1. CertsInv'
  BY CertsNextInv, Zenon
<1> QED
  BY <1>1, Zenon DEF CertsInv

(* LoadConfig. *)
LEMMA LoadKeeps ==
  ASSUME AssemblyInv, LoadConfig
  PROVE  AssemblyInv'
<1>1. CertsInv' /\ CertsTypeOK'
  BY CertsStand, Zenon DEF AssemblyInv, LoadConfig
<1>2. /\ pc = "load" /\ pc' \in {"telemetry", "exit"} /\ UNCHANGED <<file, built, registered, closeVars, rpc, old, read, reported>>
      /\ \/ validate(file) /\ cfg' = Filled(file) /\ stored' = Filled(file) /\ pc' = "telemetry"
         \/ UNCHANGED <<cfg, stored>> /\ pc' = "exit"
  BY Zenon DEF LoadConfig
<1>3. file \in Files
  BY Zenon DEF AssemblyInv, TypeOK
<1>4. TypeOK'
  BY <1>1, <1>2, <1>3, Zenon DEF AssemblyInv, TypeOK, closeVars
<1>5. listening = {} /\ handling = {} /\ built = {} /\ closed = {}
  BY <1>2, Zenon DEF AssemblyInv, ClosedInTurn, Starting
<1>6. BuiltAsAsked'
  BY <1>2, <1>3, <1>5, Zenon DEF BuiltAsAsked, Accepted, Starting, Serving, closeVars
<1>7. ClosedInTurn'
  BY <1>2, <1>5, Zenon DEF ClosedInTurn, closeVars, closeSteps
<1> QED
  BY <1>1, <1>4, <1>6, <1>7, Zenon DEF AssemblyInv

(* A step of newApp, of which the configuration's demands are met. *)
LEMMA BuildsKeeps ==
  ASSUME AssemblyInv, NEW here \in Starting \ {"load"}, NEW components \in SUBSET Component,
         NEW next \in (Starting \ {"load"}) \cup {"rest", "close"},
         Builds(here, components, next), registered' \subseteq built', BuiltAsAsked'
  PROVE  AssemblyInv'
<1>1. CertsInv' /\ CertsTypeOK'
  BY CertsStand, Zenon DEF AssemblyInv, Builds
<1>2. pc = here /\ pc' = next /\ built' = built \cup components /\ UNCHANGED <<file, cfg, closeVars, reloadVars>>
  BY Zenon DEF Builds
<1>3. listening = {} /\ handling = {} /\ closed = {}
  BY <1>2, Zenon DEF AssemblyInv, ClosedInTurn, Starting
<1>4. TypeOK'
  BY <1>1, <1>2, <1>3, Zenon DEF AssemblyInv, TypeOK, closeVars, reloadVars, Starting
<1>5. ClosedInTurn'
  BY <1>2, <1>3, Zenon DEF ClosedInTurn, closeVars, Starting
<1> QED
  BY <1>1, <1>4, <1>5, Zenon DEF AssemblyInv

(* The steps of newApp. *)
LEMMA StartKeeps ==
  ASSUME AssemblyInv,
         \/ initTelemetry \/ buildMetaStore \/ registerStorage \/ buildManagers
         \/ buildAuthenticator \/ buildServers \/ loadTLSCerts
  PROVE  AssemblyInv'
<1>1. registered \subseteq built /\ BuiltAsAsked /\ (pc \in Starting => listening = {})
  BY Zenon DEF AssemblyInv, TypeOK, ClosedInTurn
<1>2. pc \in Starting \ {"load"} => cfg \in Accepted
  BY <1>1, Zenon DEF BuiltAsAsked
<1>3. CASE initTelemetry
  <2>1. BuiltAsAsked' /\ registered' \subseteq built'
    BY <1>1, <1>2, <1>3, Zenon DEF initTelemetry, Builds, BuiltAsAsked, Starting, Serving, closeVars
  <2> QED
    BY <1>3, <2>1, BuildsKeeps, Zenon DEF initTelemetry, Starting, Component
<1>4. CASE buildMetaStore
  <2>1. BuiltAsAsked' /\ registered' \subseteq built'
    BY <1>1, <1>2, <1>4, Zenon DEF buildMetaStore, Builds, BuiltAsAsked, Starting, Serving, closeVars
  <2> QED
    BY <1>4, <2>1, BuildsKeeps, Zenon DEF buildMetaStore, Starting, Component
<1>5. CASE registerStorage
  <2>1. PICK n \in 0 .. Len(Backend) :
          LET stores == Wanted \cap {Backend[i] : i \in 1 .. n}
          IN  /\ Builds("storage", stores,
                        IF stores = Wanted /\ cfg.instance.default \in stores THEN "managers" ELSE "close")
              /\ registered' = stores
    BY <1>5, Zenon DEF registerStorage
  <2> DEFINE stores == Wanted \cap {Backend[i] : i \in 1 .. n}
             next == IF stores = Wanted /\ cfg.instance.default \in stores THEN "managers" ELSE "close"
  <2>2. Builds("storage", stores, next) /\ registered' = stores
    BY <2>1, Zenon
  <2>3. stores \in SUBSET Component
    BY DEF Wanted, Backend, Range, Component
  <2> HIDE DEF stores
  <2>4. BuiltAsAsked' /\ registered' \subseteq built'
    BY <1>1, <1>2, <2>2, Zenon DEF defaultStorage, Builds, BuiltAsAsked, Starting, Serving, closeVars
  <2>5. "storage" \in Starting \ {"load"} /\ next \in (Starting \ {"load"}) \cup {"rest", "close"}
    BY Zenon DEF Starting
  <2> QED
    BY <2>2, <2>3, <2>4, <2>5, BuildsKeeps, Zenon
<1>6. CASE buildManagers
  <2>1. BuiltAsAsked' /\ registered' \subseteq built'
    BY <1>1, <1>2, <1>6, Zenon
      DEF buildManagers, Builds, BuiltAsAsked, Starting, Serving, closeVars, defaultStorage
  <2> QED
    BY <1>6, <2>1, BuildsKeeps, Zenon DEF buildManagers, Starting, Component
<1>7. CASE buildAuthenticator
  <2>1. BuiltAsAsked' /\ registered' \subseteq built'
    BY <1>1, <1>2, <1>7, AcceptedIs, Zenon
      DEF buildAuthenticator, Builds, BuiltAsAsked, Starting, Serving, closeVars, defaultStorage
  <2> QED
    BY <1>7, <2>1, BuildsKeeps, Zenon DEF buildAuthenticator, Starting, Component
<1>8. CASE buildServers
  <2>1. BuiltAsAsked' /\ registered' \subseteq built'
    BY <1>1, <1>2, <1>8, Zenon
      DEF buildServers, Builds, BuiltAsAsked, Starting, Serving, closeVars, defaultStorage
  <2> QED
    BY <1>8, <2>1, BuildsKeeps, Zenon DEF buildServers, Starting, Component
<1>9. CASE loadTLSCerts
  <2>1. BuiltAsAsked' /\ registered' \subseteq built'
    BY <1>1, <1>2, <1>9, AcceptedIs, Zenon
      DEF loadTLSCerts, Builds, BuiltAsAsked, Starting, Serving, closeVars, Enabled, defaultStorage
  <2> QED
    BY <1>9, <2>1, BuildsKeeps, Zenon DEF loadTLSCerts, Starting, Component
<1> QED
  BY <1>3, <1>4, <1>5, <1>6, <1>7, <1>8, <1>9, Zenon

(* What neither builds nor closes keeps the demands of the configuration. *)
LEMMA AskedStands ==
  ASSUME AssemblyInv, UNCHANGED startVars, pc \notin {"load", "exit"},
         listening' # {} \/ pc' \in Serving => listening # {} \/ pc \in Serving,
         pc' \in Serving \cup {"close", "exit"}
  PROVE  BuiltAsAsked'
<1>1. UNCHANGED <<cfg, built, registered>> /\ defaultStorage' = defaultStorage
  BY Zenon DEF startVars, defaultStorage
<1>2. pc \in (Starting \ {"load"}) \cup {"close"} \cup Serving
  BY Zenon DEF AssemblyInv, TypeOK, Starting, Serving
<1> QED
  BY <1>1, <1>2, Zenon DEF AssemblyInv, BuiltAsAsked, Starting, Serving

(* serve binds the listeners, once the process is built. *)
LEMMA ServeKeeps ==
  ASSUME AssemblyInv, NEW l \in Range(Listener), serveOne(l) \/ Request(l) \/ Respond(l)
  PROVE  AssemblyInv'
<1>1. CertsInv' /\ CertsTypeOK' /\ UNCHANGED <<file, startVars, closed, reloadVars>>
  BY CertsStand, Zenon DEF AssemblyInv, serveOne, Request, Respond
<1>2. l \in {"rest", "grpc", "admin"}
  BY DEF Range, Listener
<1>3. /\ pc' \in {pc, After(l), "close"} /\ listening' \subseteq listening \cup {l}
      /\ handling' \subseteq handling \cup {l} /\ cutOff' \in {cutOff, TRUE}
  BY Zenon DEF serveOne, Request, Respond
<1>4. TypeOK'
  BY <1>1, <1>2, <1>3, Zenon DEF AssemblyInv, TypeOK, startVars, reloadVars, After
<1>5. CASE serveOne(l)
  <2>1. pc = l /\ pc \in Serving /\ handling' = handling /\ pc' \in {After(l), "close"} /\ After(l) \in Serving
    BY <1>2, <1>5, Zenon DEF serveOne, Serving, After
  <2>2. BuiltAsAsked'
    BY <1>1, <1>2, <2>1, AskedStands, Zenon
  <2>3. closed = {}
    BY <2>1, Zenon DEF AssemblyInv, ClosedInTurn, Serving
  <2>4. pc' = "close" => cutOff'
    BY <1>2, <1>5, Zenon DEF serveOne, After
  <2>5. ClosedInTurn'
    BY <1>1, <2>1, <2>3, <2>4, Zenon DEF ClosedInTurn, Serving, Starting
  <2> QED
    BY <1>1, <1>4, <2>2, <2>5, Zenon DEF AssemblyInv
<1>6. CASE Request(l) \/ Respond(l)
  <2>1. UNCHANGED <<pc, listening, cutOff>> /\ (handling' # {} => listening # {} \/ handling # {})
    BY <1>6, Zenon DEF Request, Respond
  <2>2. BuiltAsAsked'
    BY <1>1, <2>1, Zenon DEF AssemblyInv, BuiltAsAsked, startVars, defaultStorage
  <2>3. ClosedInTurn'
    BY <1>1, <2>1, Zenon DEF AssemblyInv, ClosedInTurn, startVars
  <2> QED
    BY <1>1, <1>4, <2>2, <2>3, Zenon DEF AssemblyInv
<1> QED
  BY <1>5, <1>6, Zenon

(* Handshakes, edits and reloads leave what is built and bound alone. *)
LEMMA RunsOn ==
  ASSUME AssemblyInv, UNCHANGED <<pc, startVars, closeVars>>, CertsInv', TypeOK'
  PROVE  AssemblyInv'
<1>1. BuiltAsAsked'
  BY Zenon DEF AssemblyInv, BuiltAsAsked, startVars, closeVars, defaultStorage
<1>2. ClosedInTurn'
  BY Zenon DEF AssemblyInv, ClosedInTurn, startVars, closeVars
<1> QED
  BY <1>1, <1>2, Zenon DEF AssemblyInv

(* Handshakes, edits and reloads. *)
LEMMA MeanwhileKeeps ==
  ASSUME AssemblyInv,
         \/ Handshakes \/ EditFile
         \/ \E r \in Reloader : ReloadBegin(r) \/ ReloadRead(r) \/ ReloadStore(r) \/ ReloadReport(r)
  PROVE  AssemblyInv'
<1>1. UNCHANGED <<pc, startVars, closeVars>>
  BY Zenon DEF Handshakes, EditFile, ReloadBegin, ReloadRead, ReloadStore, ReloadReport
<1>2. CertsInv' /\ CertsTypeOK'
  <2>1. CASE Handshakes
    <3>1. CertsInv'
      BY <2>1, CertsNextInv, Zenon DEF Handshakes, AssemblyInv
    <3> QED
      BY <3>1, Zenon DEF CertsInv
  <2>2. CASE ~ Handshakes
    BY <2>2, CertsStand, Zenon
      DEF AssemblyInv, EditFile, ReloadBegin, ReloadRead, ReloadStore, ReloadReport
  <2> QED
    BY <2>1, <2>2, Zenon
<1>3. TypeOK'
  <2> USE <1>1, <1>2 DEF AssemblyInv, TypeOK, startVars, closeVars, reloadVars
  <2>1. CASE Handshakes
    BY <2>1, Zenon DEF Handshakes
  <2>2. CASE EditFile
    BY <2>2, AssemblyAssumption, Zenon DEF EditFile
  <2>3. ASSUME NEW r \in Reloader, ReloadBegin(r) PROVE TypeOK'
    BY <2>3, Zenon DEF ReloadBegin
  <2>4. ASSUME NEW r \in Reloader, ReloadRead(r) PROVE TypeOK'
    BY <2>4 DEF ReloadRead
  <2>5. ASSUME NEW r \in Reloader, ReloadStore(r) PROVE TypeOK'
    BY <2>5, Zenon DEF ReloadStore
  <2>6. ASSUME NEW r \in Reloader, ReloadReport(r) PROVE TypeOK'
    <3>1. NonReloadableChanges(old[r], stored) \subseteq Section
      BY Zenon DEF NonReloadableChanges, Section
    <3> QED
      BY <2>6, <3>1, Zenon DEF ReloadReport
  <2> QED
    BY <2>1, <2>2, <2>3, <2>4, <2>5, <2>6, Zenon
<1> QED
  BY <1>1, <1>2, <1>3, RunsOn, Zenon

(* The listeners are shut, and then everything is closed in turn. *)
LEMMA EndKeeps ==
  ASSUME AssemblyInv, runShutdown \/ stopServers \/ Close
  PROVE  AssemblyInv'
<1>1. CertsInv' /\ CertsTypeOK' /\ UNCHANGED <<file, startVars, handling, reloadVars>>
  BY CertsStand, Zenon DEF AssemblyInv, runShutdown, stopServers, Close, closeVars
<1>2. CASE runShutdown
  <2>1. pc = "run" /\ pc' = "stop" /\ UNCHANGED closeVars
    BY <1>2, Zenon DEF runShutdown
  <2>2. TypeOK'
    BY <1>1, <2>1, Zenon DEF AssemblyInv, TypeOK, startVars, closeVars, reloadVars
  <2>3. BuiltAsAsked'
    BY <1>1, <2>1, AskedStands, Zenon DEF Serving
  <2>4. ClosedInTurn'
    BY <1>1, <2>1, Zenon DEF AssemblyInv, ClosedInTurn, closeVars, Starting
  <2> QED
    BY <1>1, <2>2, <2>3, <2>4, Zenon DEF AssemblyInv
<1>3. CASE stopServers
  <2>1. /\ pc = "stop" /\ pc' \in {"stop", "close"} /\ closed' = closed
        /\ listening' \subseteq listening /\ cutOff' \in {cutOff, TRUE}
        /\ pc' = "close" => cutOff' \/ (handling = {} /\ listening' = {})
    <3>1. ASSUME {i \in DOMAIN Listener : Listener[i] \in listening} = {} PROVE listening = {}
      BY <3>1 DEF AssemblyInv, TypeOK, Range, Listener
    <3> QED
      BY <1>3, <3>1, Zenon DEF stopServers
  <2>2. TypeOK'
    BY <1>1, <2>1, Zenon DEF AssemblyInv, TypeOK, startVars, reloadVars
  <2>3. BuiltAsAsked'
    BY <1>1, <2>1, AskedStands, Zenon DEF Serving
  <2>4. closed = {}
    BY <2>1, Zenon DEF AssemblyInv, ClosedInTurn
  <2>5. ClosedInTurn'
    BY <1>1, <2>1, <2>4, Zenon DEF ClosedInTurn, Starting
  <2> QED
    BY <1>1, <2>2, <2>3, <2>5, Zenon DEF AssemblyInv
<1>4. CASE Close
  <2> DEFINE left == {i \in DOMAIN closeSteps : closeSteps[i] \in built \ closed}
  <2>1. /\ pc = "close" /\ pc' \in {"close", "exit"} /\ UNCHANGED <<listening, cutOff>>
        /\ \/ pc' = "close" /\ \E i \in left : IsFirst(i, left) /\ closed' = closed \cup {closeSteps[i]}
           \/ pc' = "exit" /\ left = {} /\ closed' = closed
    BY <1>4, Zenon DEF Close
  <2>2. TypeOK'
    BY <1>1, <2>1, Zenon DEF AssemblyInv, TypeOK, startVars, reloadVars
  <2>3. BuiltAsAsked'
    BY <1>1, <2>1, AskedStands, Zenon DEF Serving
  <2>4. ClosedInTurn'
    BY <1>1, <2>1 DEF AssemblyInv, ClosedInTurn, Starting, IsFirst, closeSteps, startVars
  <2> QED
    BY <1>1, <2>2, <2>3, <2>4, Zenon DEF AssemblyInv
<1> QED
  BY <1>2, <1>3, <1>4, Zenon

(* Every step. *)
LEMMA AssemblyNext == AssemblyInv /\ [Next]_vars => AssemblyInv'
<1> SUFFICES ASSUME AssemblyInv, [Next]_vars PROVE AssemblyInv'
  OBVIOUS
<1>1. CASE UNCHANGED vars
  <2>1. CertsInv' /\ CertsTypeOK'
    BY <1>1, CertsStand, Zenon DEF AssemblyInv, vars
  <2>2. TypeOK'
    BY <1>1, <2>1, Zenon DEF AssemblyInv, TypeOK, vars, startVars, closeVars, reloadVars
  <2> QED
    BY <1>1, <2>1, <2>2, RunsOn, Zenon DEF vars
<1> QED
  BY <1>1, LoadKeeps, StartKeeps, ServeKeeps, MeanwhileKeeps, EndKeeps, Zenon DEF Next

(* The inductive invariant holds at every moment. *)
LEMMA AssemblyAlways == Spec => []AssemblyInv
BY AssemblyInit, AssemblyNext, PTL DEF Spec

(***************************************************************************)
(* What is in use is not released, and all is released in the end: the     *)
(* order of closeSteps is kept and nothing is left behind, at whichever    *)
(* step and with whichever configuration newApp failed, and no request is  *)
(* handled by closed components unless it was cut off.                     *)
(***************************************************************************)
THEOREM AlwaysReleasedInOrder == Spec => []ReleasedInOrder
<1>1. AssemblyInv => ReleasedInOrder
  <2> SUFFICES ASSUME AssemblyInv PROVE ReleasedInOrder
    OBVIOUS
  <2>1. /\ DOMAIN closeSteps = 1 .. 5 /\ closeSteps[1] = "manager" /\ closeSteps[2] = "clickhouse"
        /\ closeSteps[3] = "fs" /\ closeSteps[4] = "metastore" /\ closeSteps[5] = "telemetry"
    BY DEF closeSteps
  <2>2. \A i, j \in 1 .. 5 : i < j /\ closeSteps[j] \in closed => closeSteps[i] \notin built \ closed
    BY <2>1, Zenon DEF AssemblyInv, ClosedInTurn
  <2>3. closed \cap {"clickhouse", "fs", "metastore"} # {} => "manager" \notin built \ closed
    BY <2>1, <2>2
  <2>4. "telemetry" \in closed => built \cap {"manager", "clickhouse", "fs", "metastore"} \subseteq closed
    <3> SUFFICES ASSUME "telemetry" \in closed
                 PROVE  built \cap {"manager", "clickhouse", "fs", "metastore"} \subseteq closed
      OBVIOUS
    <3>1. \A i \in 1 .. 4 : closeSteps[i] \notin built \ closed
      BY <2>1, <2>2
    <3> QED
      BY <2>1, <3>1
  <2>5. pc = "exit" => built \cap {"telemetry", "metastore", "fs", "clickhouse", "manager"} \subseteq closed
    <3> SUFFICES ASSUME pc = "exit"
                 PROVE  built \cap {"telemetry", "metastore", "fs", "clickhouse", "manager"} \subseteq closed
      OBVIOUS
    <3>1. \A i \in 1 .. 5 : closeSteps[i] \notin built \ closed
      BY <2>1, Zenon DEF AssemblyInv, ClosedInTurn
    <3> QED
      BY <2>1, <3>1
  <2>6. handling # {} /\ ~ cutOff => closed = {}
    BY Zenon DEF AssemblyInv, ClosedInTurn
  <2> QED
    BY <2>3, <2>4, <2>5, <2>6, Zenon DEF AssemblyInv, ReleasedInOrder
<1> QED
  BY <1>1, AssemblyAlways, PTL

(***************************************************************************)
(* A process that accepts requests runs the way its file says: with the    *)
(* authenticator, the certificates and the default backend it names, and   *)
(* with collection durations that are in order and do not overflow.        *)
(***************************************************************************)
THEOREM AlwaysServesAsConfigured == Spec => []ServesAsConfigured
<1>1. AssemblyInv => ServesAsConfigured
  BY DurationsInOrder, Zenon DEF AssemblyInv, BuiltAsAsked, ServesAsConfigured
<1> QED
  BY <1>1, AssemblyAlways, PTL

(* The handshakes of a listener are those of the reloader alone. *)
THEOREM AssemblyHasReloader == Spec => CertsSpec
<1>1. Init => CertsInit
  BY Zenon DEF Init
<1>2. [Next]_vars => [CertsNext]_certVars
  BY Zenon
    DEF Next, vars, Handshakes, LoadConfig, initTelemetry, buildMetaStore, registerStorage, buildManagers,
         buildAuthenticator, buildServers, loadTLSCerts, Builds, serveOne, Request, Respond, EditFile,
         ReloadBegin, ReloadRead, ReloadStore, ReloadReport, runShutdown, stopServers, Close
<1> QED
  BY <1>1, <1>2, PTL DEF Spec, CertsSpec

-----------------------------------------------------------------------------
(* Reloads.                                                                *)

(* No three calls of QueryManager.Reload are under way at once. *)
NoThirdReload == \A a, b, c \in Reloader : a = b \/ a = c \/ b = c

(* Before the first reload. *)
LEMMA DriftInit == Init => DriftInv
BY Zenon DEF Init, DriftInv

(* Steps of the process outside reloads. *)
LEMMA DriftStands ==
  ASSUME DriftInv, UNCHANGED reloadVars,
         cfg' = cfg, pc' \in Starting => pc \in Starting
  PROVE  DriftInv'
BY DEF DriftInv, reloadVars, Says

(* NonReloadableChanges names the sections that differ. *)
LEMMA ChangesAreNamed ==
  ASSUME NEW c, NEW d, NEW s \in Section, Says(c, s) # Says(d, s)
  PROVE  s \in NonReloadableChanges(c, d)
BY Zenon DEF Says, Section, NonReloadableChanges

(* The steps of a reload. *)
LEMMA ReloadKeeps ==
  ASSUME NoThirdReload, TypeOK, DriftInv, NEW r \in Reloader,
         ReloadBegin(r) \/ ReloadRead(r) \/ ReloadStore(r) \/ ReloadReport(r)
  PROVE  DriftInv'
<1> DEFINE drifted(s) == stored # cfg /\ Says(stored, s) # Says(cfg, s)
           reports(q, s) == rpc[q] = "report" /\ Says(old[q], s) = Says(cfg, s)
           behind(q, s) == rpc[q] \in {"read", "store"} /\ Says(old[q], s) # Says(cfg, s)
           Promise(s) == /\ drifted(s) => \E q \in Reloader : reports(q, s)
                         /\ \A p \in Reloader : behind(p, s) => drifted(s) /\ \E q \in Reloader : reports(q, s)
<1>1. /\ \A s \in Section \ reported : Promise(s)
      /\ UNCHANGED <<pc, cfg>> /\ pc \notin Starting /\ reported \subseteq reported'
      /\ rpc \in [Reloader -> {"idle", "read", "store", "report"}]
      /\ DOMAIN old = Reloader
  BY Zenon
    DEF DriftInv, ReloadBegin, ReloadRead, ReloadStore, ReloadReport, startVars, TypeOK, Starting
<1>2. ASSUME NEW s \in Section \ reported' PROVE Promise(s)'
  <2>1. Promise(s) /\ cfg' = cfg
    BY <1>1, Zenon
  <2>2. \A q \in Reloader \ {r} : rpc'[q] = rpc[q] /\ old'[q] = old[q]
    BY <1>1, Zenon DEF ReloadBegin, ReloadRead, ReloadStore, ReloadReport
  <2>3. CASE ReloadBegin(r)
    <3>1. rpc[r] = "idle" /\ rpc'[r] = "read" /\ old'[r] = stored /\ stored' = stored
      BY <1>1, <2>3, Zenon DEF ReloadBegin
    <3>2. behind(r, s)' => drifted(s)
      BY <2>1, <3>1, Zenon DEF Says
    <3>3. drifted(s)' <=> drifted(s)
      BY <2>1, <3>1, Zenon DEF Says
    <3>4. \A q \in Reloader : reports(q, s) => reports(q, s)'
      BY <2>1, <2>2, <3>1, Zenon DEF Says
    <3>5. \A q \in Reloader \ {r} : behind(q, s)' => behind(q, s)
      BY <2>1, <2>2, <3>1, Zenon DEF Says
    <3> QED
      BY <2>1, <3>2, <3>3, <3>4, <3>5, Zenon
  <2>4. CASE ReloadRead(r)
    <3>1. /\ rpc[r] = "read" /\ stored' = stored
          /\ rpc'[r] = "idle" \/ (rpc'[r] = "store" /\ old'[r] = old[r])
      BY <1>1, <2>4, Zenon DEF ReloadRead
    <3> QED
      BY <2>1, <2>2, <3>1, Zenon DEF Says
  <2>5. CASE ReloadStore(r)
    <3>1. rpc[r] = "store" /\ rpc'[r] = "report" /\ old'[r] = old[r]
      BY <1>1, <2>5, Zenon DEF ReloadStore
    <3>2. \E q \in Reloader : reports(q, s)'
      <4>1. CASE Says(old[r], s) = Says(cfg, s)
        BY <2>1, <3>1, <4>1, Zenon DEF Says
      <4>2. CASE Says(old[r], s) # Says(cfg, s)
        <5>1. PICK q \in Reloader : reports(q, s)
          BY <2>1, <3>1, <4>2, Zenon
        <5> QED
          BY <2>1, <2>2, <3>1, <5>1, Zenon DEF Says
      <4> QED
        BY <4>1, <4>2, Zenon
    <3>3. ASSUME NEW q \in Reloader, behind(q, s)' PROVE FALSE
      <4>1. q # r /\ behind(q, s)
        BY <2>1, <2>2, <3>1, <3>3, Zenon DEF Says
      <4>2. PICK p \in Reloader : reports(p, s)
        BY <2>1, <4>1, Zenon
      <4> QED
        BY <3>1, <4>1, <4>2, Zenon DEF NoThirdReload
    <3> QED
      BY <3>2, <3>3, Zenon
  <2>6. CASE ReloadReport(r)
    <3>1. /\ rpc[r] = "report" /\ rpc'[r] = "idle" /\ stored' = stored
          /\ reported' = reported \cup NonReloadableChanges(old[r], stored)
      BY <1>1, <2>6, Zenon DEF ReloadReport
    <3>2. Says(old[r], s) = Says(stored, s)
      BY <3>1, ChangesAreNamed, Zenon
    <3>3. drifted(s) => ~ reports(r, s)
      BY <3>2, Zenon
    <3> QED
      BY <2>1, <2>2, <3>1, <3>3, Zenon DEF Says
  <2> QED
    BY <2>3, <2>4, <2>5, <2>6, Zenon
<1> QED
  BY <1>1, <1>2, Zenon DEF DriftInv, Says

(* Every step. *)
LEMMA DriftNext == NoThirdReload /\ TypeOK /\ DriftInv /\ [Next]_vars => DriftInv'
<1> SUFFICES ASSUME NoThirdReload, TypeOK, DriftInv, [Next]_vars PROVE DriftInv'
  OBVIOUS
<1>1. CASE LoadConfig
  <2>1. pc = "load" /\ UNCHANGED <<rpc, old, reported>> /\ cfg' = stored'
    BY <1>1, Zenon DEF LoadConfig, DriftInv, Starting
  <2>2. \A r \in Reloader : rpc'[r] = "idle"
    BY <2>1, Zenon DEF DriftInv, Starting
  <2> QED
    BY <2>1, <2>2, Zenon DEF DriftInv
<1>2. CASE \E r \in Reloader : ReloadBegin(r) \/ ReloadRead(r) \/ ReloadStore(r) \/ ReloadReport(r)
  BY <1>2, ReloadKeeps, Zenon
<1>3. CASE \/ initTelemetry \/ buildMetaStore \/ registerStorage \/ buildManagers
           \/ buildAuthenticator \/ buildServers \/ loadTLSCerts
  BY <1>3, DriftStands, Zenon DEF initTelemetry, buildMetaStore, registerStorage, buildManagers,
         buildAuthenticator, buildServers, loadTLSCerts, Builds, Starting
<1>4. CASE \E l \in Range(Listener) : serveOne(l) \/ Request(l) \/ Respond(l)
  <2>1. PICK l \in {"rest", "grpc", "admin"} : serveOne(l) \/ Request(l) \/ Respond(l)
    BY <1>4 DEF Range, Listener
  <2> QED
    BY <2>1, DriftStands, Zenon DEF serveOne, Request, Respond, startVars, After, Starting
<1>5. CASE Handshakes \/ EditFile \/ runShutdown \/ stopServers \/ Close \/ UNCHANGED vars
  BY <1>5, DriftStands, Zenon
    DEF Handshakes, EditFile, runShutdown, stopServers, Close, vars, startVars, Starting
<1> QED
  BY <1>1, <1>2, <1>3, <1>4, <1>5, Zenon DEF Next

(***************************************************************************)
(* However two reloads and the edits of the file overlap, a section of the *)
(* stored configuration that the process does not run on was reported as   *)
(* ignored (QueryManager.Reload, NonReloadableChanges).                    *)
(***************************************************************************)
THEOREM DriftAlwaysReported ==
  ASSUME NoThirdReload
  PROVE  Spec => []DriftWasReported
<1>1. TypeOK /\ DriftInv => DriftWasReported
  <2> SUFFICES ASSUME DriftInv, \A r \in Reloader : rpc[r] = "idle",
                      NEW s \in Section, Says(cfg, s) # Says(stored, s)
               PROVE  s \in reported
    BY Zenon DEF DriftWasReported, Section, Says
  <2> QED
    BY Zenon DEF DriftInv, Says
<1>2. AssemblyInv => TypeOK
  BY Zenon DEF AssemblyInv
<1>3. AssemblyInv /\ DriftInv /\ [Next]_vars => DriftInv'
  BY <1>2, DriftNext, Zenon
<1> QED
  BY <1>1, <1>2, <1>3, DriftInit, AssemblyAlways, PTL DEF Spec

-----------------------------------------------------------------------------
(* The drain.                                                              *)

(* The state a server starts in. *)
LEMMA DrainInitIInv == DrainInit => IInv
<1> SUFFICES ASSUME DrainInit PROVE IInv
  OBVIOUS
<1>1. DrainTypeOK
  BY Zenon DEF DrainInit, DrainTypeOK, Lifecycle, Registered
<1>2. RegistryExact /\ AdmissionClosed /\ LoopCounts /\ QuiescedStaysQuiet
  BY DEF DrainInit, RegistryExact, AdmissionClosed, LoopCounts, QuiescedStaysQuiet, Registered, Caller
<1>3. \A c \in Caller : CountSound(c)
  BY DEF DrainInit, CountSound
<1> QED
  BY <1>1, <1>2, <1>3 DEF IInv

(* A count of zero is an empty set. *)
LEMMA ZeroIsEmpty == \A S \in SUBSET Query : Cardinality(S) \in Nat /\ (Cardinality(S) = 0 => S = {})
BY QueriesFinite, FS_Subset, FS_CardinalityType, FS_EmptySet

(***************************************************************************)
(* The gate: once draining is set and the registry is empty, both stay so, *)
(* and an empty index stays empty, whatever step is taken.                 *)
(***************************************************************************)
LEMMA QuietStays ==
  ASSUME IInv, draining, activeReg = {}, [DrainNext]_drainVars
  PROVE  draining' /\ activeReg' = {} /\ (index = {} => index' = {})
<1>0. \A q \in Query : stage[q] \notin Registered
  BY DEF IInv, RegistryExact
<1>1. CASE UNCHANGED drainVars
  BY <1>1 DEF drainVars, queryVars
<1>2. ASSUME NEW q \in Query, QueryStep(q) PROVE draining' /\ activeReg' = {} /\ (index = {} => index' = {})
  BY <1>0, <1>2, Zenon
  DEF QueryStep, StartQuery, Admit, PersistPending, Complete, Deregister, ReapOrphan, Registered
<1>3. ASSUME NEW c \in Caller, CountLocal(c) \/ CountStore(c)
      PROVE  UNCHANGED <<draining, activeReg, index>>
  BY <1>3, Zenon DEF CountLocal, CountStore, queryVars
<1>4. ASSUME NEW p \in Probe, CanIBeStopped(p)
      PROVE  UNCHANGED <<draining, activeReg, index>>
  BY <1>4 DEF CanIBeStopped, queryVars
<1>5. CASE Shutdown
  BY <1>5, Zenon
  DEF Shutdown, Signal, CloseAdmission, DeadlinePasses, DrainTurn, StopServers, CancelActive, Exit,
      queryVars
<1> QED
  BY <1>1, <1>2, <1>3, <1>4, <1>5, Zenon DEF DrainNext

(* A step that leaves a caller's count alone keeps what the count says. *)
LEMMA CountKept ==
  ASSUME IInv, [DrainNext]_drainVars, NEW c \in Caller,
         UNCHANGED <<since[c], inFlight[c], storeOK[c]>>,
         step'[c] # "idle" => step[c] # "idle"
  PROVE  CountSound(c)'
<1>1. draining => draining'
  BY Zenon DEF DrainNext, QueryStep, StartQuery, Admit, PersistPending, Complete, Deregister, ReapOrphan,
         CountLocal, CountStore, CanIBeStopped, Shutdown, Signal, CloseAdmission, DeadlinePasses,
         DrainTurn, StopServers, CancelActive, Exit, drainVars
<1>2. CountSound(c)
  BY DEF IInv
<1> QED
  BY <1>1, <1>2, QuietStays DEF CountSound

(* The steps of the queries preserve the invariant. *)
LEMMA QueryIInv ==
  ASSUME IInv, NEW q \in Query, QueryStep(q)
  PROVE  IInv'
<1>0. DrainTypeOK /\ RegistryExact /\ AdmissionClosed /\ LoopCounts /\ [DrainNext]_drainVars
  BY DEF IInv, DrainNext
<1>1. UNCHANGED <<lifecycle, draining, countVars, termVars>>
  BY DEF QueryStep, StartQuery, Admit, PersistPending, Complete, Deregister, ReapOrphan
<1>2. DrainTypeOK'
  BY <1>0, <1>1
  DEF QueryStep, StartQuery, Admit, PersistPending, Complete, Deregister, ReapOrphan, Goto, DrainTypeOK,
      Registered, countVars, termVars
<1>3. RegistryExact'
  BY <1>0
  DEF QueryStep, StartQuery, Admit, PersistPending, Complete, Deregister, ReapOrphan, Goto, DrainTypeOK,
      Registered, RegistryExact
<1>4. AdmissionClosed' /\ LoopCounts'
  BY <1>0, <1>1 DEF AdmissionClosed, LoopCounts, countVars, termVars
<1>5. \A c \in Caller : CountSound(c)'
  BY <1>0, <1>1, CountKept DEF countVars
<1>6. QuiescedStaysQuiet'
  <2> SUFFICES ASSUME outcome = "quiesced"
               PROVE  activeReg' = {} /\ (storeOK[Loop] => index' = {}) /\ canceled = {}
    BY <1>1 DEF QuiescedStaysQuiet, countVars, termVars
  <2>1. draining /\ activeReg = {} /\ (storeOK[Loop] => index = {}) /\ canceled = {}
    BY <1>0 DEF IInv, QuiescedStaysQuiet, AdmissionClosed, LoopCounts
  <2> QED
    BY <1>0, <2>1, QuietStays
<1> QED
  BY <1>2, <1>3, <1>4, <1>5, <1>6 DEF IInv

(* CountLocal, CountStore and the answer of a probe. *)
LEMMA CountIInv ==
  ASSUME IInv, NEW c \in Caller,
         CountLocal(c) \/ CountStore(c) \/ (c \in Probe /\ CanIBeStopped(c))
  PROVE  IInv'
<1>0. /\ DrainTypeOK /\ RegistryExact /\ AdmissionClosed /\ LoopCounts /\ QuiescedStaysQuiet
      /\ CountSound(c) /\ Loop \in Caller
  BY DEF IInv, Caller
<1>1. UNCHANGED <<draining, queryVars, termVars>> /\ [DrainNext]_drainVars
  BY DEF CountLocal, CountStore, CanIBeStopped, DrainNext
<1>2. /\ Cardinality(activeReg) \in Nat /\ (Cardinality(activeReg) = 0 => activeReg = {})
      /\ Cardinality(index) \in Nat /\ (Cardinality(index) = 0 => index = {})
  BY <1>0, ZeroIsEmpty DEF DrainTypeOK
<1>3. /\ step' \in [Caller -> {"idle", "local", "total", "answered"}]
      /\ inFlight' \in [Caller -> Nat]
      /\ storeOK' \in [Caller -> BOOLEAN]
      /\ since' \in [Caller -> BOOLEAN]
  <2>1. CASE CountLocal(c)
    BY <1>0, <1>2, <2>1 DEF CountLocal, DrainTypeOK
  <2>2. CASE CountStore(c)
    <3>1. larger(inFlight[c], Cardinality(index)) \in Nat
      BY <1>0, <1>2 DEF larger, DrainTypeOK
    <3> QED
      BY <1>0, <2>2, <3>1, ZenonT(20) DEF CountStore, DrainTypeOK
  <2>3. CASE CanIBeStopped(c)
    BY <1>0, <2>3 DEF CanIBeStopped, DrainTypeOK
  <2> QED
    BY <2>1, <2>2, <2>3
<1>4. lifecycle' \in Lifecycle
  BY <1>0 DEF CountLocal, CountStore, CanIBeStopped, Advance, DrainTypeOK, Lifecycle
<1>5. DrainTypeOK' /\ RegistryExact' /\ AdmissionClosed'
  BY <1>0, <1>1, <1>3, <1>4 DEF DrainTypeOK, RegistryExact, AdmissionClosed, queryVars, termVars
<1>6. ASSUME NEW d \in Caller PROVE CountSound(d)'
  <2>1. CASE d # c \/ CanIBeStopped(c)
    <3>1. UNCHANGED <<since[d], inFlight[d], storeOK[d]>> /\ (step'[d] # "idle" => step[d] # "idle")
      BY <1>0, <2>1, LoopIsNoProbe DEF CountLocal, CountStore, CanIBeStopped, DrainTypeOK
    <3> QED
      BY <1>1, <3>1, CountKept
  <2>2. CASE d = c /\ CountLocal(c)
    BY <1>0, <1>1, <1>2, <2>2 DEF CountLocal, CountSound, DrainTypeOK, queryVars
  <2>3. CASE d = c /\ CountStore(c)
    BY <1>0, <1>1, <1>2, <2>3 DEF CountStore, CountSound, DrainTypeOK, larger, queryVars
  <2> QED
    BY <2>1, <2>2, <2>3
<1>7. LoopCounts'
  <2>1. step'[Loop] # "idle" => since'[Loop] /\ term = "polling"
    <3>1. CASE c # Loop
      BY <1>0, <3>1 DEF CountLocal, CountStore, CanIBeStopped, LoopCounts, DrainTypeOK
    <3>2. CASE c = Loop /\ CountLocal(Loop)
      BY <1>0, <3>2 DEF CountLocal, AdmissionClosed, DrainTypeOK
    <3>3. CASE c = Loop /\ CountStore(Loop)
      BY <1>0, <3>3 DEF CountStore, LoopCounts, DrainTypeOK
    <3> QED
      BY <3>1, <3>2, <3>3, LoopIsNoProbe
  <2> QED
    BY <1>0, <1>1, <2>1 DEF LoopCounts, termVars
<1>8. QuiescedStaysQuiet'
  <2>1. outcome = "quiesced" => storeOK'[Loop] = storeOK[Loop]
    BY <1>0, LoopIsNoProbe DEF CountLocal, CountStore, CanIBeStopped, LoopCounts, DrainTypeOK
  <2> QED
    BY <1>0, <1>1, <2>1 DEF QuiescedStaysQuiet, queryVars, termVars
<1> QED
  BY <1>5, <1>6, <1>7, <1>8 DEF IInv

(* The steps of the shutdown preserve the invariant. *)
LEMMA ShutdownIInv ==
  ASSUME IInv, Shutdown
  PROVE  IInv'
<1>0. /\ DrainTypeOK /\ RegistryExact /\ AdmissionClosed /\ LoopCounts /\ QuiescedStaysQuiet
      /\ CountSound(Loop) /\ Loop \in Caller /\ [DrainNext]_drainVars
  BY DEF IInv, Caller, DrainNext
<1>1. UNCHANGED <<queryVars, inFlight, storeOK, since>>
  BY DEF Shutdown, Signal, CloseAdmission, DeadlinePasses, DrainTurn, StopServers, CancelActive,
         Exit, countVars
<1>2. DrainTypeOK'
  <2>1. CASE DrainTurn
    <3>1. lifecycle' \in Lifecycle
      BY <1>0, <2>1 DEF DrainTurn, Advance, DrainTypeOK, Lifecycle
    <3> QED
      BY <1>0, <1>1, <2>1, <3>1 DEF DrainTurn, DrainTypeOK, queryVars
  <2>2. CASE ~DrainTurn
    BY <1>0, <1>1, <2>2, Zenon
    DEF Shutdown, Signal, CloseAdmission, DeadlinePasses, StopServers, CancelActive, Exit,
        DrainTypeOK, Lifecycle, queryVars, countVars
  <2> QED
    BY <2>1, <2>2
<1>3. RegistryExact' /\ AdmissionClosed'
  BY <1>0, <1>1
  DEF Shutdown, Signal, CloseAdmission, DeadlinePasses, DrainTurn, StopServers, CancelActive, Exit,
      RegistryExact, AdmissionClosed, LoopCounts, queryVars
<1>4. ASSUME NEW c \in Caller PROVE CountSound(c)'
  <2>1. step'[c] # "idle" => step[c] # "idle"
    BY <1>0
    DEF Shutdown, Signal, CloseAdmission, DeadlinePasses, DrainTurn, StopServers, CancelActive, Exit,
        DrainTypeOK, countVars
  <2> QED
    BY <1>0, <1>1, <2>1, CountKept
<1>5. LoopCounts'
  BY <1>0, <1>1
  DEF Shutdown, Signal, CloseAdmission, DeadlinePasses, DrainTurn, StopServers, CancelActive, Exit,
      LoopCounts, DrainTypeOK, countVars
<1>6. QuiescedStaysQuiet'
  <2>1. CASE DrainTurn
    BY <1>0, <1>1, <2>1 DEF DrainTurn, QuiescedStaysQuiet, CountSound, LoopCounts, queryVars, DrainTypeOK
  <2>2. CASE ~DrainTurn
    BY <1>0, <1>1, <2>2
    DEF Shutdown, Signal, CloseAdmission, DeadlinePasses, StopServers, CancelActive, Exit,
        QuiescedStaysQuiet, queryVars
  <2> QED
    BY <2>1, <2>2
<1> QED
  BY <1>2, <1>3, <1>4, <1>5, <1>6 DEF IInv

(* Every step preserves the invariant. *)
LEMMA DrainNextIInv ==
  ASSUME IInv, [DrainNext]_drainVars
  PROVE  IInv'
<1>1. CASE UNCHANGED drainVars
  BY <1>1
  DEF IInv, DrainTypeOK, RegistryExact, AdmissionClosed, CountSound, LoopCounts, QuiescedStaysQuiet,
      drainVars, queryVars, countVars, termVars
<1> QED
  BY <1>1, QueryIInv, CountIInv, ShutdownIInv DEF DrainNext, Caller

-----------------------------------------------------------------------------
(* A zero the drain loop sees after Drain() is a zero for good: the        *)
(* registry stays empty and Close cancels nothing.                         *)
THEOREM QuiescedIsQuiet == DrainSpec => []QuiescedStaysQuiet
<1>1. DrainInit => IInv
  BY DrainInitIInv
<1>2. IInv /\ [DrainNext]_drainVars => IInv'
  BY DrainNextIInv
<1>3. IInv => QuiescedStaysQuiet
  BY DEF IInv
<1> QED
  BY <1>1, <1>2, <1>3, PTL DEF DrainSpec

(* I5 for every can-stop answer whose count began after Drain(). *)
THEOREM StopAnswersSound == DrainSpec => []StopAnswerIsSound
<1>1. DrainInit => IInv
  BY DrainInitIInv
<1>2. IInv /\ [DrainNext]_drainVars => IInv'
  BY DrainNextIInv
<1>3. IInv => StopAnswerIsSound
  BY DEF IInv, StopAnswerIsSound, CountSound, Caller
<1> QED
  BY <1>1, <1>2, <1>3, PTL DEF DrainSpec

(* Every variable of the drain keeps its type; a count is never negative. *)
THEOREM TypeCorrect == DrainSpec => []DrainTypeOK
<1>1. DrainInit => IInv
  BY DrainInitIInv
<1>2. IInv /\ [DrainNext]_drainVars => IInv'
  BY DrainNextIInv
<1>3. IInv => DrainTypeOK
  BY DEF IInv
<1> QED
  BY <1>1, <1>2, <1>3, PTL DEF DrainSpec
=============================================================================
