---------------------------- MODULE Pools_proofs ----------------------------
(* Theorems about the database pools, for every set of databases, settings, *)
(* callers of Reload and queries, and any number of pools.                  *)
EXTENDS Pools, FunctionTheorems, FiniteSetTheorems, TLAPS

(* The databases of one opening are numbered without gaps and repetitions. *)
LEMMA NumberingIsExact ==
  ASSUME NEW ds \in SUBSET DB, opened \in Nat, NEW f \in Numbering(ds)
  PROVE  /\ Cardinality(ds) \in Nat
         /\ f \in [ds -> opened + 1 .. opened + Cardinality(ds)]
         /\ \A d, e \in ds : f[d] = f[e] => d = e
         /\ Range(f) = opened + 1 .. opened + Cardinality(ds)
<1> DEFINE n == Cardinality(ds)
           T == opened + 1 .. opened + n
<1>1. IsFiniteSet(ds) /\ n \in Nat
  BY DatabasesFinite, FS_Subset, FS_CardinalityType, Zenon
<1>2. f \in [ds -> T] /\ \A d, e \in ds : f[d] = f[e] => d = e
  BY Zenon DEF Numbering, IsInjective
<1>3. f \in Injection(ds, T)
  BY <1>2, Fun_IsInj, Zenon
<1>4. IsFiniteSet(T) /\ Cardinality(T) = n
  <2>1. opened + 1 \in Int /\ opened + n \in Int
    BY <1>1
  <2>2. IsFiniteSet(T) /\ Cardinality(T) = IF opened + 1 > opened + n THEN 0 ELSE (opened + n) - (opened + 1) + 1
    BY <2>1, FS_Interval, Zenon
  <2> QED
    BY <1>1, <2>2
<1>5. f \in Surjection(ds, T)
  BY <1>3, <1>4, FS_Injection, Zenon
<1>6. Range(f) = T
  BY <1>5, Fun_SurjectionProperties
<1> QED
  BY <1>1, <1>2, <1>6, Zenon

-----------------------------------------------------------------------------
(* One database is configured and has its pool at the start. *)
LEMMA InitIInv == Init => IInv
<1> SUFFICES ASSUME Init PROVE IInv
  OBVIOUS
<1>1. PICK d \in Opens(cfg) :
        /\ pool = [p \in Pool |-> IF p = 1 THEN [db |-> d, set |-> cfg[d], state |-> "open"] ELSE NoPool]
        /\ dbPools = [e \in DB |-> IF e = d THEN 1 ELSE None]
  BY Zenon DEF Init
<1>2. /\ d \in DB /\ cfg \in Config /\ cfg[d] \in Setting
      /\ \A e \in DB : cfg[e] # Absent => e = d
  <2>1. cfg \in Config /\ Opens(cfg) \subseteq DB /\ Cardinality(Opens(cfg)) = 1
    BY Zenon DEF Init, Opens
  <2>2. PICK x : Opens(cfg) = {x}
    BY <2>1, DatabasesFinite, FS_Subset, FS_Singleton, Zenon
  <2> QED
    BY <1>1, <2>1, <2>2, Zenon DEF Opens, Config
<1>3. 1 \in Pool /\ opened = 1 /\ None \notin Pool
  BY PoolBound, NoneIsNoPool DEF Init, Pool
<1>4. TypeOK
  <2>1. dbPools \in [DB -> Pool \cup {None}]
    BY <1>1, <1>3, Zenon
  <2>2. pool \in [Pool -> [db : DB \cup {Absent}, set : Setting \cup {Absent},
                          state : {"unused", "open", "retired", "closed", "forced"}]]
    BY <1>1, <1>2, <1>3, Zenon DEF NoPool
  <2>3. \A p \in Pool : pool[p].state = "unused" <=> p > opened
    BY <1>1, <1>3, PoolBound DEF NoPool, Pool
  <2>4. opened \in 0 .. MaxPools
    BY <1>3, PoolBound
  <2>5. want \in [Caller -> Config]
    BY Zenon DEF Init, Empty, Config
  <2> QED
    BY <1>2, <1>3, <2>1, <2>2, <2>3, <2>4, <2>5, Zenon DEF Init, TypeOK
<1>5. PoolsAccounted /\ MappedIsUsable
  BY <1>1, <1>2, <1>3, <1>4 DEF Init, PoolsAccounted, MappedIsUsable, NoPool
<1>6. OneSync /\ SyncIsCurrent /\ ActiveKeepsPool
  BY Zenon DEF Init, OneSync, SyncIsCurrent, ActiveKeepsPool
<1>7. ServesConfig
  BY <1>1, <1>2, <1>3, AbsentIsNoSetting, Zenon DEF ServesConfig
<1> QED
  BY <1>5, <1>6, <1>7, Zenon DEF IInv

(* The steps of Reload before the pools are synced. *)
LEMMA ReloadIInv ==
  ASSUME IInv, NEW c \in Caller, ReadFile(c) \/ SwapConfig(c) \/ SyncBegin(c)
  PROVE  IInv'
<1> USE DEF IInv, TypeOK, PoolsAccounted, MappedIsUsable, OneSync, SyncIsCurrent, ActiveKeepsPool,
    ServesConfig, poolVars, queryVars, reloadVars
<1>0. Empty \in Config
  BY Zenon DEF Empty, Config
<1>1. CASE ReadFile(c)
  BY <1>1 DEF ReadFile
<1>2. CASE SwapConfig(c)
  BY <1>0, <1>2 DEF SwapConfig
<1>3. CASE SyncBegin(c)
  BY <1>3 DEF SyncBegin, Syncing
<1> QED
  BY <1>1, <1>2, <1>3, Zenon

(* The steps of a submission and its run. *)
LEMMA QueryIInv ==
  ASSUME IInv, NEW q \in Query,
         Ping(q) \/ Admit(q) \/ EndRun(q) \/ \E d \in DB : LookupPool(q, d)
  PROVE  IInv'
<1> USE NoneIsNoPool DEF IInv, TypeOK, PoolsAccounted, MappedIsUsable, OneSync, SyncIsCurrent, ActiveKeepsPool,
    ServesConfig, poolVars, reloadVars
<1>1. CASE Ping(q)
  BY <1>1, SMTT(20) DEF Ping
<1>2. CASE Admit(q)
  <2>1. qpool[q] \in Range(dbPools) => \E d \in DB : dbPools[d] = qpool[q]
    BY DEF Range
  <2> QED
    BY <1>2, <2>1, SMTT(20) DEF Admit
<1>3. CASE EndRun(q)
  BY <1>3, SMTT(20) DEF EndRun
<1>4. ASSUME NEW d \in DB, LookupPool(q, d) PROVE IInv'
  BY <1>4, SMTT(20) DEF LookupPool
<1> QED
  BY <1>1, <1>2, <1>3, <1>4, Zenon
(* The closers and Close. *)
LEMMA CloseIInv ==
  ASSUME IInv, CloseCancels \/ CloseEnds \/ \E p \in Pool : CloseWhenIdle(p) \/ CloseAnyway(p)
  PROVE  IInv'
<1> USE NoneIsNoPool DEF IInv, TypeOK, PoolsAccounted, MappedIsUsable, OneSync, SyncIsCurrent,
    ActiveKeepsPool, ServesConfig, poolVars, reloadVars, queryVars
<1>1. CASE CloseCancels
  BY <1>1, SMTT(20) DEF CloseCancels
<1>2. CASE CloseEnds
  <2>1. \A p \in Pool : p \in Range(dbPools) <=> \E d \in DB : dbPools[d] = p
    BY DEF Range
  <2> QED
    BY <1>2, <2>1 DEF CloseEnds
<1>3. ASSUME NEW p \in Pool, CloseWhenIdle(p) PROVE IInv'
  BY <1>3 DEF CloseWhenIdle, activeForDB
<1>4. ASSUME NEW p \in Pool, CloseAnyway(p) PROVE IInv'
  BY <1>4 DEF CloseAnyway
<1> QED
  BY <1>1, <1>2, <1>3, <1>4, Zenon

-----------------------------------------------------------------------------
(* What one run of syncPools does to the map and to each pool. *)
SyncedTo(c, bad) ==
  LET ds == ToOpen(want[c]) \ bad IN
  /\ failed' = (failed \ {d \in DB : want[c][d] # Absent}) \cup bad
  /\ opened' \in opened .. MaxPools
  /\ \A d \in ds :
       /\ dbPools'[d] \in opened + 1 .. opened'
       /\ pool'[dbPools'[d]] = [db |-> d, set |-> want[c][d], state |-> "open"]
  /\ \A d \in DB \ ds :
       IF want[c][d] = Absent THEN dbPools'[d] = None
       ELSE /\ dbPools'[d] = dbPools[d]
            /\ dbPools[d] # None => pool'[dbPools[d]] = pool[dbPools[d]]
  /\ \A p \in opened + 1 .. opened' : \E d \in ds : dbPools'[d] = p
  /\ \A p \in Pool \ (opened + 1 .. opened') :
       IF p \in Retired(want[c], bad)
       THEN pool'[p] = [pool[p] EXCEPT !.set = Absent, !.state = "retired"]
       ELSE pool'[p] = pool[p]
  /\ dbPools' \in [DB -> Pool \cup {None}]
  /\ DOMAIN pool' = Pool

(* What a sync leaves behind. *)
LEMMA SyncEffect ==
  ASSUME IInv, NEW c \in Caller, SyncPools(c)
  PROVE  \E bad \in SUBSET ToOpen(want[c]) : SyncedTo(c, bad)
<1> DEFINE W == want[c]
<1>1. PICK bad \in SUBSET ToOpen(W) :
        LET ds == ToOpen(W) \ bad
            retired == Retired(W, bad) IN
        /\ opened + Cardinality(ds) <= MaxPools
        /\ opened' = opened + Cardinality(ds)
        /\ failed' = (failed \ {d \in DB : W[d] # Absent}) \cup bad
        /\ \E f \in Numbering(ds) :
             /\ dbPools' = NextPools(W, bad, f)
             /\ pool' = [p \in Pool |->
                  IF p \in Range(f)
                  THEN LET d == CHOOSE e \in ds : f[e] = p IN [db |-> d, set |-> W[d], state |-> "open"]
                  ELSE IF p \in retired THEN [pool[p] EXCEPT !.set = Absent, !.state = "retired"] ELSE pool[p]]
  BY Zenon DEF SyncPools
<1> DEFINE ds == ToOpen(W) \ bad
           retired == Retired(W, bad)
<1>2. PICK f \in Numbering(ds) :
        /\ dbPools' = NextPools(W, bad, f)
        /\ pool' = [p \in Pool |->
             IF p \in Range(f)
             THEN LET d == CHOOSE e \in ds : f[e] = p IN [db |-> d, set |-> W[d], state |-> "open"]
             ELSE IF p \in retired THEN [pool[p] EXCEPT !.set = Absent, !.state = "retired"] ELSE pool[p]]
  BY <1>1, Zenon
<1>3. /\ ds \in SUBSET DB /\ opened \in Nat /\ MaxPools \in Nat
      /\ dbPools \in [DB -> Pool \cup {None}] /\ None \notin Pool
  BY PoolBound, NoneIsNoPool DEF ToOpen, IInv, PoolsAccounted, TypeOK
<1> HIDE DEF ds
<1>4. /\ Cardinality(ds) \in Nat
      /\ f \in [ds -> opened + 1 .. opened + Cardinality(ds)]
      /\ \A d, e \in ds : f[d] = f[e] => d = e
      /\ Range(f) = opened + 1 .. opened + Cardinality(ds)
  BY <1>2, <1>3, NumberingIsExact, Zenon
<1>5. /\ opened' = opened + Cardinality(ds) /\ opened' <= MaxPools
      /\ failed' = (failed \ {d \in DB : W[d] # Absent}) \cup bad
  BY <1>1, Zenon DEF ds
<1>6. Range(f) = opened + 1 .. opened' /\ Range(f) \subseteq Pool /\ opened' \in opened .. MaxPools
  BY <1>3, <1>4, <1>5 DEF Pool
<1>7. \A d \in ds : dbPools'[d] = f[d] /\ f[d] \in Range(f)
  BY <1>2, <1>3, <1>4, Zenon DEF NextPools, Range
<1>8. \A d \in ds : pool'[f[d]] = [db |-> d, set |-> W[d], state |-> "open"]
  <2> SUFFICES ASSUME NEW d \in ds PROVE pool'[f[d]] = [db |-> d, set |-> W[d], state |-> "open"]
    OBVIOUS
  <2>1. (CHOOSE e \in ds : f[e] = f[d]) = d
    BY <1>4, Zenon
  <2> QED
    BY <1>2, <1>6, <1>7, <2>1, Zenon
<1>9. \A d \in DB \ ds : dbPools'[d] = IF W[d] = Absent THEN None ELSE dbPools[d]
  BY <1>2, <1>4, Zenon DEF NextPools
<1>10. ASSUME NEW d \in DB \ ds, W[d] # Absent, dbPools[d] # None
       PROVE  pool'[dbPools[d]] = pool[dbPools[d]]
  <2>1. dbPools[d] \in Pool /\ dbPools[d] <= opened
    BY <1>3, <1>10, Zenon DEF IInv, MappedIsUsable
  <2>2. dbPools[d] \notin Range(f)
    BY <1>3, <1>6, <2>1 DEF Pool
  <2>3. dbPools[d] \notin retired
    BY <1>10 DEF Retired, ds, IInv, PoolsAccounted
  <2> QED
    BY <1>2, <2>1, <2>2, <2>3, Zenon
<1>11. \A p \in opened + 1 .. opened' : \E d \in ds : dbPools'[d] = p
  BY <1>4, <1>6, <1>7, Zenon DEF Range
<1>12. \A p \in Pool \ (opened + 1 .. opened') :
         IF p \in retired THEN pool'[p] = [pool[p] EXCEPT !.set = Absent, !.state = "retired"]
         ELSE pool'[p] = pool[p]
  BY <1>2, <1>6, Zenon
<1>13. dbPools' \in [DB -> Pool \cup {None}] /\ DOMAIN pool' = Pool
  <2>1. \A d \in DB : dbPools'[d] \in Pool \cup {None}
    BY <1>3, <1>6, <1>7, <1>9, Zenon
  <2> QED
    BY <1>2, <2>1, Zenon DEF NextPools
<1> QED
  BY <1>1, <1>5, <1>6, <1>7, <1>8, <1>9, <1>10, <1>11, <1>12, <1>13, ZenonT(20) DEF ds, SyncedTo
(* syncPools leaves every pool accounted for, and serves what it read. *)
LEMMA SyncIInv ==
  ASSUME IInv, NEW c \in Caller, SyncPools(c)
  PROVE  IInv'
<1> DEFINE W == want[c]
           PoolType == [db : DB \cup {Absent}, set : Setting \cup {Absent},
                        state : {"unused", "open", "retired", "closed", "forced"}]
<1>1. PICK bad \in SUBSET ToOpen(W) : SyncedTo(c, bad)
  BY SyncEffect, Zenon
<1> DEFINE ds == ToOpen(W) \ bad
           fresh == opened + 1 .. opened'
           retired == Retired(W, bad)
<1>2. /\ TypeOK /\ PoolsAccounted /\ MappedIsUsable /\ W \in Config
      /\ rpc' = [rpc EXCEPT ![c] = "idle"] /\ want' = [want EXCEPT ![c] = Empty]
      /\ UNCHANGED <<cfg, qpc, qpool, late, phase>> /\ rpc[c] = "syncing" /\ phase # "closed"
  BY Zenon DEF IInv, PoolsAccounted, TypeOK, SyncPools, queryVars
<1>3. /\ failed' = (failed \ {d \in DB : W[d] # Absent}) \cup bad
      /\ dbPools' \in [DB -> Pool \cup {None}] /\ DOMAIN pool' = Pool
  BY <1>1, Zenon DEF SyncedTo
<1>4. /\ opened \in Nat /\ opened' \in 0 .. MaxPools /\ opened <= opened'
      /\ fresh \subseteq Pool /\ None \notin Pool
      /\ \A p \in Pool : p \in Nat /\ (p \in fresh <=> p > opened /\ p <= opened')
  <2>1. opened' \in opened .. MaxPools /\ opened \in 0 .. MaxPools
    BY <1>1, <1>2, Zenon DEF SyncedTo, TypeOK
  <2> QED
    BY <2>1, PoolBound, NoneIsNoPool DEF Pool
<1>5. \A d \in ds : d \in DB /\ W[d] \in Setting
  BY <1>2, Zenon DEF ToOpen, Config
<1>6. ASSUME NEW d \in ds
      PROVE  /\ dbPools'[d] \in fresh /\ pool'[dbPools'[d]] \in PoolType
             /\ pool'[dbPools'[d]].db = d /\ pool'[dbPools'[d]].set = W[d] /\ pool'[dbPools'[d]].state = "open"
  <2>1. dbPools'[d] \in fresh /\ pool'[dbPools'[d]] = [db |-> d, set |-> W[d], state |-> "open"]
    BY <1>1, Zenon DEF SyncedTo
  <2> QED
    BY <1>5, <2>1
<1>7. \A d \in DB \ ds :
        /\ W[d] = Absent => dbPools'[d] = None
        /\ W[d] # Absent => /\ dbPools'[d] = dbPools[d]
                            /\ dbPools[d] # None => pool'[dbPools[d]] = pool[dbPools[d]]
  BY <1>1, Zenon DEF SyncedTo
<1>8. \A p \in fresh : \E d \in ds : dbPools'[d] = p
  BY <1>1, Zenon DEF SyncedTo
<1>9. \A p \in Pool \ fresh :
        IF p \in retired THEN pool'[p] = [pool[p] EXCEPT !.set = Absent, !.state = "retired"]
        ELSE pool'[p] = pool[p]
  BY <1>1, Zenon DEF SyncedTo
<1>10. \A d \in DB \ ds : W[d] # Absent /\ d \notin bad => dbPools[d] # None /\ pool[dbPools[d]].set = W[d]
  <2> SUFFICES ASSUME NEW d \in DB \ ds, W[d] # Absent, d \notin bad
               PROVE  dbPools[d] # None /\ pool[dbPools[d]].set = W[d]
    OBVIOUS
  <2>1. dbPools[d] # None /\ samePoolConfig(pool[dbPools[d]].set, W[d])
    BY Zenon DEF ToOpen
  <2>2. pool[dbPools[d]].set \in Setting /\ W[d] \in Setting
    BY <1>2, <2>1, Zenon DEF MappedIsUsable, Config
  <2> QED
    BY <2>1, <2>2, SettingsArePairs, Zenon DEF samePoolConfig
<1>11. /\ bad \subseteq DB /\ retired \subseteq Pool
       /\ \A p \in retired : p <= opened
       /\ \A d \in DB : dbPools[d] # None /\ (W[d] = Absent \/ d \in ds) => dbPools[d] \in retired
  <2>1. bad \subseteq DB
    BY <1>1, Zenon DEF ToOpen
  <2> QED
    BY <1>2, <2>1 DEF Retired, MappedIsUsable, TypeOK
<1> HIDE DEF ds, fresh, retired, W
<1>12. \A p \in fresh : /\ pool'[p] \in PoolType /\ pool'[p].state = "open"
                       /\ pool'[p].db \in DB /\ dbPools'[pool'[p].db] = p
  BY <1>5, <1>6, <1>8
<1>13. ASSUME NEW p \in Pool \ fresh
       PROVE  /\ pool'[p] \in PoolType
              /\ p \in retired => pool'[p].state = "retired"
              /\ p \notin retired => pool'[p] = pool[p]
  <2>1. pool[p] \in PoolType
    BY <1>2, Zenon DEF TypeOK
  <2> QED
    BY <1>9, <2>1, Zenon
<1>14. TypeOK'
  <2>1. \A p \in Pool : pool'[p] \in PoolType
    BY <1>12, <1>13, Zenon
  <2>2. ASSUME NEW p \in Pool PROVE pool'[p].state = "unused" <=> p > opened'
    <3>1. CASE p \in fresh
      BY <1>4, <1>12, <3>1
    <3>2. CASE p \notin fresh /\ p \in retired
      BY <1>4, <1>11, <1>13, <3>2
    <3>3. CASE p \notin fresh /\ p \notin retired
      BY <1>2, <1>4, <1>13, <3>3 DEF TypeOK
    <3> QED
      BY <3>1, <3>2, <3>3, Zenon
  <2>3. failed' \subseteq DB /\ Empty \in Config
    BY <1>2, <1>3, <1>11, Zenon DEF TypeOK, Empty, Config
  <2>4. pool' \in [Pool -> PoolType]
    <3>1. pool' = [p \in Pool |-> pool'[p]]
      BY <1>3, SyncPools(c), Zenon DEF SyncPools
    <3> QED
      BY <2>1, <3>1, Zenon
  <2> QED
    BY <1>2, <1>3, <1>4, <2>2, <2>3, <2>4, Zenon DEF TypeOK
<1>15. ASSUME NEW d \in DB, dbPools'[d] # None
       PROVE  /\ pool'[dbPools'[d]].db = d /\ pool'[dbPools'[d]].state = "open"
              /\ pool'[dbPools'[d]].set \in Setting /\ dbPools'[d] <= opened'
  <2>1. CASE d \in ds
    BY <1>4, <1>5, <1>6, <2>1, Zenon
  <2>2. CASE d \notin ds
    <3>1. dbPools'[d] = dbPools[d] /\ pool'[dbPools[d]] = pool[dbPools[d]]
      BY <1>7, <1>15, <2>2, Zenon
    <3>2. dbPools[d] \in Pool /\ dbPools[d] <= opened
      BY <1>2, <1>15, <3>1, Zenon DEF TypeOK, MappedIsUsable
    <3>3. dbPools'[d] <= opened'
      BY <1>4, <3>1, <3>2
    <3> QED
      BY <1>2, <1>15, <3>1, <3>3, Zenon DEF PoolsAccounted, MappedIsUsable
  <2> QED
    BY <2>1, <2>2, Zenon
<1>16. ASSUME NEW p \in Pool, pool'[p].state = "open"
       PROVE  pool'[p].db \in DB /\ dbPools'[pool'[p].db] = p
  <2>1. CASE p \in fresh
    BY <1>12, <2>1, Zenon
  <2>2. CASE p \notin fresh
    <3>1. pool'[p] = pool[p] /\ p \notin retired
      BY <1>13, <1>16, <2>2, Zenon
    <3>2. pool[p].db \in DB /\ dbPools[pool[p].db] = p
      BY <1>2, <1>16, <3>1, Zenon DEF PoolsAccounted, MappedIsUsable
    <3>3. p # None /\ W[pool[p].db] # Absent /\ pool[p].db \notin ds
      BY <1>4, <1>11, <3>1, <3>2, Zenon
    <3> QED
      BY <1>7, <3>1, <3>2, <3>3, Zenon
  <2> QED
    BY <2>1, <2>2, Zenon
<1>17. PoolsAccounted' /\ MappedIsUsable'
  BY <1>2, <1>14, <1>15, <1>16, Zenon DEF PoolsAccounted, MappedIsUsable
<1>18. OneSync' /\ SyncIsCurrent'
  BY <1>2, Zenon DEF IInv, OneSync, SyncIsCurrent, TypeOK
<1>19. ActiveKeepsPool'
  <2>1. \A p \in Pool : pool'[p].state = "closed" => pool[p].state = "closed"
    BY <1>12, <1>13, Zenon
  <2> QED
    BY <1>2, <2>1, Zenon DEF IInv, ActiveKeepsPool, TypeOK
<1>20. ASSUME \A e \in Caller : rpc'[e] \in {"idle", "read"}
       PROVE  ServesConfig'
  <2>1. W = cfg'
    BY <1>2, <1>20, Zenon DEF IInv, SyncIsCurrent, TypeOK, W
  <2>2. ASSUME NEW d \in DB \ failed'
        PROVE  IF W[d] = Absent THEN dbPools'[d] = None
               ELSE dbPools'[d] # None /\ pool'[dbPools'[d]].set = W[d]
    <3>1. d \notin bad
      BY <1>3, <2>2, Zenon
    <3>2. CASE d \in ds
      BY <1>4, <1>5, <1>6, <3>2, AbsentIsNoSetting
    <3>3. CASE d \notin ds
      BY <1>7, <1>10, <3>1, <3>3, Zenon
    <3> QED
      BY <3>2, <3>3, Zenon
  <2> QED
    BY <2>1, <2>2, Zenon DEF ServesConfig
<1> QED
  BY <1>17, <1>18, <1>19, <1>20, Zenon DEF IInv
(* Every step keeps the inductive invariant. *)
LEMMA NextIInv == IInv /\ [Next]_vars => IInv'
<1> SUFFICES ASSUME IInv, [Next]_vars PROVE IInv'
  OBVIOUS
<1>1. CASE UNCHANGED vars
  BY <1>1, Zenon
    DEF vars, poolVars, reloadVars, queryVars, IInv, TypeOK, PoolsAccounted, MappedIsUsable,
              OneSync, SyncIsCurrent, ActiveKeepsPool, ServesConfig
<1>2. CASE \E c \in Caller : ReadFile(c) \/ SwapConfig(c) \/ SyncBegin(c) \/ SyncPools(c)
  BY <1>2, ReloadIInv, SyncIInv, Zenon
<1>3. CASE \E q \in Query : Ping(q) \/ Admit(q) \/ EndRun(q) \/ \E d \in DB : LookupPool(q, d)
  BY <1>3, QueryIInv, Zenon
<1>4. CASE CloseCancels \/ CloseEnds \/ \E p \in Pool : CloseWhenIdle(p) \/ CloseAnyway(p)
  BY <1>4, CloseIInv, Zenon
<1> QED
  BY <1>1, <1>2, <1>3, <1>4, Zenon DEF Next

(***************************************************************************)
(* When every pool is the one the configuration asks for, the report of    *)
(* the next reload names the databases that syncPools gives a pool and     *)
(* those whose pool it retires, for every configuration it may load.       *)
(***************************************************************************)
LEMMA ReportIsExact ==
  ASSUME IInv, ServesConfig, failed = {}, NEW new \in Config
  PROVE  LET diff == DiffDatabases(cfg, new) IN
         /\ ToOpen(new) = diff.added \cup diff.updated
         /\ Retired(new, {}) = {dbPools[d] : d \in diff.removed \cup diff.updated}
<1> DEFINE diff == DiffDatabases(cfg, new)
<1>1. ASSUME NEW d \in DB
      PROVE  /\ cfg[d] = Absent <=> dbPools[d] = None
             /\ cfg[d] # Absent => pool[dbPools[d]].set = cfg[d]
             /\ cfg[d] # Absent /\ new[d] # Absent =>
                  (samePoolConfig(cfg[d], new[d]) <=> ~(cfg[d][1] # new[d][1] \/ cfg[d][2] # new[d][2]))
  BY Zenon DEF ServesConfig, samePoolConfig
<1>2. ASSUME NEW d \in DB PROVE d \in ToOpen(new) <=> d \in diff.added \cup diff.updated
  BY <1>1, Zenon DEF ToOpen, DiffDatabases
<1>3. ToOpen(new) = diff.added \cup diff.updated
  BY <1>2, Zenon DEF ToOpen, DiffDatabases
<1>4. {e \in DB : dbPools[e] # None /\ (new[e] = Absent \/ e \in ToOpen(new) \ {})}
        = diff.removed \cup diff.updated
  BY <1>1, <1>3, Zenon DEF DiffDatabases
<1> QED
  BY <1>3, <1>4, Zenon DEF Retired

(* Every pool is in the map, or has a closer, or is closed: none leaks,    *)
(* however reloads, submissions and Close interleave (syncPools).          *)
THEOREM PoolsAlwaysAccounted == Spec => []PoolsAccounted
<1>1. IInv => PoolsAccounted
  BY Zenon DEF IInv
<1> QED
  BY <1>1, InitIInv, NextIInv, PTL DEF Spec

(* Once no reload is under way the pools are those of the configuration,   *)
(* and a reload reports what it does to them (syncPools, DiffDatabases).   *)
THEOREM PoolsAlwaysFollow == Spec => []PoolsFollowConfig
<1>1. IInv => PoolsFollowConfig
  BY ReportIsExact, Zenon DEF IInv, PoolsFollowConfig
<1> QED
  BY <1>1, InitIInv, NextIInv, PTL DEF Spec

(* The closer of a retired pool closes it under no query that counts on it *)
(* (closeWhenIdle, activeForDB).                                           *)
THEOREM ActiveAlwaysKeepsPool == Spec => []ActiveKeepsPool
<1>1. IInv => ActiveKeepsPool
  BY Zenon DEF IInv
<1> QED
  BY <1>1, InitIInv, NextIInv, PTL DEF Spec
=============================================================================
