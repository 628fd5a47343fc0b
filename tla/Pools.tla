------------------------------- MODULE Pools -------------------------------
(***************************************************************************)
(* The database pools of one instance: reloads of the configuration file   *)
(* (config.Manager.Reload, QueryManager.Reload, syncPools), which two      *)
(* callers, the admin endpoint and SIGHUP, may run at once; the closers of *)
(* the pools a reload retires; the submissions and runs that use pools;    *)
(* and Close.                                                              *)
(***************************************************************************)
EXTENDS Naturals, FiniteSets, Functions

CONSTANTS
  DB,        \* database ids
  Setting,   \* what a database may be configured with: pairs of a DSN and max_conns
  Absent,    \* the configuration does not name the database
  Caller,    \* callers of Reload
  Query,     \* submissions
  None,      \* no pool
  MaxPools   \* bound: pools opened

ASSUME SettingsArePairs == \A s \in Setting : s = <<s[1], s[2]>>
ASSUME AbsentIsNoSetting == Absent \notin Setting
ASSUME PoolBound == MaxPools \in Nat \ {0}
ASSUME DatabasesFinite == IsFiniteSet(DB)

Pool == 1 .. MaxPools
Config == [DB -> Setting \cup {Absent}]

ASSUME NoneIsNoPool == None \notin Pool

VARIABLES
  cfg,      \* the configuration in config.Manager
  dbPools,  \* qm.dbPools: the pool of each database
  opened,   \* pools opened so far; pool k is the k-th
  pool,     \* of each pool: its database, its setting while it serves, and its state; a
            \* pool that was closed without waiting for its queries is "forced"
  rpc,      \* where each caller of Reload is
  want,     \* the configuration each caller works from
  failed,   \* databases whose last attempt to open a pool failed
  qpc,      \* where each submission is
  qpool,    \* the pool it looked up
  late,     \* submissions admitted with a pool that had been retired by then
  phase     \* Close: "up", "canceled" or "closed"

poolVars == <<dbPools, opened, pool, failed>>
reloadVars == <<rpc, want>>
queryVars == <<qpc, qpool, late>>
vars == <<cfg, poolVars, reloadVars, queryVars, phase>>

NoPool == [db |-> Absent, set |-> Absent, state |-> "unused"]
Empty == [d \in DB |-> Absent]

(* The pools of a configuration, opened in some order as the process starts. *)
Opens(c) == {d \in DB : c[d] # Absent}

Init ==
  /\ cfg \in {c \in Config : Cardinality(Opens(c)) = 1}
  /\ opened = 1
  /\ \E d \in Opens(cfg) :
       /\ pool = [p \in Pool |-> IF p = 1 THEN [db |-> d, set |-> cfg[d], state |-> "open"] ELSE NoPool]
       /\ dbPools = [e \in DB |-> IF e = d THEN 1 ELSE None]
  /\ failed = {}
  /\ rpc = [c \in Caller |-> "idle"] /\ want = [c \in Caller |-> Empty]
  /\ qpc = [q \in Query |-> "new"] /\ qpool = [q \in Query |-> None] /\ late = {}
  /\ phase = "up"

-----------------------------------------------------------------------------
(* Reload.                                                                 *)

(* The file, which may have been edited in any way, is read and decoded.  *)
(* An error, or contents that validate refuses, changes nothing.          *)
ReadFile(c) ==
  /\ rpc[c] = "idle" /\ phase # "closed"
  /\ rpc' = [rpc EXCEPT ![c] = "read"]
  /\ \E contents \in Config : want' = [want EXCEPT ![c] = contents]
  /\ UNCHANGED <<cfg, poolVars, queryVars, phase>>

(* The pointer to the configuration is swapped. *)
SwapConfig(c) ==
  /\ rpc[c] = "read" /\ phase # "closed"
  /\ cfg' = want[c]
  /\ rpc' = [rpc EXCEPT ![c] = "swapped"]
  /\ want' = [want EXCEPT ![c] = Empty]
  /\ UNCHANGED <<poolVars, queryVars, phase>>

Syncing == \E c \in Caller : rpc[c] = "syncing"

(* Mutant of SyncBegin: the pools are synced without reloadMu. *)
SyncBeginUnlocked(c) ==
  /\ rpc[c] = "swapped" /\ phase # "closed"
  /\ rpc' = [rpc EXCEPT ![c] = "syncing"]
  /\ want' = [want EXCEPT ![c] = cfg]
  /\ UNCHANGED <<cfg, poolVars, queryVars, phase>>

(* syncPools takes reloadMu, and only then the configuration. *)
SyncBegin(c) ==
  /\ rpc[c] = "swapped" /\ phase # "closed"
  /\ ~Syncing
  /\ rpc' = [rpc EXCEPT ![c] = "syncing"]
  /\ want' = [want EXCEPT ![c] = cfg]
  /\ UNCHANGED <<cfg, poolVars, queryVars, phase>>

(* The pool of a database can go on serving it. *)
samePoolConfig(a, b) == a[1] = b[1] /\ a[2] = b[2]

(* The databases syncPools has to open a pool for. *)
ToOpen(c) ==
  {d \in DB : c[d] # Absent /\ ~(dbPools[d] # None /\ samePoolConfig(pool[dbPools[d]].set, c[d]))}

(* The pools replaced, and those whose database is no longer configured. *)
Retired(c, bad) ==
  {dbPools[d] : d \in {e \in DB : dbPools[e] # None /\ (c[e] = Absent \/ e \in ToOpen(c) \ bad)}}

(* The pools opened get the next numbers. *)
Numbering(ds) == {f \in [ds -> opened + 1 .. opened + Cardinality(ds)] : IsInjective(f)}

(* A replacement that could not be opened leaves the previous pool, if any. *)
NextPools(c, bad, f) ==
  [d \in DB |-> IF d \in DOMAIN f THEN f[d] ELSE IF c[d] = Absent THEN None ELSE dbPools[d]]

(* What Reload reports of two configurations. *)
DiffDatabases(old, new) ==
  [added |-> {d \in DB : new[d] # Absent /\ old[d] = Absent},
   removed |-> {d \in DB : new[d] = Absent /\ old[d] # Absent},
   updated |-> {d \in DB : Absent \notin {old[d], new[d]}
                           /\ (old[d][1] # new[d][1] \/ old[d][2] # new[d][2])}]

(***************************************************************************)
(* The pools are opened, outside any lock that others take; bad are those  *)
(* that could not be.  Then the map is swapped and each retired pool gets  *)
(* its closer.                                                             *)
(***************************************************************************)
SyncPools(c) ==
  /\ rpc[c] = "syncing" /\ phase # "closed"
  /\ \E bad \in SUBSET ToOpen(want[c]) :
       /\ LET ds == ToOpen(want[c]) \ bad
              retired == Retired(want[c], bad) IN
          /\ opened + Cardinality(ds) <= MaxPools
          /\ opened' = opened + Cardinality(ds)
          /\ failed' = (failed \ {d \in DB : want[c][d] # Absent}) \cup bad
          /\ \E f \in Numbering(ds) :
               /\ dbPools' = NextPools(want[c], bad, f)
               /\ pool' = [p \in Pool |->
                    IF p \in Range(f)
                    THEN LET d == CHOOSE e \in ds : f[e] = p IN [db |-> d, set |-> want[c][d], state |-> "open"]
                    ELSE IF p \in retired THEN [pool[p] EXCEPT !.set = Absent, !.state = "retired"] ELSE pool[p]]
  /\ rpc' = [rpc EXCEPT ![c] = "idle"]
  /\ want' = [want EXCEPT ![c] = Empty]
  /\ UNCHANGED <<cfg, queryVars, phase>>

-----------------------------------------------------------------------------
(* Submissions and closers.                                                *)

(* lookupPool *)
LookupPool(q, d) ==
  /\ qpc[q] = "new" /\ phase # "closed"
  /\ dbPools[d] # None
  /\ qpool' = [qpool EXCEPT ![q] = dbPools[d]]
  /\ qpc' = [qpc EXCEPT ![q] = "lookedUp"]
  /\ UNCHANGED <<cfg, poolVars, reloadVars, late, phase>>

(* Ping, which a closed pool fails, and any other may. *)
Ping(q) ==
  /\ qpc[q] = "lookedUp"
  /\ \/ pool[qpool[q]].state \in {"open", "retired"} /\ qpc' = [qpc EXCEPT ![q] = "pinged"] /\ UNCHANGED qpool
     \/ qpc' = [qpc EXCEPT ![q] = "over"] /\ qpool' = [qpool EXCEPT ![q] = None]
  /\ UNCHANGED <<cfg, poolVars, reloadVars, late, phase>>

(* admit: from here on activeForDB counts the query. *)
Admit(q) ==
  /\ qpc[q] = "pinged"
  /\ \/ /\ phase = "up"
        /\ qpc' = [qpc EXCEPT ![q] = "active"]
        /\ late' = IF qpool[q] \in Range(dbPools) THEN late ELSE late \cup {q}
        /\ UNCHANGED qpool
     \/ /\ phase # "up"
        /\ qpc' = [qpc EXCEPT ![q] = "over"] /\ qpool' = [qpool EXCEPT ![q] = None]
        /\ UNCHANGED late
  /\ UNCHANGED <<cfg, poolVars, reloadVars, phase>>

(* The run ends and is deregistered. *)
EndRun(q) ==
  /\ qpc[q] = "active"
  /\ qpc' = [qpc EXCEPT ![q] = "over"] /\ qpool' = [qpool EXCEPT ![q] = None]
  /\ late' = late \ {q}
  /\ UNCHANGED <<cfg, poolVars, reloadVars, phase>>

activeForDB(d) == {q \in Query : qpc[q] = "active" /\ pool[qpool[q]].db = d}

(* Mutant of CloseWhenIdle: the closer does not wait. *)
CloseAtOnce(p) ==
  /\ pool[p].state = "retired"
  /\ pool' = [pool EXCEPT ![p].state = "closed"]
  /\ UNCHANGED <<cfg, dbPools, opened, failed, reloadVars, queryVars, phase>>

(* The closer of a retired pool finds its database idle. *)
CloseWhenIdle(p) ==
  /\ pool[p].state = "retired"
  /\ activeForDB(pool[p].db) = {}
  /\ pool' = [pool EXCEPT ![p].state = "closed"]
  /\ UNCHANGED <<cfg, dbPools, opened, failed, reloadVars, queryVars, phase>>

(* Mutant of CloseAnyway: there is no deadline. *)
CloseAnywayAtShutdown(p) ==
  /\ pool[p].state = "retired" /\ phase # "up"
  /\ activeForDB(pool[p].db) # {}
  /\ pool' = [pool EXCEPT ![p].state = "forced"]
  /\ UNCHANGED <<cfg, dbPools, opened, failed, reloadVars, queryVars, phase>>

(* poolDrainTimeout is over, or qm.ctx is canceled. *)
CloseAnyway(p) ==
  /\ pool[p].state = "retired"
  /\ activeForDB(pool[p].db) # {}
  /\ pool' = [pool EXCEPT ![p].state = "forced"]
  /\ UNCHANGED <<cfg, dbPools, opened, failed, reloadVars, queryVars, phase>>

-----------------------------------------------------------------------------
(* Close.                                                                  *)

(* The runs have ended, or queryCloseTimeout is over: qm.cancel. *)
CloseCancels ==
  /\ phase = "up"
  /\ phase' = "canceled"
  /\ UNCHANGED <<cfg, poolVars, reloadVars, queryVars>>

(* Mutant of CloseEnds: the closers are not waited for. *)
CloseEndsUnwaited ==
  /\ phase = "canceled"
  /\ phase' = "closed"
  /\ pool' = [p \in Pool |-> IF p \in Range(dbPools) THEN [pool[p] EXCEPT !.state = "forced"] ELSE pool[p]]
  /\ UNCHANGED <<cfg, dbPools, opened, failed, reloadVars, queryVars>>

(* poolWG.Wait, and the pools still in the map are closed. *)
CloseEnds ==
  /\ phase = "canceled"
  /\ \A p \in Pool : pool[p].state # "retired"
  /\ phase' = "closed"
  /\ pool' = [p \in Pool |-> IF p \in Range(dbPools) THEN [pool[p] EXCEPT !.state = "forced"] ELSE pool[p]]
  /\ UNCHANGED <<cfg, dbPools, opened, failed, reloadVars, queryVars>>

Next ==
  \/ CloseCancels \/ CloseEnds
  \/ \E c \in Caller : ReadFile(c) \/ SwapConfig(c) \/ SyncBegin(c) \/ SyncPools(c)
  \/ \E q \in Query : Ping(q) \/ Admit(q) \/ EndRun(q) \/ \E d \in DB : LookupPool(q, d)
  \/ \E p \in Pool : CloseWhenIdle(p) \/ CloseAnyway(p)

Spec == Init /\ [][Next]_vars

(* The closer of a pool looks again every half second and has a deadline. *)
FairSpec == Spec /\ \A p \in Pool : WF_vars(CloseWhenIdle(p)) /\ WF_vars(CloseAnyway(p))

-----------------------------------------------------------------------------
TypeOK ==
  /\ cfg \in Config
  /\ dbPools \in [DB -> Pool \cup {None}]
  /\ opened \in 0 .. MaxPools
  /\ pool \in [Pool -> [db : DB \cup {Absent}, set : Setting \cup {Absent},
                        state : {"unused", "open", "retired", "closed", "forced"}]]
  /\ failed \subseteq DB
  /\ rpc \in [Caller -> {"idle", "read", "swapped", "syncing"}]
  /\ want \in [Caller -> Config]
  /\ qpc \in [Query -> {"new", "lookedUp", "pinged", "active", "over"}]
  /\ qpool \in [Query -> Pool \cup {None}]
  /\ \A q \in Query : qpool[q] # None <=> qpc[q] \in {"lookedUp", "pinged", "active"}
  /\ \A p \in Pool : pool[p].state = "unused" <=> p > opened
  /\ late \subseteq Query
  /\ phase \in {"up", "canceled", "closed"}

(***************************************************************************)
(* No pool leaks and none is handed out after it was given up: a pool that *)
(* was opened is the one its database is served from, or has a closer, or  *)
(* is closed, and those are exclusive until Close ends (syncPools).  Close *)
(* leaves none open, the retired ones included.  The variables are in      *)
(* their types.                                                            *)
(***************************************************************************)
PoolsAccounted ==
  /\ TypeOK
  /\ \A p \in Pool : pool[p].state = "open" => dbPools[pool[p].db] = p
  /\ \A d \in DB : dbPools[d] # None =>
       pool[dbPools[d]].db = d /\ (pool[dbPools[d]].state = "open" \/ phase = "closed")
  /\ phase = "closed" => \A p \in Pool : pool[p].state \notin {"open", "retired"}

(* The pools are the ones the configuration asks for, failures aside. *)
ServesConfig ==
  \A d \in DB \ failed :
    IF cfg[d] = Absent THEN dbPools[d] = None
    ELSE dbPools[d] # None /\ pool[dbPools[d]].set = cfg[d]

(***************************************************************************)
(* However two reloads interleave, once none is under way every database   *)
(* the current configuration names is served by a pool opened for that     *)
(* very setting, and no other is, except where the last attempt to open    *)
(* one failed (reloadMu, and the configuration read under it).  The report *)
(* of the next reload, which compares configurations and not pools, then   *)
(* names what syncPools does: the databases DiffDatabases calls added or   *)
(* updated are given a pool, and those it calls removed or updated lose    *)
(* theirs.                                                                 *)
(***************************************************************************)
PoolsFollowConfig ==
  (\A c \in Caller : rpc[c] \in {"idle", "read"}) =>
    /\ ServesConfig
    /\ failed = {} =>
         \A new \in Config :
           LET diff == DiffDatabases(cfg, new) IN
           /\ ToOpen(new) = diff.added \cup diff.updated
           /\ Retired(new, {}) = {dbPools[d] : d \in diff.removed \cup diff.updated}

(***************************************************************************)
(* A reload does not pull the pool from under a query: the pool of an      *)
(* active query is closed only when its closer or Close gave up waiting,   *)
(* or when the pool had been retired before the query was admitted.        *)
(***************************************************************************)
ActiveKeepsPool ==
  \A q \in Query : qpc[q] = "active" /\ q \notin late =>
    pool[qpool[q]].state # "closed"

(***************************************************************************)
(* A retired pool is closed in the end, whatever its queries do            *)
(* (poolDrainTimeout: "one stuck query cannot leak a pool for ever").      *)
(***************************************************************************)
RetiredIsClosed == \A p \in Pool : pool[p].state = "retired" ~> pool[p].state # "retired"

-----------------------------------------------------------------------------
(* The inductive invariant of the proofs.                                  *)

(* A pool in the map was opened, and for a setting. *)
MappedIsUsable ==
  /\ \A p \in Pool : pool[p].state = "open" => pool[p].db \in DB
  /\ \A d \in DB : dbPools[d] # None => dbPools[d] <= opened /\ pool[dbPools[d]].set \in Setting

(* One caller holds reloadMu, and what it works from is the configuration  *)
(* unless another one has swapped that since and will sync after it.       *)
OneSync == \A c, e \in Caller : rpc[c] = "syncing" /\ rpc[e] = "syncing" => c = e

SyncIsCurrent ==
  (\A c \in Caller : rpc[c] # "swapped") => \A c \in Caller : rpc[c] = "syncing" => want[c] = cfg

IInv ==
  /\ PoolsAccounted /\ MappedIsUsable /\ OneSync /\ SyncIsCurrent /\ ActiveKeepsPool
  /\ (\A c \in Caller : rpc[c] \in {"idle", "read"}) => ServesConfig
=============================================================================
