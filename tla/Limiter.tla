------------------------------- MODULE Limiter -------------------------------
(***************************************************************************)
(* The per-caller rate limiter of internal/ratelimit: one token bucket per *)
(* key, dropped by a sweep once it has been idle for longer than           *)
(* idleEviction.  Time advances in ticks; the sweep runs inside Allow, at  *)
(* most once per window.                                                   *)
(***************************************************************************)
EXTENDS Naturals

CONSTANTS Key,           \* callers, as KeyOf and peer.Addr name them
          Burst,         \* the bucket's size; New raises a burst of 0 to 1
          Rate,          \* tokens a bucket regains per tick
          IdleEviction,  \* ticks of idleness after which a bucket may be dropped
          NoEntry

(* A bucket is full again within the eviction window.  The configuration does not enforce
   it: with rps * 600 < burst a dropped bucket comes back fuller than it left. *)
ASSUME LimiterAssumption ==
  /\ Burst \in Nat \ {0} /\ Rate \in Nat \ {0} /\ IdleEviction \in Nat \ {0}
  /\ Burst <= Rate * IdleEviction
  /\ NoEntry \notin [tokens : Nat, idle : Nat]

VARIABLES entries,    \* Limiter.entries: tokens left and ticks since lastUse
          sincePurge, \* ticks since lastPurge, up to one window
          budget      \* history: the tokens of a bucket that is never dropped

limiterVars == <<entries, sincePurge, budget>>

Entry == [tokens : 0 .. Burst, idle : 0 .. IdleEviction + 1]

LimiterTypeOK ==
  /\ entries \in [Key -> Entry \cup {NoEntry}]
  /\ sincePurge \in 0 .. IdleEviction
  /\ budget \in [Key -> 0 .. Burst]

(* lastPurge starts as the zero time, so the first Allow sweeps an empty map. *)
LimiterInit ==
  /\ entries = [k \in Key |-> NoEntry]
  /\ sincePurge = IdleEviction
  /\ budget = [k \in Key |-> Burst]

(* Mutant of Purged: sweeps every bucket, not the idle ones. *)
PurgedAll(es) == IF sincePurge < IdleEviction THEN es ELSE [k \in Key |-> NoEntry]

(* purgeLocked. *)
Purged(es) ==
  IF sincePurge < IdleEviction
    THEN es
    ELSE [k \in Key |-> IF es[k] # NoEntry /\ es[k].idle > IdleEviction THEN NoEntry ELSE es[k]]

(* The tokens Allow finds for key. *)
Tokens(key) == IF Purged(entries)[key] = NoEntry THEN Burst ELSE Purged(entries)[key].tokens

Allowed(key) == Tokens(key) > 0

Spend(n) == IF n > 0 THEN n - 1 ELSE 0

(* A request of key is counted, whether or not it may proceed. *)
Allow(key) ==
  /\ entries' = [Purged(entries) EXCEPT ![key] = [tokens |-> Spend(Tokens(key)), idle |-> 0]]
  /\ sincePurge' = IF sincePurge < IdleEviction THEN sincePurge ELSE 0
  /\ budget' = [budget EXCEPT ![key] = Spend(@)]

Refill(n) == IF n + Rate > Burst THEN Burst ELSE n + Rate

(* rate.Limiter: a bucket regains tokens as time passes. *)
TimePasses ==
  /\ entries' = [k \in Key |->
                   IF entries[k] = NoEntry THEN NoEntry
                   ELSE [tokens |-> Refill(entries[k].tokens),
                         idle |-> IF entries[k].idle > IdleEviction THEN entries[k].idle
                                  ELSE entries[k].idle + 1]]
  /\ sincePurge' = IF sincePurge < IdleEviction THEN sincePurge + 1 ELSE sincePurge
  /\ budget' = [k \in Key |-> Refill(budget[k])]

LimiterNext == TimePasses \/ \E k \in Key : Allow(k)

(***************************************************************************)
(* Dropping idle buckets changes no answer: a caller whose bucket was      *)
(* swept by Limiter.purgeLocked has exactly the tokens it would have had   *)
(* if its bucket had been kept.                                            *)
(***************************************************************************)
EvictionIsInvisible == \A k \in Key : Tokens(k) = budget[k]

(* Idle buckets have refilled: what makes the sweep harmless. *)
IdleIsFull ==
  \A k \in Key : IF entries[k] = NoEntry
                   THEN budget[k] = Burst
                   ELSE /\ budget[k] = entries[k].tokens
                        /\ entries[k].tokens = Burst \/ Rate * entries[k].idle <= entries[k].tokens

LimiterInv == LimiterTypeOK /\ IdleIsFull
=============================================================================
