----------------------------- MODULE MCAssembly -----------------------------
(***************************************************************************)
(* One file per thing that can be said of the start: five that are         *)
(* accepted and seven that are refused, each for a reason of its own.  Two *)
(* of the accepted ones and one refused file are what it is edited to.     *)
(***************************************************************************)
EXTENDS Assembly, TLC

Plain ==
  [instance |-> [metastore |-> "memory", addr |-> FALSE, default |-> "", gc |-> 0],
   server |-> [cert |-> FALSE, key |-> FALSE, admin |-> FALSE],
   storage |-> {}, auth |-> "none", max |-> 1, databases |-> <<"d1">>]

Full ==
  [Plain EXCEPT !.instance.metastore = "redis", !.instance.addr = TRUE, !.instance.default = "clickhouse",
                !.instance.gc = LongestGC, !.server = [cert |-> TRUE, key |-> TRUE, admin |-> TRUE],
                !.storage = {"fs", "s3", "clickhouse"}, !.auth = "good", !.max = 2]

Bucket == [Plain EXCEPT !.instance.default = "s3", !.storage = {"s3"}]

MCFiles ==
  {Plain, Full, Bucket, [Plain EXCEPT !.auth = "bad"], [Plain EXCEPT !.instance.gc = -1]}
    \cup {[Plain EXCEPT !.instance.metastore = "etcd"], [Plain EXCEPT !.instance.metastore = "redis"],
          [Plain EXCEPT !.instance.default = "s3"], [Plain EXCEPT !.instance.gc = LongestGC + 1],
          [Plain EXCEPT !.auth = "empty"], [Plain EXCEPT !.server.cert = TRUE],
          [Plain EXCEPT !.databases = <<"d1", "d1">>]}

MCEdits == {Plain, Bucket, [Plain EXCEPT !.auth = "empty"]}

Symmetry == Permutations(Handshake) \cup Permutations(Reloader)

(* Handshakes, reloads and requests share no state: a behaviour has one of them under way. *)
OneAtATime ==
  LET renewing  == certFile + keyFile > 0 \/ \E h \in Handshake : hpc[h] # "idle"
      reloading == cfg # stored \/ \E r \in Reloader : rpc[r] # "idle"
  IN  ~ (renewing /\ reloading) /\ ~ ((renewing \/ reloading) /\ handling # {})
=============================================================================
