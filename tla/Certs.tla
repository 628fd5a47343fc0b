-------------------------------- MODULE Certs --------------------------------
(***************************************************************************)
(* The TLS certificate reloader of internal/transport/certs: every         *)
(* handshake compares the modification times of the two files with those   *)
(* of the loaded pair and loads the files again when they differ, while a  *)
(* renewal rewrites them one after the other.                              *)
(*                                                                         *)
(* A file is the number of times it has been written, which is also its    *)
(* modification time; a certificate belongs to the key of the same number. *)
(***************************************************************************)
EXTENDS Naturals

CONSTANTS Handshake,  \* goroutines that may be in getCertificate
          MaxRenewals \* bound on the number of times a file is rewritten

ASSUME CertsAssumption == MaxRenewals \in Nat

VARIABLES certFile, keyFile, \* the files on disk
          cert,              \* Reloader.cert: the certificate and key it was made from
          certMod, keyMod,   \* Reloader.certMod, Reloader.keyMod
          hpc,               \* where a handshake is
          stat,              \* the modification times its reload saw
          loaded             \* what LoadX509KeyPair has read of the files

certVars == <<certFile, keyFile, cert, certMod, keyMod, hpc, stat, loaded>>

Version == 0 .. MaxRenewals
Pair == [c : Version, k : Version]
Zero == [c |-> 0, k |-> 0]

CertsTypeOK ==
  /\ certFile \in Version /\ keyFile \in Version
  /\ cert \in Pair /\ certMod \in Version /\ keyMod \in Version
  /\ hpc \in [Handshake -> {"idle", "changed", "statCert", "statKey", "readCert", "readKey", "store"}]
  /\ stat \in [Handshake -> Pair] /\ loaded \in [Handshake -> Pair]

(* NewReloader has loaded the pair before any listener starts. *)
CertsInit ==
  /\ certFile = 0 /\ keyFile = 0
  /\ cert = Zero /\ certMod = 0 /\ keyMod = 0
  /\ hpc = [h \in Handshake |-> "idle"]
  /\ stat = [h \in Handshake |-> Zero] /\ loaded = [h \in Handshake |-> Zero]

(* The renewal, external: both files are rewritten, in either order. *)
RenewCert ==
  /\ certFile < MaxRenewals /\ certFile <= keyFile
  /\ certFile' = certFile + 1
  /\ UNCHANGED <<keyFile, cert, certMod, keyMod, hpc, stat, loaded>>

RenewKey ==
  /\ keyFile < MaxRenewals /\ keyFile <= certFile
  /\ keyFile' = keyFile + 1
  /\ UNCHANGED <<certFile, cert, certMod, keyMod, hpc, stat, loaded>>

(* getCertificate calls changed, which looks at the certificate first. *)
Changed(h) ==
  /\ hpc[h] = "idle"
  /\ hpc' = [hpc EXCEPT ![h] = "changed"]
  /\ stat' = [stat EXCEPT ![h] = [c |-> certFile, k |-> 0]]
  /\ UNCHANGED <<certFile, keyFile, cert, certMod, keyMod, loaded>>

(* The key's time, and the comparison: an unchanged pair is served as it is. *)
Compare(h) ==
  /\ hpc[h] = "changed"
  /\ hpc' = [hpc EXCEPT ![h] = IF stat[h].c # certMod \/ keyFile # keyMod THEN "statCert" ELSE "idle"]
  /\ stat' = [stat EXCEPT ![h] = Zero]
  /\ UNCHANGED <<certFile, keyFile, cert, certMod, keyMod, loaded>>

StatCert(h) ==
  /\ hpc[h] = "statCert"
  /\ hpc' = [hpc EXCEPT ![h] = "statKey"]
  /\ stat' = [stat EXCEPT ![h].c = certFile]
  /\ UNCHANGED <<certFile, keyFile, cert, certMod, keyMod, loaded>>

StatKey(h) ==
  /\ hpc[h] = "statKey"
  /\ hpc' = [hpc EXCEPT ![h] = "readCert"]
  /\ stat' = [stat EXCEPT ![h].k = keyFile]
  /\ UNCHANGED <<certFile, keyFile, cert, certMod, keyMod, loaded>>

ReadCert(h) ==
  /\ hpc[h] = "readCert"
  /\ hpc' = [hpc EXCEPT ![h] = "readKey"]
  /\ loaded' = [loaded EXCEPT ![h].c = certFile]
  /\ UNCHANGED <<certFile, keyFile, cert, certMod, keyMod, stat>>

(* Mutant of ReadKey: the two files are not checked against each other. *)
ReadKeyUnmatched(h) ==
  /\ hpc[h] = "readKey"
  /\ hpc' = [hpc EXCEPT ![h] = "store"]
  /\ loaded' = [loaded EXCEPT ![h].k = keyFile]
  /\ UNCHANGED <<certFile, keyFile, cert, certMod, keyMod, stat>>

(* A certificate and a key that do not match are an error: the old pair is served on. *)
ReadKey(h) ==
  /\ hpc[h] = "readKey"
  /\ \/ /\ loaded[h].c = keyFile
        /\ hpc' = [hpc EXCEPT ![h] = "store"]
        /\ loaded' = [loaded EXCEPT ![h].k = keyFile]
        /\ UNCHANGED stat
     \/ /\ loaded[h].c # keyFile
        /\ hpc' = [hpc EXCEPT ![h] = "idle"]
        /\ loaded' = [loaded EXCEPT ![h] = Zero] /\ stat' = [stat EXCEPT ![h] = Zero]
  /\ UNCHANGED <<certFile, keyFile, cert, certMod, keyMod>>

(* Mutant of StorePair: the times are taken after the files were read. *)
StorePairLateTimes(h) ==
  /\ hpc[h] = "store"
  /\ cert' = loaded[h]
  /\ certMod' = certFile /\ keyMod' = keyFile
  /\ hpc' = [hpc EXCEPT ![h] = "idle"]
  /\ loaded' = [loaded EXCEPT ![h] = Zero] /\ stat' = [stat EXCEPT ![h] = Zero]
  /\ UNCHANGED <<certFile, keyFile>>

(* The pair and the times go in together, and the handshake is answered. *)
StorePair(h) ==
  /\ hpc[h] = "store"
  /\ cert' = loaded[h]
  /\ certMod' = stat[h].c /\ keyMod' = stat[h].k
  /\ hpc' = [hpc EXCEPT ![h] = "idle"]
  /\ loaded' = [loaded EXCEPT ![h] = Zero] /\ stat' = [stat EXCEPT ![h] = Zero]
  /\ UNCHANGED <<certFile, keyFile>>

(* A file that is missing or cannot be read: the old pair is served on. *)
FileError(h) ==
  /\ hpc[h] \in {"changed", "statCert", "statKey", "readCert", "readKey"}
  /\ hpc' = [hpc EXCEPT ![h] = "idle"]
  /\ loaded' = [loaded EXCEPT ![h] = Zero] /\ stat' = [stat EXCEPT ![h] = Zero]
  /\ UNCHANGED <<certFile, keyFile, cert, certMod, keyMod>>

HandshakeStep(h) ==
  \/ Changed(h) \/ Compare(h) \/ StatCert(h) \/ StatKey(h)
  \/ ReadCert(h) \/ ReadKey(h) \/ StorePair(h) \/ FileError(h)

CertsNext == RenewCert \/ RenewKey \/ \E h \in Handshake : HandshakeStep(h)

CertsSpec == CertsInit /\ [][CertsNext]_certVars

(***************************************************************************)
(* What a handshake is answered with is always a certificate and its own   *)
(* key, also while a renewal is half written (comment of getCertificate).  *)
(***************************************************************************)
ServedIsAPair == cert.c = cert.k

(***************************************************************************)
(* A renewal is never missed for good: as long as the files differ from    *)
(* the pair being served, the next handshake sees that they changed        *)
(* (Reloader.changed), however handshakes and renewals overlapped.  It     *)
(* holds because reload takes the times before it reads the files.         *)
(***************************************************************************)
StaleIsNoticed ==
  cert # [c |-> certFile, k |-> keyFile] => certMod # certFile \/ keyMod # keyFile

(* The times never run ahead of what was read under them, nor that of the files. *)
Ordered(mod, read, file) == mod <= read /\ read <= file

CertsInv ==
  /\ CertsTypeOK
  /\ ServedIsAPair
  /\ Ordered(certMod, cert.c, certFile) /\ Ordered(keyMod, cert.k, keyFile)
  /\ \A h \in Handshake :
       /\ stat[h].c <= certFile /\ stat[h].k <= keyFile
       /\ hpc[h] \in {"readKey", "store"} => Ordered(stat[h].c, loaded[h].c, certFile)
       /\ hpc[h] = "store" => Ordered(stat[h].k, loaded[h].k, keyFile) /\ loaded[h].c = loaded[h].k
=============================================================================
