--------------------------- MODULE Results_proofs ---------------------------
(* Theorems about the life of a stored result, for every job, any number   *)
(* of collectors, and every row group, batch, sample and period.           *)
EXTENDS Results, FunctionTheorems, FiniteSetTheorems, SequenceTheorems, WellFoundedInduction, TLAPS

-----------------------------------------------------------------------------
(* The names of the columns.                                               *)

(* Induction over the naturals is by the least counterexample. *)
LEMMA LeastElement ==
  ASSUME NEW T \in SUBSET Nat, T # {}
  PROVE  \E n \in T : \A m \in T : n <= m
<1>1. IsWellFoundedOn(OpToRel(<, Nat), Nat)
  BY NatLessThanWellFounded, Zenon
<1>2. PICK x \in T : \A y \in T : <<y, x>> \notin OpToRel(<, Nat)
  BY <1>1, WFMin, Zenon
<1>3. \A y \in T : ~(y < x)
  BY <1>2, Zenon DEF OpToRel
<1> QED
  BY <1>3

(* Of base, base_1, ..., base_i one is free when fewer than i are taken. *)
LEMMA NameIsNew ==
  ASSUME NEW columns \in Seq(Seq(Nat)), NEW i \in DOMAIN columns,
         NEW seen, IsFiniteSet(seen), Cardinality(seen) < i
  PROVE  columnName(columns, i, seen) \in Seq(Nat) \ seen
<1> DEFINE base == IF columns[i] = <<>> THEN <<ColumnPlaceholder, i - 1>> ELSE columns[i]
           choice(n) == IF n = 0 THEN base ELSE Append(base, n)
           free == {n \in 0 .. i : choice(n) \notin seen}
<1>1. i \in Nat \ {0} /\ base \in Seq(Nat)
  BY LenProperties, ElementOfSeq DEF ColumnPlaceholder
<1> HIDE DEF base
<1>2. \A n \in 0 .. i : choice(n) \in Seq(Nat)
  BY <1>1, AppendProperties
<1>3. \A n, m \in 0 .. i : choice(n) = choice(m) => n = m
  <2> SUFFICES ASSUME NEW n \in 0 .. i, NEW m \in 0 .. i, choice(n) = choice(m) PROVE n = m
    OBVIOUS
  <2>1. n \in Nat /\ m \in Nat /\ Len(base) \in Nat
    BY <1>1, LenProperties
  <2>2. Len(Append(base, n)) = Len(base) + 1 /\ Len(Append(base, m)) = Len(base) + 1
    BY <1>1, <2>1, AppendProperties, Zenon
  <2>3. Append(base, n) = Append(base, m) => n = m
    BY <1>1, <2>1, AppendInjective
  <2>4. base # Append(base, n) /\ base # Append(base, m)
    BY <2>1, <2>2
  <2> QED
    BY <2>3, <2>4, Zenon
<1>4. free # {}
  <2> SUFFICES ASSUME free = {} PROVE FALSE
    OBVIOUS
  <2> DEFINE f == [n \in 0 .. i |-> choice(n)]
  <2>1. f \in [0 .. i -> seen]
    <3>1. \A n \in 0 .. i : choice(n) \in seen
      OBVIOUS
    <3> HIDE DEF choice
    <3> QED
      BY <3>1, Zenon
  <2> HIDE DEF f, free
  <2>2. IsFiniteSet(0 .. i) /\ Cardinality(0 .. i) = i + 1
    BY <1>1, FS_Interval
  <2>3. Cardinality(seen) < Cardinality(0 .. i)
    BY <1>1, <2>2, FS_CardinalityType
  <2>4. \E n, m \in 0 .. i : n # m /\ f[n] = f[m]
    BY <2>1, <2>2, <2>3, FS_PigeonHole, Zenon
  <2> QED
    BY <1>3, <2>4, Zenon DEF f
<1>5. free \in SUBSET Nat
  BY <1>1
<1>6. PICK n \in free : \A m \in free : n <= m
  BY <1>4, <1>5, LeastElement, Zenon
<1>7. (CHOOSE k \in free : \A m \in free : k <= m) \in free
  BY <1>6, Zenon
<1>8. columnName(columns, i, seen) = choice(CHOOSE k \in free : \A m \in free : k <= m)
  BY Zenon DEF columnName, base
<1> QED
  BY <1>2, <1>7, <1>8, Zenon

(* The loop over the columns computes a name for each of them: the         *)
(* recursion of uniqueColumnNames has a solution.                          *)
LEMMA NamesExist ==
  ASSUME NEW columns \in Seq(Seq(Nat))
  PROVE  \E f : f = [i \in DOMAIN columns |-> columnName(columns, i, {f[j] : j \in 1 .. i - 1})]
<1> DEFINE Name(f, i) == columnName(columns, i, {f[j] : j \in 1 .. i - 1})
           Upto(n) == \E f : f = [i \in 1 .. n |-> Name(f, i)]
           bad == {n \in Nat : ~Upto(n)}
<1>1. Len(columns) \in Nat /\ DOMAIN columns = 1 .. Len(columns)
  BY LenProperties, Zenon
<1>2. Upto(0)
  <2> DEFINE f == [i \in 1 .. 0 |-> 0]
  <2>1. f = [i \in 1 .. 0 |-> Name(f, i)]
    OBVIOUS
  <2> QED
    BY <2>1, Zenon
<1>3. ASSUME NEW n \in Nat, Upto(n) PROVE Upto(n + 1)
  <2>1. PICK f : f = [i \in 1 .. n |-> Name(f, i)]
    BY <1>3, Zenon
  <2> DEFINE g == [i \in 1 .. n + 1 |-> Name(f, i)]
  <2>2. \A i \in 1 .. n : f[i] = Name(f, i)
    BY <2>1, Zenon
  <2>3. \A i \in 1 .. n : g[i] = f[i]
    <3> HIDE DEF Name
    <3> QED
      BY <2>2
  <2>4. \A i \in 1 .. n + 1 : {g[j] : j \in 1 .. i - 1} = {f[j] : j \in 1 .. i - 1}
    <3> HIDE DEF g
    <3> SUFFICES ASSUME NEW i \in 1 .. n + 1
                 PROVE  {g[j] : j \in 1 .. i - 1} = {f[j] : j \in 1 .. i - 1}
      BY Zenon
    <3>1. \A j \in 1 .. i - 1 : j \in 1 .. n
      OBVIOUS
    <3>2. \A j \in 1 .. i - 1 : g[j] = f[j]
      BY <2>3, <3>1, Zenon
    <3> QED
      BY <3>2, Zenon
  <2>5. \A i \in 1 .. n + 1 : Name(f, i) = Name(g, i)
    BY <2>4, Zenon
  <2>6. g = [i \in 1 .. n + 1 |-> Name(g, i)]
    <3> HIDE DEF Name
    <3> QED
      BY <2>5, Zenon
  <2> QED
    BY <2>6, Zenon
<1>4. bad = {}
  <2> HIDE DEF Upto
  <2> SUFFICES ASSUME bad # {} PROVE FALSE
    OBVIOUS
  <2>1. PICK n \in bad : \A m \in bad : n <= m
    BY LeastElement, Zenon
  <2>2. n \in Nat /\ n # 0
    BY <1>2, Zenon
  <2>3. n - 1 \in Nat /\ Upto(n - 1)
    BY <2>1, <2>2
  <2>4. Upto((n - 1) + 1)
    BY <1>3, <2>3, Zenon
  <2> QED
    BY <2>2, <2>4
<1>5. Upto(Len(columns))
  <2> HIDE DEF Upto
  <2> QED
    BY <1>1, <1>4, Zenon
<1> QED
  BY <1>1, <1>5, Zenon

(* Two fields of the parquet schema never share a name (uniqueColumnNames: *)
(* "A generated name is checked for collisions too").                      *)
LEMMA NamesDiffer ==
  ASSUME NEW columns \in Seq(Seq(Nat))
  PROVE  IsInjective(uniqueColumnNames(columns))
<1> DEFINE u == uniqueColumnNames(columns)
           seen(i) == {u[j] : j \in 1 .. i - 1}
<1>1. u = [i \in DOMAIN columns |-> columnName(columns, i, seen(i))]
  BY NamesExist, ZenonT(20) DEF uniqueColumnNames
<1>2. Len(columns) \in Nat /\ DOMAIN columns = 1 .. Len(columns)
  BY LenProperties, Zenon
<1>3. DOMAIN u = DOMAIN columns /\ \A i \in DOMAIN columns : u[i] = columnName(columns, i, seen(i))
  BY <1>1, Zenon
<1> HIDE DEF u
<1>4. ASSUME NEW i \in DOMAIN columns PROVE u[i] \notin seen(i)
  <2> DEFINE f == [j \in 1 .. i - 1 |-> u[j]]
  <2>1. i \in Nat /\ i - 1 \in Nat
    BY <1>2
  <2>2. f \in Surjection(1 .. i - 1, seen(i))
    <3>1. f \in [1 .. i - 1 -> seen(i)] /\ \A t \in seen(i) : \E s \in 1 .. i - 1 : f[s] = t
      OBVIOUS
    <3> QED
      BY <3>1, Fun_IsSurj, Zenon
  <2>3. IsFiniteSet(1 .. i - 1) /\ Cardinality(1 .. i - 1) = i - 1
    BY <2>1, FS_Interval, SMTT(20)
  <2>4. IsFiniteSet(seen(i)) /\ Cardinality(seen(i)) <= i - 1
    BY <2>2, <2>3, FS_Surjection
  <2> HIDE DEF seen
  <2>5. Cardinality(seen(i)) < i
    BY <2>1, <2>4, FS_CardinalityType
  <2>6. columnName(columns, i, seen(i)) \notin seen(i)
    BY <2>4, <2>5, NameIsNew, Zenon
  <2> QED
    BY <1>3, <2>6, Zenon
<1>5. ASSUME NEW i \in DOMAIN u, NEW j \in DOMAIN u, u[i] = u[j], i < j PROVE FALSE
  BY <1>2, <1>3, <1>4, <1>5
<1> QED
  BY <1>2, <1>3, <1>5 DEF IsInjective, u

-----------------------------------------------------------------------------
(* What the encoder writes, and what the backend keeps of it.              *)

(* A row is stored as a piece of its own. *)
LEMMA RowType ==
  ASSUME NEW format \in {"csv", "jsonl", "parquet"}, NEW rows \in Seq({"nil", "int", "text"}),
         NEW i \in 1 .. Len(rows)
  PROVE  Row(format, rows, i) \in Nat \X {"header", "footer", "nil", "int", "text"}
<1> DEFINE kind == columnKind(SubSeq(rows, 1, IF Len(rows) < Sample THEN Len(rows) ELSE Sample))
<1>1. kind \in {"int", "text"}
  BY Zenon DEF columnKind
<1> HIDE DEF kind
<1>2. rows[i] \in {"nil", "int", "text"} /\ i \in Nat
  BY ElementOfSeq
<1> QED
  BY <1>1, <1>2, Zenon DEF Row, kind

(* Each turn of the loop adds the piece of one row. *)
LEMMA EncodedGrows ==
  ASSUME NEW format \in {"csv", "jsonl", "parquet"}, NEW rows \in Seq({"nil", "int", "text"}),
         NEW n \in 0 .. Len(rows)
  PROVE  /\ Encoded(format, rows, n) \in Content
         /\ n < Len(rows) =>
              Encoded(format, rows, n + 1) = Append(Encoded(format, rows, n), Row(format, rows, n + 1))
<1> DEFINE P == Nat \X {"header", "footer", "nil", "int", "text"}
           head == IF format = "csv" THEN <<Header>> ELSE <<>>
           body(k) == [i \in 1 .. k |-> Row(format, rows, i)]
<1>1. Len(rows) \in Nat
  BY LenProperties, Zenon
<1>2. head \in Seq(P)
  BY DEF Header
<1>3. ASSUME NEW k \in 0 .. Len(rows) PROVE body(k) \in Seq(P) /\ Len(body(k)) = k
  <2>1. \A i \in 1 .. k : Row(format, rows, i) \in P
    BY <1>1, RowType
  <2> HIDE DEF P
  <2> QED
    BY <1>1, <2>1
<1>4. Encoded(format, rows, n) \in Seq(P)
  <2> HIDE DEF P, head, body
  <2>1. Encoded(format, rows, n) = head \o body(n)
    BY Zenon DEF Encoded, head, body
  <2> QED
    BY <1>2, <1>3, <2>1, ConcatProperties, Zenon
<1>5. ASSUME n < Len(rows)
      PROVE  Encoded(format, rows, n + 1) = Append(Encoded(format, rows, n), Row(format, rows, n + 1))
  <2>1. n + 1 \in 1 .. Len(rows) /\ n + 1 \in 0 .. Len(rows)
    BY <1>1, <1>5
  <2>2. body(n + 1) = Append(body(n), Row(format, rows, n + 1))
    <3>1. Row(format, rows, n + 1) \in P
      BY <2>1, RowType, Zenon
    <3> HIDE DEF P
    <3>2. /\ Append(body(n), Row(format, rows, n + 1)) \in Seq(P)
          /\ Len(Append(body(n), Row(format, rows, n + 1))) = n + 1
          /\ \A i \in 1 .. n : Append(body(n), Row(format, rows, n + 1))[i] = body(n)[i]
          /\ Append(body(n), Row(format, rows, n + 1))[n + 1] = Row(format, rows, n + 1)
      <4> HIDE DEF body
      <4> QED
        BY <1>3, <3>1, AppendProperties
    <3>3. \A i \in 1 .. n + 1 : body(n + 1)[i] = Append(body(n), Row(format, rows, n + 1))[i]
      BY <3>2
    <3>4. body(n + 1) \in Seq(P) /\ Len(body(n + 1)) = n + 1
      BY <1>3, <2>1, Zenon
    <3> HIDE DEF body
    <3> QED
      BY <3>2, <3>3, <3>4, SeqEqual, Zenon
  <2>3. Row(format, rows, n + 1) \in P
    BY <2>1, RowType, Zenon
  <2>4. body(n) \in Seq(P)
    BY <1>3, Zenon
  <2> HIDE DEF P, head, body
  <2>5. head \o Append(body(n), Row(format, rows, n + 1)) = Append(head \o body(n), Row(format, rows, n + 1))
    BY <1>2, <2>3, <2>4
  <2> QED
    BY <2>2, <2>5, Zenon DEF Encoded, head, body
<1> QED
  BY <1>4, <1>5, Zenon DEF Content

(* Before the loop only a header is there, after it all but the footer. *)
LEMMA EncodedBounds ==
  ASSUME NEW format \in {"csv", "jsonl", "parquet"}, NEW rows \in Seq({"nil", "int", "text"})
  PROVE  /\ Encoded(format, rows, 0) = IF format = "csv" THEN <<Header>> ELSE <<>>
         /\ Encoded(format, rows, Len(rows)) \o (IF format = "parquet" THEN <<Footer>> ELSE <<>>)
              = Stored(format, rows)
         /\ Stored(format, rows) \in Content
<1> DEFINE P == Nat \X {"header", "footer", "nil", "int", "text"}
           body(k) == [i \in 1 .. k |-> Row(format, rows, i)]
           foot == IF format = "parquet" THEN <<Footer>> ELSE <<>>
<1>1. Len(rows) \in Nat /\ DOMAIN rows = 1 .. Len(rows)
  BY LenProperties, Zenon
<1>2. Encoded(format, rows, Len(rows)) \in Seq(P)
  BY <1>1, EncodedGrows DEF Content
<1>3. <<Header>> \in Seq(P) /\ foot \in Seq(P)
  BY DEF Header, Footer
<1>4. body(Len(rows)) \in Seq(P)
  <2>1. \A i \in 1 .. Len(rows) : Row(format, rows, i) \in P
    BY <1>1, RowType, Zenon
  <2> HIDE DEF P
  <2> QED
    BY <1>1, <2>1
<1>5. Encoded(format, rows, 0) = IF format = "csv" THEN <<Header>> ELSE <<>>
  <2>1. body(0) = <<>>
    OBVIOUS
  <2> HIDE DEF body, P
  <2>2. <<Header>> \o <<>> = <<Header>> /\ <<>> \o <<>> = <<>>
    BY <1>3, ConcatEmptySeq
  <2> QED
    BY <2>1, <2>2, Zenon DEF Encoded, body
<1>6. Stored(format, rows) =
        CASE format = "csv" -> <<Header>> \o body(Len(rows))
          [] format = "jsonl" -> body(Len(rows))
          [] format = "parquet" -> body(Len(rows)) \o <<Footer>>
  BY <1>1, Zenon DEF Stored, Row
<1>7. Encoded(format, rows, Len(rows)) \o foot = Stored(format, rows)
  <2>1. Encoded(format, rows, Len(rows)) = IF format = "csv" THEN <<Header>> \o body(Len(rows)) ELSE <<>> \o body(Len(rows))
    BY Zenon DEF Encoded
  <2> HIDE DEF body, P
  <2>2. <<>> \o body(Len(rows)) = body(Len(rows))
    BY <1>4, ConcatEmptySeq, Zenon
  <2>3. Encoded(format, rows, Len(rows)) \o <<>> = Encoded(format, rows, Len(rows))
    BY <1>2, ConcatEmptySeq, Zenon
  <2> QED
    BY <1>6, <2>1, <2>2, <2>3, Zenon
<1>8. Stored(format, rows) \in Content
  <2> HIDE DEF P, foot
  <2>1. Encoded(format, rows, Len(rows)) \o foot \in Seq(P)
    BY <1>2, <1>3, ConcatProperties, Zenon
  <2> QED
    BY <1>7, <2>1, Zenon DEF P, Content
<1> QED
  BY <1>5, <1>7, <1>8, Zenon

(* Contents are closed under concatenation. *)
LEMMA ContentConcat ==
  /\ <<>> \in Content
  /\ \A s, t \in Content : s \o t \in Content
  /\ \A s \in Content : s \o <<>> = s /\ <<>> \o s = s
  /\ \A s, t, u \in Content : (s \o t) \o u = s \o (t \o u)
  /\ \A s, t \in Content, p \in Nat \X {"header", "footer", "nil", "int", "text"} :
       s \o Append(t, p) = Append(s \o t, p)
<1> DEFINE P == Nat \X {"header", "footer", "nil", "int", "text"}
<1>1. Content = Seq(P)
  BY Zenon DEF Content
<1> HIDE DEF P
<1>2. \A s, t \in Content, p \in P : s \o Append(t, p) = Append(s \o t, p)
  BY <1>1
<1>3. <<>> \in Content /\ \A s, t \in Content : s \o t \in Content
  BY <1>1, EmptySeq, ConcatProperties, Zenon
<1>4. \A s \in Content : s \o <<>> = s /\ <<>> \o s = s
  BY <1>1, ConcatEmptySeq, Zenon
<1>5. \A s, t, u \in Content : (s \o t) \o u = s \o (t \o u)
  BY <1>1, ConcatAssociative
<1> QED
  BY <1>2, <1>3, <1>4, <1>5, Zenon DEF P

(* A write adds its pieces to what the backend was handed. *)
LEMMA WriteHands ==
  ASSUME job \in Options, object \in Content \cup {Absent}, staged \in Content,
         upload \in {"running", "failed"} \/ job.backend = "fs",
         job.backend # "s3" => object \in Content,
         job' = job, NEW pieces \in Content, Write(pieces)
  PROVE  /\ upload # "failed"
         /\ object' \in Content \cup {Absent} /\ staged' \in Content
         /\ job.backend # "s3" => object' \in Content
         /\ job.backend = "fs" => staged' = staged
         /\ Handed \in Content
         /\ Handed' = Handed \o pieces
<1>1. job.backend \in {"fs", "s3", "clickhouse"}
  BY Zenon DEF Options
<1>2. upload # "failed"
  BY Zenon DEF Write
<1>3. CASE job.backend = "fs"
  <2>1. object' = object \o pieces /\ staged' = staged /\ object \in Content
    BY <1>3, Zenon DEF Write
  <2>2. object \o pieces \in Content
    BY <2>1, ConcatProperties, Zenon DEF Content
  <2> QED
    BY <1>2, <1>3, <2>1, <2>2, Zenon DEF Handed
<1>4. CASE job.backend = "s3"
  <2>1. staged' = staged \o pieces /\ object' = object
    BY <1>4, Zenon DEF Write
  <2>2. staged \o pieces \in Content
    BY ConcatProperties, Zenon DEF Content
  <2> QED
    BY <1>2, <1>4, <2>1, <2>2, Zenon DEF Handed
<1>5. CASE job.backend = "clickhouse"
  <2>1. object \in Content
    BY <1>5, Zenon
  <2>2. \/ object' = object \o (staged \o pieces) /\ staged' = <<>>
        \/ object' = object /\ staged' = staged \o pieces
    BY <1>5, Zenon DEF Write
  <2>3. /\ staged \o pieces \in Content /\ <<>> \in Content
        /\ object \o (staged \o pieces) \in Content /\ object \o staged \in Content
    BY <2>1, ContentConcat, Zenon
  <2>4. (object \o staged) \o pieces = object \o (staged \o pieces)
    BY <2>1, ContentConcat, ZenonT(20)
  <2>5. (object \o (staged \o pieces)) \o <<>> = object \o (staged \o pieces)
    BY <2>3, ContentConcat, ZenonT(20)
  <2> QED
    BY <1>2, <1>5, <2>1, <2>2, <2>3, <2>4, <2>5, ZenonT(20) DEF Handed
<1> QED
  BY <1>1, <1>3, <1>4, <1>5, Zenon

(* The converters and the sampled kinds agree on the piece of a row. *)
LEMMA PieceIsRow ==
  ASSUME job \in Options, next \in 1 .. Len(job.rows), Piece[2] # Unconvertible
  PROVE  Piece = Row(job.format, job.rows, next)
<1>1. Kind \in {"int", "text"}
  BY Zenon DEF Kind, columnKind
<1>2. job.rows[next] \in {"nil", "int", "text"} /\ job.format \in {"csv", "jsonl", "parquet"}
  BY ElementOfSeq, Zenon DEF Options
<1>3. Row(job.format, job.rows, next) =
        <<next, CASE job.format = "csv"     -> "text"
                  [] job.format = "jsonl"   -> job.rows[next]
                  [] job.format = "parquet" -> IF job.rows[next] = "nil" THEN "nil" ELSE Kind>>
  BY Zenon DEF Row, Kind
<1> QED
  BY <1>1, <1>2, <1>3, Zenon DEF Piece, toString, converterFor, Unconvertible

(* The budget of a pass ends before its lock does. *)
LEMMA BudgetBelowLock == gcBudget \in Nat /\ gcLockTTL \in Nat /\ gcBudget <= gcLockTTL
BY SizesArePositive DEF gcBudget, gcLockTTL

-----------------------------------------------------------------------------
(* The inductive invariant, action by action.                              *)

(* An execution starts with nothing encoded, stored or referenced. *)
LEMMA InitIInv == Init => IInv
<1> SUFFICES ASSUME Init PROVE IInv
  OBVIOUS
<1> USE DEF Init
<1>1. job \in Options
  BY JobsAreOptions, Zenon
<1>2. <<>> \in Content /\ Len(job.rows) \in Nat
  BY <1>1, EmptySeq, LenProperties, Zenon DEF Content, Options
<1>3. Idle \in Pass
  BY BudgetBelowLock DEF Idle, Pass
<1>4. TypeOK
  <2>1. rec \in QueryRecord
    BY Zenon DEF Record, QueryRecord, QueryState, QueryError
  <2>2. lock \in 0 .. gcLockTTL /\ next \in 1 .. Len(job.rows) + 1
    BY <1>2, BudgetBelowLock
  <2>3. gc \in [Collector -> Pass] /\ reader \in [pc : {"idle", "found", "serving"}, got : Content]
    BY <1>2, <1>3, Zenon
  <2>4. object \in Content \cup {Absent}
    BY <1>2, Zenon DEF NoObject
  <2> QED
    BY <1>1, <1>2, <2>1, <2>2, <2>3, <2>4, Zenon DEF TypeOK, WPC
<1>5. IsInjective(names)
  BY DEF IsInjective
<1>6. WholeOrNothing
  BY <1>4, <1>5, Zenon DEF WholeOrNothing, Record
<1>7. NothingDropped
  BY <1>2, Zenon DEF NothingDropped, NoObject
<1>8. LockOutlasts /\ OneCollector /\ StoredIsReferenced
  BY DEF LockOutlasts, OneCollector, StoredIsReferenced, InPass, Idle
<1>9. ReferenceComesLast /\ PassIsCurrent
  BY Zenon DEF ReferenceComesLast, PassIsCurrent, Record, NoRecord, Idle, Collecting, InPass
<1> QED
  BY <1>6, <1>7, <1>8, <1>9, Zenon DEF IInv

(* The part of the types that the execution's steps can disturb. *)
RunTypeOK ==
  /\ job \in Options
  /\ wpc \in WPC
  /\ next \in 1 .. Len(job.rows) + 1
  /\ buffer \in Content /\ (buffer # <<>> => wpc = "encode")
  /\ staged \in Content /\ (staged # <<>> => upload = "running")
  /\ upload \in {"none", "running", "failed"}
  /\ upload # "none" => wpc \in {"schema", "encode", "close"} /\ job.backend # "fs"
  /\ object \in Content \cup {Absent}
  /\ verdict \in {"SUCCEEDED", "FAILED"}
  /\ lost \in BOOLEAN

(* The steps of an execution before its verdict: the record, a download    *)
(* and the collectors do not know of its object yet.                       *)
LEMMA BeforeVerdict ==
  ASSUME IInv, wpc # "over", wpc' # "over",
         job'.backend = job.backend, job'.format = job.format, job'.rows = job.rows,
         UNCHANGED <<rec, due, gcVars, reader>>, lost => lost',
         wpc' = "settle" /\ verdict' = "FAILED" /\ ~lost' => object' = NoObject',
         RunTypeOK', IsInjective(names)', NothingDropped'
  PROVE  IInv'
<1> USE DEF gcVars
<1>1. rec.state # "SUCCEEDED" /\ reader.pc # "found"
  BY Zenon DEF IInv, ReferenceComesLast
<1>2. TypeOK'
  BY Zenon DEF IInv, WholeOrNothing, TypeOK, RunTypeOK, Pass
<1>3. WholeOrNothing'
  BY <1>1, <1>2, Zenon DEF IInv, WholeOrNothing
<1>4. StoredIsReferenced'
  BY Zenon DEF StoredIsReferenced
<1>5. OneCollector' /\ LockOutlasts'
  BY Zenon DEF IInv, OneCollector, LockOutlasts, InPass
<1>6. ReferenceComesLast'
  BY <1>1, Zenon DEF IInv, ReferenceComesLast
<1>7. PassIsCurrent'
  BY <1>1, Zenon DEF PassIsCurrent
<1> QED
  BY <1>3, <1>4, <1>5, <1>6, <1>7, Zenon DEF IInv

(* Opening a writer: the field names it computes differ from each other. *)
LEMMA WriterIInv == IInv /\ Writer => IInv'
<1> SUFFICES ASSUME IInv, Writer PROVE IInv'
  OBVIOUS
<1> USE DEF runVars, gcVars
<1>1. TypeOK /\ NothingDropped /\ wpc = "run"
  BY Zenon DEF IInv, WholeOrNothing, Writer
<1>2. /\ job' \in Options /\ job'.backend = job.backend /\ job'.format = job.format /\ job'.rows = job.rows
      /\ job.columns \in Seq(Seq(Nat)) /\ job.backend \in {"fs", "s3", "clickhouse"}
      /\ job.format \in {"csv", "jsonl", "parquet"} /\ job.rows \in Seq({"nil", "int", "text"})
  BY <1>1, EmptySeq, Zenon DEF TypeOK, Options, Writer
<1>3. /\ buffer = <<>> /\ staged = <<>> /\ upload = "none" /\ next = 1 /\ object = NoObject
      /\ NoObject' = NoObject
  BY <1>1, <1>2, Zenon DEF TypeOK, NothingDropped, NoObject
<1>4. UNCHANGED <<next, staged, rec, due, lost, gcVars, reader>>
  BY Zenon DEF Writer
<1>5. <<>> \in Content /\ <<Header>> \in Content /\ <<>> \o <<>> = <<>>
  BY EmptySeq DEF Content, Header
<1>6. CASE wpc' = IF job.format = "parquet" THEN "schema" ELSE "encode"
  <2>1. /\ object' = IF job.backend = "fs" THEN <<>> ELSE object
        /\ upload' = IF job.backend = "fs" THEN "none" ELSE "running"
        /\ buffer' = IF job.format = "csv" THEN <<Header>> ELSE <<>>
        /\ names' = IF job.format = "parquet" THEN uniqueColumnNames(job.columns) ELSE <<>>
        /\ verdict' = verdict
    BY <1>6, Zenon DEF Writer, Fail
  <2>2. IsInjective(names)'
    <3>1. IsInjective(<<>>)
      BY DEF IsInjective
    <3> QED
      BY <1>2, <2>1, <3>1, NamesDiffer, Zenon
  <2>3. RunTypeOK'
    BY <1>1, <1>2, <1>3, <1>4, <1>5, <1>6, <2>1, Zenon DEF TypeOK, RunTypeOK, WPC
  <2>4. Handed' = <<>>
    BY <1>2, <1>3, <1>4, <1>5, <2>1, Zenon DEF Handed, NoObject
  <2>5. wpc' = "encode" => Handed' \o buffer' = Encoded(job'.format, job'.rows, next' - 1)
    <3>1. Encoded(job.format, job.rows, 0) = buffer'
      BY <1>2, <2>1, EncodedBounds, Zenon
    <3>2. <<>> \o buffer' = buffer'
      BY <1>5, <2>1, ConcatEmptySeq, Zenon DEF Content
    <3> QED
      BY <1>2, <1>3, <1>4, <2>4, <3>1, <3>2
  <2>6. NothingDropped'
    BY <1>2, <1>3, <1>4, <1>5, <1>6, <2>1, <2>4, <2>5, Zenon DEF NothingDropped, NoObject
  <2> QED
    BY <1>1, <1>2, <1>4, <1>6, <2>2, <2>3, <2>6, BeforeVerdict, Zenon
<1>7. CASE Fail("settle") /\ UNCHANGED <<object, upload, buffer, names>>
  <2>1. RunTypeOK'
    BY <1>1, <1>2, <1>3, <1>4, <1>7, Zenon DEF TypeOK, RunTypeOK, WPC, Fail
  <2>2. NothingDropped'
    BY <1>1, <1>2, <1>3, <1>4, <1>7, Zenon DEF NothingDropped, Fail
  <2> QED
    BY <1>1, <1>2, <1>3, <1>4, <1>7, <2>1, <2>2, BeforeVerdict, Zenon
      DEF IInv, WholeOrNothing, IsInjective, Fail
<1> QED
  BY <1>6, <1>7, Zenon DEF Writer

(* The schema is never refused for a repeated name. *)
LEMMA BuildSchemaIInv == IInv /\ BuildSchema => IInv'
<1> SUFFICES ASSUME IInv, BuildSchema PROVE IInv'
  OBVIOUS
<1> USE DEF runVars, gcVars
<1>1. TypeOK /\ NothingDropped /\ wpc = "schema" /\ IsInjective(names)
  BY Zenon DEF IInv, WholeOrNothing, BuildSchema
<1>2. /\ wpc' = "encode" /\ verdict' = verdict /\ names' = <<>>
      /\ UNCHANGED <<job, next, buffer, staged, upload, object, rec, due, lost, gcVars, reader>>
  BY <1>1, Zenon DEF BuildSchema
<1>3. RunTypeOK' /\ IsInjective(names)'
  BY <1>1, <1>2 DEF TypeOK, RunTypeOK, WPC, IsInjective
<1>4. Handed' = Handed
  BY <1>2, Zenon DEF Handed
<1>5. upload # "failed" => Handed' \o buffer' = Encoded(job'.format, job'.rows, next' - 1)
  <2>1. next = 1 /\ job.format = "parquet" /\ buffer = <<>> /\ (upload # "failed" => Handed = <<>>)
    BY <1>1, Zenon DEF TypeOK, NothingDropped
  <2>2. Encoded(job.format, job.rows, 0) = <<>>
    BY <1>1, <2>1, EncodedBounds, Zenon DEF TypeOK, Options
  <2>3. <<>> \o <<>> = <<>>
    BY EmptySeq
  <2> QED
    BY <1>2, <1>4, <2>1, <2>2, <2>3
<1>6. NothingDropped'
  BY <1>1, <1>2, <1>5, Zenon DEF NothingDropped
<1> QED
  BY <1>1, <1>2, <1>3, <1>6, BeforeVerdict, Zenon

(* A turn of the loop: one more row is buffered or handed on, none is dropped. *)
LEMMA EncodeRowIInv == IInv /\ EncodeRow => IInv'
<1> SUFFICES ASSUME IInv, EncodeRow PROVE IInv'
  OBVIOUS
<1> USE DEF runVars, gcVars
<1> DEFINE row == Row(job.format, job.rows, next)
<1>1. TypeOK /\ NothingDropped /\ wpc = "encode" /\ IsInjective(names)
  BY Zenon DEF IInv, WholeOrNothing, EncodeRow
<1>2. next' = next + 1 /\ UNCHANGED <<job, wpc, names, upload, verdict, rec, due, lost, gcVars, reader>>
  BY Zenon DEF EncodeRow
<1>3. /\ job.format \in {"csv", "jsonl", "parquet"} /\ job.rows \in Seq({"nil", "int", "text"})
      /\ Len(job.rows) \in Nat /\ next \in 1 .. Len(job.rows) /\ next - 1 \in 0 .. Len(job.rows)
  BY <1>1, LenProperties DEF TypeOK, Options, EncodeRow
<1>4. Piece = row /\ row \in Nat \X {"header", "footer", "nil", "int", "text"}
  BY <1>1, <1>3, PieceIsRow, RowType, Zenon DEF EncodeRow, TypeOK
<1> HIDE DEF row
<1>5. Append(buffer, row) \in Content
  BY <1>1, <1>4, AppendProperties, Zenon DEF TypeOK, Content
<1>6. Encoded(job.format, job.rows, next) = Append(Encoded(job.format, job.rows, next - 1), row)
  <2>1. next - 1 < Len(job.rows) /\ (next - 1) + 1 = next
    BY <1>3
  <2> QED
    BY <1>3, <2>1, EncodedGrows, Zenon DEF row
<1>7. /\ upload \in {"running", "failed"} \/ job.backend = "fs"
      /\ job.backend # "s3" => object \in Content
      /\ object \in Content \cup {Absent} /\ staged \in Content /\ job \in Options
      /\ job.backend \in {"fs", "s3", "clickhouse"}
  BY <1>1, Zenon DEF TypeOK, NothingDropped, Options
<1>8. /\ buffer' \in Content /\ object' \in Content \cup {Absent} /\ staged' \in Content
      /\ job.backend # "s3" => object' \in Content
      /\ staged' # <<>> => upload = "running"
      /\ upload # "failed" => Handed' \o buffer' = Encoded(job.format, job.rows, next)
  <2>1. Handed \in Content
    BY <1>7, ConcatProperties, Zenon DEF Handed, Content
  <2>2. upload # "failed" => Handed \o Append(buffer, row) = Encoded(job.format, job.rows, next)
    <3>1. Handed \o Append(buffer, row) = Append(Handed \o buffer, row)
      <4>1. buffer \in Content
        BY <1>1, Zenon DEF TypeOK
      <4> QED
        BY <1>4, <2>1, <4>1, ContentConcat, Zenon
    <3> QED
      BY <1>1, <1>6, <3>1, Zenon DEF NothingDropped
  <2>3. CASE Write(Append(buffer, row)) /\ buffer' = <<>>
    <3>1. /\ upload # "failed"
          /\ object' \in Content \cup {Absent} /\ staged' \in Content
          /\ job.backend # "s3" => object' \in Content
          /\ job.backend = "fs" => staged' = staged
          /\ Handed' = Handed \o Append(buffer, row)
      BY <1>2, <1>5, <1>7, <2>3, WriteHands, Zenon
    <3>2. Handed' \o <<>> = Handed' /\ <<>> \in Content
      <4>1. Handed \o Append(buffer, row) \in Content /\ <<>> \in Content
        BY <1>5, <2>1, ConcatProperties, EmptySeq, Zenon DEF Content
      <4> QED
        BY <3>1, <4>1, ContentConcat, Zenon
    <3> QED
      BY <1>1, <1>7, <2>2, <2>3, <3>1, <3>2, Zenon DEF TypeOK
  <2>4. CASE buffer' = Append(buffer, row) /\ UNCHANGED <<staged, object>>
    <3>1. Handed' = Handed
      BY <1>2, <2>4, Zenon DEF Handed
    <3> QED
      BY <1>1, <1>5, <1>7, <2>2, <2>4, <3>1, Zenon DEF TypeOK
  <2> QED
    BY <1>4, <2>3, <2>4, Zenon DEF EncodeRow
<1>9. RunTypeOK'
  BY <1>1, <1>2, <1>3, <1>8 DEF TypeOK, RunTypeOK
<1>10. NothingDropped'
  <2>1. next' - 1 = next
    BY <1>2, <1>3
  <2> QED
    BY <1>1, <1>2, <1>8, <2>1, Zenon DEF NothingDropped
<1> QED
  BY <1>1, <1>2, <1>9, <1>10, BeforeVerdict, Zenon DEF IsInjective

(* A failed encoding decides the verdict before anything can claim a whole result. *)
LEMMA EncodeFailsIInv == IInv /\ EncodeFails => IInv'
<1> SUFFICES ASSUME IInv, EncodeFails PROVE IInv'
  OBVIOUS
<1> USE DEF runVars, gcVars, EncodeFails, Fail
<1>1. TypeOK /\ NothingDropped /\ IsInjective(names)
  BY Zenon DEF IInv, WholeOrNothing
<1>2. RunTypeOK'
  BY <1>1, LenProperties, EmptySeq DEF TypeOK, RunTypeOK, WPC, Options, Content
<1>3. NothingDropped'
  BY <1>1, Zenon DEF NothingDropped
<1> QED
  BY <1>1, <1>2, <1>3, BeforeVerdict, Zenon DEF IsInjective

(* The flush and the footer complete what the backend was handed. *)
LEMMA EncodeEndsIInv == IInv /\ EncodeEnds => IInv'
<1> SUFFICES ASSUME IInv, EncodeEnds PROVE IInv'
  OBVIOUS
<1> USE DEF runVars, gcVars
<1> DEFINE foot == IF job.format = "parquet" THEN <<Footer>> ELSE <<>>
<1>1. TypeOK /\ NothingDropped /\ wpc = "encode" /\ IsInjective(names)
  BY Zenon DEF IInv, WholeOrNothing, EncodeEnds
<1>2. /\ wpc' = "close" /\ next' = 1 /\ buffer' = <<>>
      /\ UNCHANGED <<job, names, upload, verdict, rec, due, lost, gcVars, reader>>
  BY Zenon DEF EncodeEnds
<1>3. /\ job.format \in {"csv", "jsonl", "parquet"} /\ job.rows \in Seq({"nil", "int", "text"})
      /\ Len(job.rows) \in Nat /\ next - 1 = Len(job.rows) /\ <<>> \in Content
  BY <1>1, LenProperties, EmptySeq, SMTT(20) DEF TypeOK, Options, EncodeEnds, Content
<1>4. foot \in Content
  <2>1. <<Footer>> \in Content
    BY DEF Footer, Content
  <2> QED
    BY <1>3, <2>1, Zenon
<1> HIDE DEF foot
<1>5. buffer \o foot \in Content
  BY <1>1, <1>4, ConcatProperties, Zenon DEF TypeOK, Content
<1>6. /\ upload \in {"running", "failed"} \/ job.backend = "fs"
      /\ job.backend # "s3" => object \in Content
      /\ object \in Content \cup {Absent} /\ staged \in Content /\ job \in Options
      /\ job.backend \in {"fs", "s3", "clickhouse"}
  BY <1>1, Zenon DEF TypeOK, NothingDropped, Options
<1>7. Handed \in Content
  BY <1>6, ConcatProperties, Zenon DEF Handed, Content
<1>8. upload # "failed" => Handed \o (buffer \o foot) = Stored(job.format, job.rows)
  <2>1. Handed \o (buffer \o foot) = (Handed \o buffer) \o foot
    <3>1. buffer \in Content
      BY <1>1, Zenon DEF TypeOK
    <3> QED
      BY <1>4, <1>7, <3>1, ContentConcat, Zenon
  <2>2. Encoded(job.format, job.rows, Len(job.rows)) \o foot = Stored(job.format, job.rows)
    BY <1>3, EncodedBounds, Zenon DEF foot
  <2> QED
    BY <1>1, <1>3, <2>1, <2>2, Zenon DEF NothingDropped
<1>9. /\ object' \in Content \cup {Absent} /\ staged' \in Content
      /\ job.backend # "s3" => object' \in Content
      /\ staged' # <<>> => upload = "running"
      /\ upload # "failed" => Handed' = Stored(job.format, job.rows)
  <2>1. CASE buffer \o foot = <<>> /\ UNCHANGED <<staged, object>>
    <3>1. Handed' = Handed /\ Handed \o <<>> = Handed
      BY <1>2, <1>7, <2>1, ConcatEmptySeq, Zenon DEF Handed, Content
    <3> QED
      BY <1>1, <1>6, <1>8, <2>1, <3>1, Zenon DEF TypeOK
  <2>2. CASE Write(buffer \o foot)
    <3>1. /\ upload # "failed"
          /\ object' \in Content \cup {Absent} /\ staged' \in Content
          /\ job.backend # "s3" => object' \in Content
          /\ job.backend = "fs" => staged' = staged
          /\ Handed' = Handed \o (buffer \o foot)
      BY <1>2, <1>5, <1>6, <2>2, WriteHands, Zenon
    <3> QED
      BY <1>1, <1>6, <1>8, <3>1, Zenon DEF TypeOK
  <2> QED
    BY <2>1, <2>2, Zenon DEF EncodeEnds, foot
<1>10. RunTypeOK'
  BY <1>1, <1>2, <1>3, <1>9 DEF TypeOK, RunTypeOK, WPC
<1>11. NothingDropped'
  BY <1>1, <1>2, <1>9, Zenon DEF NothingDropped
<1> QED
  BY <1>1, <1>2, <1>10, <1>11, BeforeVerdict, Zenon DEF IsInjective

(* A goroutine that fails takes the uncommitted pieces with it, and writes are refused. *)
LEMMA UploadFailsIInv == IInv /\ UploadFails => IInv'
<1> SUFFICES ASSUME IInv, UploadFails PROVE IInv'
  OBVIOUS
<1> USE DEF runVars, gcVars, UploadFails
<1>1. TypeOK /\ NothingDropped /\ IsInjective(names)
  BY Zenon DEF IInv, WholeOrNothing
<1>2. wpc \in {"schema", "encode", "close"} /\ wpc' = wpc
  BY <1>1, Zenon DEF TypeOK
<1>3. RunTypeOK'
  BY <1>1, <1>2, EmptySeq, Zenon DEF TypeOK, RunTypeOK, Content
<1>4. NothingDropped'
  BY <1>1, <1>2, Zenon DEF NothingDropped
<1> QED
  BY <1>1, <1>2, <1>3, <1>4, BeforeVerdict, Zenon DEF IsInjective

(* Close succeeds only with everything handed over in the object. *)
LEMMA CloseWriterIInv == IInv /\ CloseWriter => IInv'
<1> SUFFICES ASSUME IInv, CloseWriter PROVE IInv'
  OBVIOUS
<1> USE DEF runVars, gcVars
<1>1. TypeOK /\ NothingDropped /\ IsInjective(names) /\ wpc = "close"
  BY Zenon DEF IInv, WholeOrNothing, CloseWriter
<1>2. /\ staged' = <<>> /\ upload' = "none"
      /\ UNCHANGED <<job, next, names, buffer, rec, due, lost, gcVars, reader>>
  BY Zenon DEF CloseWriter
<1>3. /\ job.backend \in {"fs", "s3", "clickhouse"} /\ staged \in Content /\ <<>> \in Content
      /\ buffer = <<>> /\ verdict \in {"SUCCEEDED", "FAILED"} /\ object \in Content \cup {Absent}
  BY <1>1, ContentConcat, Zenon DEF TypeOK, Options
<1>4. /\ object' \in Content \cup {Absent}
      /\ job.backend = "clickhouse" => object' \in Content
      /\ wpc' \in {"settle", "cleanup"} /\ verdict' \in {"SUCCEEDED", "FAILED"}
      /\ wpc' = "settle" => verdict' = "SUCCEEDED" /\ object' = Stored(job.format, job.rows)
      /\ wpc' = "cleanup" => verdict' = "FAILED"
  <2>1. CASE /\ upload # "failed" /\ object' = Handed
             /\ wpc' = IF verdict = "SUCCEEDED" THEN "settle" ELSE "cleanup"
             /\ verdict' = verdict
    <3>1. Handed \in Content \cup {Absent} /\ (job.backend = "clickhouse" => Handed \in Content)
      BY <1>1, <1>3, ContentConcat, Zenon DEF NothingDropped, Handed
    <3> QED
      BY <1>1, <1>3, <2>1, <3>1, Zenon DEF NothingDropped
  <2>2. CASE object' = object /\ wpc' = "cleanup" /\ verdict' = "FAILED"
    BY <1>1, <1>3, <2>2, Zenon DEF NothingDropped
  <2> QED
    BY <1>3, <2>1, <2>2, Zenon DEF CloseWriter, Handed, Fail
<1>5. RunTypeOK'
  BY <1>1, <1>2, <1>3, <1>4, Zenon DEF TypeOK, RunTypeOK, WPC
<1>6. NothingDropped'
  BY <1>2, <1>4, Zenon DEF NothingDropped
<1> QED
  BY <1>1, <1>2, <1>4, <1>5, <1>6, BeforeVerdict, Zenon DEF IsInjective

(* The clean-up of a failed execution leaves nothing, or loses the reference. *)
LEMMA deletePartialIInv == IInv /\ deletePartial => IInv'
<1> SUFFICES ASSUME IInv, deletePartial PROVE IInv'
  OBVIOUS
<1> USE DEF runVars, gcVars, deletePartial
<1>1. TypeOK /\ NothingDropped /\ IsInjective(names) /\ wpc = "cleanup"
  BY Zenon DEF IInv, WholeOrNothing
<1>2. RunTypeOK'
  BY <1>1, EmptySeq, Zenon DEF TypeOK, RunTypeOK, WPC, NoObject, Content
<1>3. NothingDropped'
  BY <1>1, EmptySeq, Zenon DEF NothingDropped, NoObject, Content
<1>4. NoObject' = NoObject
  BY Zenon DEF NoObject
<1> QED
  BY <1>1, <1>2, <1>3, <1>4, BeforeVerdict DEF IsInjective

(* A crash at any point before the verdict. *)
LEMMA CrashIInv == IInv /\ Crash => IInv'
<1> SUFFICES ASSUME IInv, Crash PROVE IInv'
  OBVIOUS
<1> USE DEF runVars, gcVars, Crash
<1>1. TypeOK /\ NothingDropped
  BY Zenon DEF IInv, WholeOrNothing
<1>2. RunTypeOK'
  BY <1>1, LenProperties, EmptySeq DEF TypeOK, RunTypeOK, WPC, Options, Content
<1>3. NothingDropped'
  BY <1>1, Zenon DEF NothingDropped
<1>4. IsInjective(names)'
  BY DEF IsInjective
<1> QED
  BY <1>2, <1>3, <1>4, BeforeVerdict, Zenon

(* The verdict refers to a whole result or to none. *)
LEMMA completeIInv == IInv /\ complete => IInv'
<1> SUFFICES ASSUME IInv, complete PROVE IInv'
  OBVIOUS
<1> USE DEF runVars, gcVars
<1>1. /\ TypeOK /\ NothingDropped /\ IsInjective(names) /\ ReferenceComesLast /\ PassIsCurrent
      /\ WholeOrNothing /\ wpc = "settle"
  BY Zenon DEF IInv, WholeOrNothing, complete
<1>2. wpc' = "over" /\ UNCHANGED <<job, next, names, buffer, staged, upload, verdict, object, gcVars, reader>>
  BY Zenon DEF complete
<1>3. /\ rec.state # "SUCCEEDED" /\ ~rec.result /\ reader.pc # "found"
      /\ \A c \in Collector : ~gc[c].rec.result
      /\ verdict \in {"SUCCEEDED", "FAILED"}
  BY <1>1, Zenon DEF ReferenceComesLast, TypeOK, QueryRecord, NoRecord, Record, Pass
<1>4. \/ /\ rec'.state = verdict /\ rec'.result = (verdict = "SUCCEEDED") /\ rec' \in QueryRecord
         /\ due' = FALSE
         /\ lost' = (lost \/ \E c \in Collector : Collecting(c))
      \/ lost' = TRUE /\ UNCHANGED <<rec, due>>
  BY <1>3, Zenon DEF complete, Record, QueryRecord, QueryState, QueryError
<1>5. RunTypeOK'
  BY <1>1, <1>2, <1>4, Zenon DEF TypeOK, RunTypeOK, WPC
<1>6. TypeOK'
  <2>1. rec' \in QueryRecord \cup {NoRecord} /\ due' \in BOOLEAN /\ (due' => IsTerminal(rec'.state))
    <3>1. CASE rec' \in QueryRecord /\ due' = FALSE
      BY <3>1, Zenon
    <3>2. CASE UNCHANGED <<rec, due>>
      BY <1>1, <3>2, Zenon DEF TypeOK
    <3> QED
      BY <1>4, <3>1, <3>2, Zenon
  <2> QED
    BY <1>1, <1>2, <1>5, <2>1, Zenon DEF TypeOK, RunTypeOK, Pass
<1>7. NothingDropped'
  BY <1>1, <1>2, Zenon DEF NothingDropped
<1>8. rec'.state = "SUCCEEDED" => rec'.result /\ object' = Stored(job'.format, job'.rows)
  BY <1>1, <1>2, <1>3, <1>4, Zenon DEF NothingDropped
<1>9. WholeOrNothing'
  BY <1>1, <1>2, <1>3, <1>6, <1>8, Zenon DEF WholeOrNothing, IsInjective
<1>10. StoredIsReferenced'
  BY <1>1, <1>2, <1>3, <1>4, ZenonT(20) DEF StoredIsReferenced, PassIsCurrent, NoObject
<1>11. OneCollector' /\ LockOutlasts'
  BY <1>2, Zenon DEF IInv, OneCollector, LockOutlasts, InPass
<1>12. ReferenceComesLast'
  BY <1>2, <1>3, <1>8, Zenon DEF ReferenceComesLast
<1>13. PassIsCurrent'
  BY <1>2, <1>3, <1>4, Zenon DEF PassIsCurrent, Collecting, InPass
<1> QED
  BY <1>7, <1>9, <1>10, <1>11, <1>12, <1>13, Zenon DEF IInv

(* Steps of others leave what the execution holds as it is. *)
LEMMA RunStands ==
  ASSUME TypeOK, NothingDropped, IsInjective(names), UNCHANGED runVars, lost' = lost,
         \/ object' = object
         \/ wpc = "over" /\ object' = NoObject
  PROVE  RunTypeOK' /\ NothingDropped' /\ IsInjective(names)' /\ NoObject' = NoObject
<1> USE DEF runVars
<1>1. NoObject' = NoObject /\ NoObject \in Content \cup {Absent}
  BY EmptySeq, Zenon DEF NoObject, Content
<1>2. job.backend = "clickhouse" => NoObject \in Content
  BY EmptySeq, Zenon DEF NoObject, Content
<1>3. RunTypeOK'
  BY <1>1, Zenon DEF TypeOK, RunTypeOK
<1>4. IsInjective(names)'
  BY Zenon DEF IsInjective
<1>5. NothingDropped'
  BY <1>1, <1>2, ZenonT(20) DEF NothingDropped, Handed
<1> QED
  BY <1>1, <1>3, <1>4, <1>5, Zenon

(* A reaper's verdict replaces a RUNNING record only, which refers to nothing. *)
LEMMA failOwnerLostIInv == IInv /\ failOwnerLost => IInv'
<1> SUFFICES ASSUME IInv, failOwnerLost PROVE IInv'
  OBVIOUS
<1> USE DEF gcVars, failOwnerLost
<1>1. TypeOK /\ NothingDropped /\ IsInjective(names) /\ WholeOrNothing
  BY Zenon DEF IInv, WholeOrNothing
<1>2. RunTypeOK' /\ NothingDropped' /\ IsInjective(names)' /\ NoObject' = NoObject
  BY <1>1, RunStands, Zenon
<1>3. rec'.state = "FAILED" /\ rec' \in QueryRecord /\ ~rec'.result
  BY Zenon DEF Record, QueryRecord, QueryState, QueryError
<1>4. job' = job /\ wpc' = wpc /\ verdict' = verdict
  BY Zenon DEF runVars
<1>5. TypeOK'
  BY <1>1, <1>2, <1>3, Zenon DEF TypeOK, RunTypeOK, Pass
<1>6. WholeOrNothing'
  BY <1>1, <1>2, <1>3, <1>4, <1>5, Zenon DEF WholeOrNothing
<1>7. wpc = "over" => lost
  BY Zenon DEF IInv, PassIsCurrent
<1>8. StoredIsReferenced' /\ PassIsCurrent'
  BY <1>2, <1>3, <1>4, <1>7, Zenon DEF StoredIsReferenced, PassIsCurrent, IInv
<1>9. OneCollector' /\ LockOutlasts'
  BY Zenon DEF IInv, OneCollector, LockOutlasts, InPass
<1>10. ReferenceComesLast'
  BY <1>2, <1>3, <1>4, Zenon DEF IInv, ReferenceComesLast
<1> QED
  BY <1>2, <1>6, <1>8, <1>9, <1>10, Zenon DEF IInv

(* Time: the retention, the lock and the budgets run down. *)
LEMMA TimeIInv == IInv /\ (RetentionPasses \/ Tick) => IInv'
<1>1. ASSUME IInv, RetentionPasses PROVE IInv'
  <2> USE DEF gcVars, RetentionPasses
  <2>1. TypeOK /\ NothingDropped /\ IsInjective(names) /\ WholeOrNothing
    BY <1>1, Zenon DEF IInv, WholeOrNothing
  <2>2. RunTypeOK' /\ NothingDropped' /\ IsInjective(names)' /\ NoObject' = NoObject
    BY <1>1, <2>1, RunStands, Zenon
  <2>3. job' = job /\ wpc' = wpc /\ verdict' = verdict
    BY <1>1, Zenon DEF runVars
  <2>4. TypeOK'
    BY <1>1, <2>1, <2>2, Zenon DEF TypeOK, RunTypeOK, Pass
  <2>5. WholeOrNothing' /\ StoredIsReferenced' /\ OneCollector' /\ LockOutlasts' /\ ReferenceComesLast'
    BY <1>1, <2>2, <2>3, <2>4, Zenon
    DEF IInv, WholeOrNothing, StoredIsReferenced, OneCollector, LockOutlasts, InPass, ReferenceComesLast
  <2>6. PassIsCurrent'
    BY <1>1, <2>2, <2>3, Zenon DEF IInv, PassIsCurrent, Collecting, InPass
  <2> QED
    BY <2>2, <2>5, <2>6, Zenon DEF IInv
<1>2. ASSUME IInv, Tick PROVE IInv'
  <2>1. TypeOK /\ NothingDropped /\ IsInjective(names) /\ WholeOrNothing
    BY <1>2, Zenon DEF IInv, WholeOrNothing
  <2>2. UNCHANGED <<runVars, object, rec, due, lost, reader>>
    BY <1>2, Zenon DEF Tick
  <2>3. RunTypeOK' /\ NothingDropped' /\ IsInjective(names)' /\ NoObject' = NoObject
    BY <2>1, <2>2, RunStands, Zenon
  <2>4. job' = job /\ wpc' = wpc /\ verdict' = verdict
    BY <2>2, Zenon DEF runVars
  <2>5. lock \in Nat /\ lock' = (IF lock > 0 THEN lock - 1 ELSE 0) /\ lock' \in 0 .. gcLockTTL
    BY <1>2, <2>1, BudgetBelowLock DEF Tick, TypeOK
  <2>6. \A c \in Collector :
          /\ gc[c].left \in Nat /\ gc'[c].left = (IF gc[c].left > 0 THEN gc[c].left - 1 ELSE 0)
          /\ gc'[c].pc = gc[c].pc /\ gc'[c].rec = gc[c].rec /\ gc'[c] \in Pass
    BY <1>2, <2>1, BudgetBelowLock DEF Tick, TypeOK, Pass
  <2>7. gc' \in [Collector -> Pass]
    BY <1>2, <2>6, Zenon DEF Tick
  <2>8. TypeOK'
    BY <2>1, <2>2, <2>3, <2>5, <2>7, Zenon DEF TypeOK, RunTypeOK
  <2>9. WholeOrNothing' /\ StoredIsReferenced'
    BY <1>2, <2>2, <2>3, <2>4, <2>8, Zenon DEF IInv, WholeOrNothing, StoredIsReferenced
  <2>10. OneCollector'
    BY <1>2, <2>6, SMTT(20) DEF IInv, OneCollector, InPass
  <2>11. LockOutlasts'
    BY <1>2, <2>5, <2>6 DEF IInv, LockOutlasts
  <2>12. ReferenceComesLast'
    BY <1>2, <2>2, <2>3, <2>4, <2>6, Zenon DEF IInv, ReferenceComesLast
  <2>13. PassIsCurrent'
    <3>1. \A c \in Collector : (Collecting(c)' <=> Collecting(c)) /\ (InPass(c)' => InPass(c))
      BY <2>6 DEF Collecting, InPass
    <3>2. PassIsCurrent
      BY <1>2, Zenon DEF IInv
    <3> QED
      BY <2>2, <2>3, <2>4, <2>6, <3>1, <3>2, Zenon DEF PassIsCurrent
  <2> QED
    BY <2>3, <2>9, <2>10, <2>11, <2>12, <2>13, Zenon DEF IInv
<1> QED
  BY <1>1, <1>2, Zenon

(* A collector's steps that change no record and no object: the other      *)
(* collectors keep their passes, its own is typed and has not outrun the   *)
(* lock.                                                                   *)
LEMMA PassMoves ==
  ASSUME IInv, NEW c \in Collector, UNCHANGED <<runVars, object, rec, due, lost, reader>>,
         gc' \in [Collector -> Pass], \A d \in Collector \ {c} : gc'[d] = gc[d],
         lock' \in 0 .. gcLockTTL, LockOutlasts', OneCollector',
         gc'[c].rec.result => wpc = "over",
         gc'[c].pc = "object" /\ gc'[c].rec.result => rec.state # "SUCCEEDED",
         Collecting(c)' /\ rec.state = "SUCCEEDED" => due \/ lost,
         gc'[c].pc \in {"expire", "object"} => gc'[c].rec.result = rec.result,
         gc'[c].pc # "record"
  PROVE  IInv'
<1>1. TypeOK /\ NothingDropped /\ IsInjective(names) /\ WholeOrNothing
  BY Zenon DEF IInv, WholeOrNothing
<1>2. RunTypeOK' /\ NothingDropped' /\ IsInjective(names)' /\ NoObject' = NoObject
  BY <1>1, RunStands, Zenon
<1>3. job' = job /\ wpc' = wpc /\ verdict' = verdict
  BY Zenon DEF runVars
<1>4. TypeOK'
  BY <1>1, <1>2, Zenon DEF TypeOK, RunTypeOK
<1>5. WholeOrNothing' /\ StoredIsReferenced'
  BY <1>2, <1>3, <1>4, Zenon DEF IInv, WholeOrNothing, StoredIsReferenced
<1>6. ReferenceComesLast'
  BY <1>2, <1>3, Zenon DEF IInv, ReferenceComesLast
<1>7. PassIsCurrent'
  <2>1. /\ wpc' = "settle" /\ verdict' = "FAILED" /\ ~lost' => object' = NoObject'
        /\ wpc' = "over" /\ ~lost' => rec'.state # "RUNNING"
    BY <1>2, <1>3, Zenon DEF IInv, PassIsCurrent
  <2>2. ASSUME NEW d \in Collector
        PROVE  /\ Collecting(d)' /\ rec'.state = "SUCCEEDED" => due' \/ lost'
               /\ wpc' = "over" /\ ~lost' /\ InPass(d)' =>
                    /\ gc'[d].pc \in {"expire", "object"} => gc'[d].rec.result = rec'.result
                    /\ gc'[d].pc = "record" => object' = NoObject'
    <3>1. CASE d = c
      BY <3>1, Zenon
    <3>2. CASE d # c
      BY <1>2, <1>3, <3>2, Zenon DEF IInv, PassIsCurrent, Collecting, InPass
    <3> QED
      BY <3>1, <3>2, Zenon
  <2> QED
    BY <2>1, <2>2, Zenon DEF PassIsCurrent
<1> QED
  BY <1>2, <1>5, <1>6, <1>7, Zenon DEF IInv

(* The lock is free only when no pass has time left. *)
LEMMA TryLockIInv == ASSUME NEW c \in Collector PROVE IInv /\ TryLock(c) => IInv'
<1> SUFFICES ASSUME IInv, TryLock(c) PROVE IInv'
  OBVIOUS
<1>1. TypeOK /\ LockOutlasts /\ lock = 0 /\ lock' = gcLockTTL
  BY Zenon DEF IInv, WholeOrNothing, TryLock
<1>2. /\ gc'[c].pc = "list" /\ gc'[c].left = gcBudget /\ gc'[c].rec = NoRecord /\ gc'[c] \in Pass
      /\ gc' \in [Collector -> Pass] /\ \A d \in Collector \ {c} : gc'[d] = gc[d]
  BY <1>1, BudgetBelowLock, SMTT(20) DEF TryLock, TypeOK, Pass
<1>3. \A d \in Collector : gc[d].left = 0
  BY <1>1 DEF TypeOK, Pass, LockOutlasts
<1>4. LockOutlasts' /\ lock' \in 0 .. gcLockTTL
  BY <1>1, <1>2, <1>3, BudgetBelowLock DEF LockOutlasts
<1>5. OneCollector'
  BY <1>2, <1>3 DEF OneCollector, InPass
<1>6. ~gc'[c].rec.result /\ ~Collecting(c)'
  BY <1>2 DEF NoRecord, Record, Collecting
<1> QED
  BY <1>2, <1>4, <1>5, <1>6, PassMoves, Zenon DEF TryLock

(* Only TryLock gives a pass time. *)
LEMMA PassOnly ==
  ASSUME IInv, NEW c \in Collector, lock' = lock, gc' \in [Collector -> Pass],
         \A d \in Collector \ {c} : gc'[d] = gc[d],
         gc'[c].left = 0 \/ (gc'[c].left = gc[c].left /\ gc[c].pc # "idle")
  PROVE  lock' \in 0 .. gcLockTTL /\ LockOutlasts' /\ OneCollector'
<1>1. TypeOK /\ LockOutlasts /\ OneCollector
  BY Zenon DEF IInv, WholeOrNothing
<1>2. lock \in 0 .. gcLockTTL /\ \A d \in Collector : gc[d].left \in Nat
  BY <1>1 DEF TypeOK, Pass
<1>3. LockOutlasts'
  BY <1>1, <1>2, BudgetBelowLock DEF LockOutlasts
<1>4. OneCollector'
  BY <1>1, <1>2 DEF OneCollector, InPass
<1> QED
  BY <1>2, <1>3, <1>4, Zenon

(* What a pass holds before it has read a record, and when it is over. *)
LEMMA ListIInv == ASSUME NEW c \in Collector PROVE IInv /\ ListExpiredQueries(c) => IInv'
<1> SUFFICES ASSUME IInv, ListExpiredQueries(c) PROVE IInv'
  OBVIOUS
<1>1. TypeOK /\ ReferenceComesLast /\ gc[c].pc = "list"
  BY Zenon DEF IInv, WholeOrNothing, ListExpiredQueries
<1>2. /\ gc'[c].pc \in {"read", "idle"} /\ gc'[c].left = gc[c].left /\ gc'[c].rec = gc[c].rec
      /\ gc'[c].pc = "read" => due
      /\ gc' \in [Collector -> Pass] /\ \A d \in Collector \ {c} : gc'[d] = gc[d]
  BY <1>1, Zenon DEF ListExpiredQueries, Goto, TypeOK, Pass
<1>3. lock' \in 0 .. gcLockTTL /\ LockOutlasts' /\ OneCollector'
  BY <1>1, <1>2, PassOnly, Zenon DEF ListExpiredQueries
<1>4. gc'[c].rec.result => wpc = "over"
  BY <1>1, <1>2, Zenon DEF ReferenceComesLast
<1>5. Collecting(c)' => due
  BY <1>2, Zenon DEF Collecting
<1> QED
  BY <1>2, <1>3, <1>4, <1>5, PassMoves, Zenon DEF ListExpiredQueries

(* A pass may end anywhere. *)
LEMMA GCReturnsIInv == ASSUME NEW c \in Collector PROVE IInv /\ GCReturns(c) => IInv'
<1> SUFFICES ASSUME IInv, GCReturns(c) PROVE IInv'
  OBVIOUS
<1>1. TypeOK
  BY Zenon DEF IInv, WholeOrNothing
<1>2. Idle \in Pass /\ Idle.pc = "idle" /\ Idle.left = 0 /\ ~Idle.rec.result
  BY BudgetBelowLock DEF Idle, Pass, NoRecord, Record
<1>3. /\ gc'[c] = Idle /\ gc' \in [Collector -> Pass] /\ \A d \in Collector \ {c} : gc'[d] = gc[d]
  BY <1>1, <1>2, Zenon DEF GCReturns, TypeOK
<1>4. lock' \in 0 .. gcLockTTL /\ LockOutlasts' /\ OneCollector'
  BY <1>2, <1>3, PassOnly, Zenon DEF GCReturns
<1>5. ~Collecting(c)'
  BY <1>2, <1>3, Zenon DEF Collecting
<1> QED
  BY <1>2, <1>3, <1>4, <1>5, PassMoves, Zenon DEF GCReturns

(* The record a pass goes on with is the one that is there. *)
LEMMA GCReadIInv == ASSUME NEW c \in Collector PROVE IInv /\ GCRead(c) => IInv'
<1> SUFFICES ASSUME IInv, GCRead(c) PROVE IInv'
  OBVIOUS
<1>1. TypeOK /\ ReferenceComesLast /\ PassIsCurrent /\ gc[c].pc = "read" /\ Collecting(c)
  BY Zenon DEF IInv, WholeOrNothing, GCRead, Collecting
<1>2. Idle \in Pass /\ Idle.pc = "idle" /\ Idle.left = 0 /\ ~Idle.rec.result
  BY BudgetBelowLock DEF Idle, Pass, NoRecord, Record
<1>3. CASE gc' = [gc EXCEPT ![c] = Idle]
  <2>1. /\ gc'[c] = Idle /\ gc' \in [Collector -> Pass] /\ \A d \in Collector \ {c} : gc'[d] = gc[d]
    BY <1>1, <1>2, <1>3, Zenon DEF TypeOK
  <2>2. lock' \in 0 .. gcLockTTL /\ LockOutlasts' /\ OneCollector'
    BY <1>2, <2>1, PassOnly, Zenon DEF GCRead
  <2>3. ~Collecting(c)'
    BY <1>2, <2>1, Zenon DEF Collecting
  <2> QED
    BY <1>2, <2>1, <2>2, <2>3, PassMoves, Zenon DEF GCRead
<1>4. CASE gc' = [gc EXCEPT ![c].pc = IF rec.state = "EXPIRED" THEN "object" ELSE "expire",
                            ![c].rec = rec]
  <2>1. /\ gc'[c].pc = (IF rec.state = "EXPIRED" THEN "object" ELSE "expire")
        /\ gc'[c].rec = rec /\ gc'[c].left = gc[c].left
        /\ gc' \in [Collector -> Pass] /\ \A d \in Collector \ {c} : gc'[d] = gc[d]
    BY <1>1, <1>4, Zenon DEF TypeOK, Pass
  <2>2. lock' \in 0 .. gcLockTTL /\ LockOutlasts' /\ OneCollector'
    BY <1>1, <2>1, PassOnly, Zenon DEF GCRead
  <2>3. rec.result => wpc = "over"
    BY <1>1, Zenon DEF ReferenceComesLast
  <2>4. rec.state = "SUCCEEDED" => due \/ lost
    BY <1>1, Zenon DEF PassIsCurrent
  <2> QED
    BY <2>1, <2>2, <2>3, <2>4, PassMoves, SMTT(20) DEF GCRead
<1> QED
  BY <1>3, <1>4, Zenon DEF GCRead

(* An EXPIRED record keeps the reference of the one it replaces. *)
LEMMA GCExpireIInv == ASSUME NEW c \in Collector PROVE IInv /\ GCExpire(c) => IInv'
<1> SUFFICES ASSUME IInv, GCExpire(c) PROVE IInv'
  OBVIOUS
<1>1. /\ TypeOK /\ NothingDropped /\ IsInjective(names) /\ WholeOrNothing /\ ReferenceComesLast
      /\ PassIsCurrent /\ StoredIsReferenced /\ OneCollector /\ gc[c].pc = "expire" /\ InPass(c)
  BY Zenon DEF IInv, WholeOrNothing, GCExpire
<1>2. UNCHANGED <<runVars, object, lost, lock, reader>> /\ due' = TRUE
  BY Zenon DEF GCExpire
<1>3. RunTypeOK' /\ NothingDropped' /\ IsInjective(names)' /\ NoObject' = NoObject
  BY <1>1, <1>2, RunStands, Zenon
<1>4. job' = job /\ wpc' = wpc /\ verdict' = verdict
  BY <1>2, Zenon DEF runVars
<1>5. gc[c].rec \in QueryRecord \cup {NoRecord}
  BY <1>1, Zenon DEF TypeOK, Pass
<1>6. rec'.state = "EXPIRED" /\ rec'.result = gc[c].rec.result /\ rec' \in QueryRecord
  <2> DEFINE r == gc[c].rec
  <2>1. /\ r = [state |-> r.state, result |-> r.result, error |-> r.error]
        /\ r.result \in BOOLEAN /\ r.error \in QueryError
    <3>1. CASE r \in QueryRecord
      BY <3>1, Zenon DEF QueryRecord
    <3>2. CASE r = NoRecord
      <4>1. NoRecord = [state |-> "NONE", result |-> FALSE, error |-> "none"]
        BY Zenon DEF NoRecord, Record
      <4> HIDE DEF r
      <4>2. r.state = "NONE" /\ r.result = FALSE /\ r.error = "none"
        BY <3>2, <4>1, Zenon
      <4> QED
        BY <3>2, <4>1, <4>2, Zenon DEF QueryError
    <3> QED
      BY <1>5, <3>1, <3>2, Zenon
  <2>2. rec' = [r EXCEPT !.state = "EXPIRED"]
    BY Zenon DEF GCExpire
  <2> HIDE DEF r
  <2>3. rec' = [state |-> "EXPIRED", result |-> r.result, error |-> r.error]
    BY <2>1, <2>2, Zenon
  <2> QED
    BY <2>1, <2>3, Zenon DEF QueryRecord, QueryState, r
<1>7. /\ gc'[c].pc = "object" /\ gc'[c].left = gc[c].left /\ gc'[c].rec = gc[c].rec
      /\ gc' \in [Collector -> Pass] /\ \A d \in Collector \ {c} : gc'[d] = gc[d]
  BY <1>1, Zenon DEF GCExpire, Goto, TypeOK, Pass
<1>8. TypeOK'
  BY <1>1, <1>2, <1>3, <1>6, <1>7, Zenon DEF TypeOK, RunTypeOK, IsTerminal
<1>9. WholeOrNothing'
  BY <1>1, <1>2, <1>3, <1>4, <1>6, <1>8, Zenon DEF WholeOrNothing
<1>10. wpc = "over" /\ ~lost => gc[c].rec.result = rec.result
  BY <1>1, Zenon DEF PassIsCurrent
<1>11. StoredIsReferenced'
  BY <1>1, <1>2, <1>3, <1>4, <1>6, <1>10, Zenon DEF StoredIsReferenced
<1>12. lock' \in 0 .. gcLockTTL /\ LockOutlasts' /\ OneCollector'
  BY <1>1, <1>2, <1>7, PassOnly, Zenon
<1>13. ReferenceComesLast'
  BY <1>1, <1>2, <1>3, <1>4, <1>6, <1>7, Zenon DEF ReferenceComesLast
<1>14. PassIsCurrent'
  <2>1. \A d \in Collector \ {c} : ~InPass(d)'
    BY <1>1, <1>7, Zenon DEF OneCollector, InPass
  <2> QED
    BY <1>1, <1>2, <1>3, <1>4, <1>6, <1>7, <2>1, Zenon DEF PassIsCurrent
<1> QED
  BY <1>3, <1>9, <1>11, <1>12, <1>13, <1>14, Zenon DEF IInv

(* The object is deleted only after its record has left SUCCEEDED. *)
LEMMA GCDeleteResultIInv == ASSUME NEW c \in Collector PROVE IInv /\ GCDeleteResult(c) => IInv'
<1> SUFFICES ASSUME IInv, GCDeleteResult(c) PROVE IInv'
  OBVIOUS
<1>1. /\ TypeOK /\ NothingDropped /\ IsInjective(names) /\ WholeOrNothing /\ ReferenceComesLast
      /\ PassIsCurrent /\ StoredIsReferenced /\ OneCollector /\ gc[c].pc = "object" /\ InPass(c)
  BY Zenon DEF IInv, WholeOrNothing, GCDeleteResult
<1>2. /\ UNCHANGED <<runVars, rec, due, lost, lock, reader>>
      /\ object' = IF gc[c].rec.result THEN NoObject ELSE object
  BY Zenon DEF GCDeleteResult
<1>3. gc[c].rec.result => wpc = "over" /\ rec.state # "SUCCEEDED"
  BY <1>1, Zenon DEF ReferenceComesLast
<1>4. RunTypeOK' /\ NothingDropped' /\ IsInjective(names)' /\ NoObject' = NoObject
  BY <1>1, <1>2, <1>3, RunStands, Zenon
<1>5. job' = job /\ wpc' = wpc /\ verdict' = verdict
  BY <1>2, Zenon DEF runVars
<1>6. /\ gc'[c].pc = "record" /\ gc'[c].left = gc[c].left /\ gc'[c].rec = gc[c].rec
      /\ gc' \in [Collector -> Pass] /\ \A d \in Collector \ {c} : gc'[d] = gc[d]
  BY <1>1, Zenon DEF GCDeleteResult, Goto, TypeOK, Pass
<1>7. TypeOK'
  BY <1>1, <1>2, <1>4, <1>6, Zenon DEF TypeOK, RunTypeOK
<1>8. WholeOrNothing'
  BY <1>1, <1>2, <1>3, <1>4, <1>5, <1>7, Zenon DEF WholeOrNothing
<1>9. StoredIsReferenced'
  BY <1>1, <1>2, <1>4, <1>5, Zenon DEF StoredIsReferenced
<1>10. lock' \in 0 .. gcLockTTL /\ LockOutlasts' /\ OneCollector'
  BY <1>1, <1>2, <1>6, PassOnly, Zenon
<1>11. ReferenceComesLast'
  BY <1>1, <1>2, <1>3, <1>4, <1>5, <1>6, Zenon DEF ReferenceComesLast
<1>12. wpc = "over" /\ ~lost => object' = NoObject
  <2>1. wpc = "over" /\ ~lost => gc[c].rec.result = rec.result
    BY <1>1, Zenon DEF PassIsCurrent
  <2> QED
    BY <1>1, <1>2, <2>1, Zenon DEF StoredIsReferenced
<1>13. PassIsCurrent'
  <2>1. \A d \in Collector \ {c} : ~InPass(d)'
    BY <1>1, <1>6, Zenon DEF OneCollector, InPass
  <2>2. \A d \in Collector : Collecting(d)' => Collecting(d)
    BY <1>1, <1>6, Zenon DEF Collecting
  <2>3. wpc = "settle" => object' = object
    BY <1>2, <1>3, Zenon
  <2> QED
    BY <1>1, <1>2, <1>4, <1>5, <1>6, <1>12, <2>1, <2>2, <2>3, Zenon DEF PassIsCurrent
<1> QED
  BY <1>4, <1>8, <1>9, <1>10, <1>11, <1>13, Zenon DEF IInv

(* The record is deleted only after its object. *)
LEMMA GCDeleteRecordIInv == ASSUME NEW c \in Collector PROVE IInv /\ GCDeleteRecord(c) => IInv'
<1> SUFFICES ASSUME IInv, GCDeleteRecord(c) PROVE IInv'
  OBVIOUS
<1>1. /\ TypeOK /\ NothingDropped /\ IsInjective(names) /\ WholeOrNothing /\ ReferenceComesLast
      /\ PassIsCurrent /\ StoredIsReferenced /\ OneCollector /\ gc[c].pc = "record" /\ InPass(c)
  BY Zenon DEF IInv, WholeOrNothing, GCDeleteRecord
<1>2. UNCHANGED <<runVars, object, lost, lock, reader>> /\ rec' = NoRecord /\ due' = FALSE
  BY Zenon DEF GCDeleteRecord
<1>3. RunTypeOK' /\ NothingDropped' /\ IsInjective(names)' /\ NoObject' = NoObject
  BY <1>1, <1>2, RunStands, Zenon
<1>4. job' = job /\ wpc' = wpc /\ verdict' = verdict
  BY <1>2, Zenon DEF runVars
<1>5. Idle \in Pass /\ Idle.pc = "idle" /\ Idle.left = 0 /\ ~Idle.rec.result
  BY BudgetBelowLock DEF Idle, Pass, NoRecord, Record
<1>6. rec'.state = "NONE" /\ ~rec'.result
  BY <1>2, Zenon DEF NoRecord, Record
<1>7. /\ gc'[c] = Idle /\ gc' \in [Collector -> Pass] /\ \A d \in Collector \ {c} : gc'[d] = gc[d]
  BY <1>1, <1>5, Zenon DEF GCDeleteRecord, TypeOK
<1>8. TypeOK'
  BY <1>1, <1>2, <1>3, <1>7, ZenonT(20) DEF TypeOK, RunTypeOK
<1>9. WholeOrNothing'
  BY <1>1, <1>2, <1>3, <1>4, <1>6, <1>8, Zenon DEF WholeOrNothing
<1>10. StoredIsReferenced'
  BY <1>1, <1>2, <1>3, <1>4, Zenon DEF StoredIsReferenced, PassIsCurrent
<1>11. lock' \in 0 .. gcLockTTL /\ LockOutlasts' /\ OneCollector'
  BY <1>2, <1>5, <1>7, PassOnly, Zenon
<1>12. ReferenceComesLast'
  BY <1>1, <1>2, <1>3, <1>4, <1>5, <1>6, <1>7, Zenon DEF ReferenceComesLast
<1>13. PassIsCurrent'
  <2>1. \A d \in Collector : ~InPass(d)'
    BY <1>1, <1>5, <1>7, Zenon DEF OneCollector, InPass
  <2> QED
    BY <1>1, <1>2, <1>3, <1>4, <1>6, <2>1, Zenon DEF PassIsCurrent
<1> QED
  BY <1>3, <1>9, <1>10, <1>11, <1>12, <1>13, Zenon DEF IInv

(* Between the look at the record and the opening of the object, the object is deleted or stays. *)
LEMMA DownloadIInv == IInv /\ (DownloadResult \/ OpenReader \/ DownloadEnds) => IInv'
<1> SUFFICES ASSUME IInv, DownloadResult \/ OpenReader \/ DownloadEnds PROVE IInv'
  OBVIOUS
<1>1. TypeOK /\ NothingDropped /\ IsInjective(names) /\ WholeOrNothing /\ ReferenceComesLast
  BY Zenon DEF IInv, WholeOrNothing
<1>2. UNCHANGED <<runVars, object, rec, due, lost, gcVars>>
  BY Zenon DEF DownloadResult, OpenReader, DownloadEnds
<1>3. RunTypeOK' /\ NothingDropped' /\ IsInjective(names)' /\ NoObject' = NoObject
  BY <1>1, <1>2, RunStands, Zenon
<1>4. job' = job /\ wpc' = wpc /\ verdict' = verdict /\ gc' = gc /\ lock' = lock
  BY <1>2, Zenon DEF runVars, gcVars
<1>5. \/ reader'.pc = "idle"
      \/ reader'.pc = "found" /\ rec.state = "SUCCEEDED"
      \/ reader'.pc = "serving" /\ reader.pc = "found" /\ object # Absent /\ reader'.got = object
  BY DEF DownloadResult, OpenReader, DownloadEnds
<1>6. reader' \in [pc : {"idle", "found", "serving"}, got : Content]
  <2>1. object \in Content \cup {Absent} /\ <<>> \in Content
    BY <1>1, ContentConcat, Zenon DEF TypeOK
  <2> QED
    BY <2>1 DEF DownloadResult, OpenReader, DownloadEnds
<1>7. TypeOK'
  BY <1>1, <1>2, <1>3, <1>4, <1>6, Zenon DEF TypeOK, RunTypeOK
<1>8. ReferenceComesLast'
  BY <1>1, <1>2, <1>3, <1>4, <1>5, Zenon DEF ReferenceComesLast
<1>9. WholeOrNothing'
  <2>1. ASSUME reader'.pc = "serving"
        PROVE  reader'.got = Stored(job.format, job.rows) \/ (job.backend = "clickhouse" /\ reader'.got = <<>>)
    <3>1. reader.pc = "found" /\ object # Absent /\ reader'.got = object
      BY <1>5, <2>1, Zenon
    <3>2. object = Stored(job.format, job.rows) \/ object = NoObject
      BY <1>1, <3>1, Zenon DEF ReferenceComesLast
    <3> QED
      BY <3>1, <3>2, Zenon DEF NoObject
  <2> QED
    BY <1>1, <1>2, <1>3, <1>4, <1>7, <2>1, Zenon DEF WholeOrNothing
<1>10. StoredIsReferenced' /\ OneCollector' /\ LockOutlasts' /\ PassIsCurrent'
  BY <1>2, <1>3, <1>4, Zenon
  DEF IInv, StoredIsReferenced, OneCollector, LockOutlasts, PassIsCurrent, InPass, Collecting
<1> QED
  BY <1>3, <1>8, <1>9, <1>10, Zenon DEF IInv

(* Every step preserves the invariant. *)
LEMMA NextIInv == IInv /\ [Next]_vars => IInv'
<1> SUFFICES ASSUME IInv, [Next]_vars PROVE IInv'
  OBVIOUS
<1>1. CASE RunNext
  BY <1>1, WriterIInv, BuildSchemaIInv, EncodeRowIInv, EncodeFailsIInv, EncodeEndsIInv,
     UploadFailsIInv,
     CloseWriterIInv, deletePartialIInv, completeIInv, CrashIInv, failOwnerLostIInv, Zenon
  DEF RunNext
<1>2. CASE RetentionPasses \/ Tick
  BY <1>2, TimeIInv, Zenon
<1>3. ASSUME NEW c \in Collector, GCNext(c) PROVE IInv'
  BY <1>3, TryLockIInv, ListIInv, GCReadIInv, GCExpireIInv, GCDeleteResultIInv, GCDeleteRecordIInv,
     GCReturnsIInv, Zenon
  DEF GCNext
<1>4. CASE DownloadResult \/ OpenReader \/ DownloadEnds
  BY <1>4, DownloadIInv, Zenon
<1>5. CASE UNCHANGED vars
  <2>1. UNCHANGED <<runVars, gcVars, object, rec, due, lost, reader>>
    BY <1>5, Zenon DEF vars
  <2>2. TypeOK /\ NothingDropped /\ IsInjective(names)
    BY Zenon DEF IInv, WholeOrNothing
  <2>3. RunTypeOK' /\ NothingDropped' /\ IsInjective(names)' /\ NoObject' = NoObject
    BY <2>1, <2>2, RunStands, Zenon
  <2>4. job' = job /\ wpc' = wpc /\ verdict' = verdict /\ gc' = gc /\ lock' = lock
    BY <2>1, Zenon DEF runVars, gcVars
  <2>5. TypeOK'
    BY <2>1, <2>2, <2>3, <2>4, Zenon DEF TypeOK, RunTypeOK
  <2>6. WholeOrNothing' /\ ReferenceComesLast'
    BY <2>1, <2>3, <2>4, <2>5, Zenon DEF IInv, WholeOrNothing, ReferenceComesLast
  <2>7. StoredIsReferenced' /\ OneCollector' /\ LockOutlasts' /\ PassIsCurrent'
    BY <2>1, <2>3, <2>4, Zenon
    DEF IInv, StoredIsReferenced, OneCollector, LockOutlasts, PassIsCurrent, InPass, Collecting
  <2> QED
    BY <2>3, <2>6, <2>7, Zenon DEF IInv
<1> QED
  BY <1>1, <1>2, <1>3, <1>4, <1>5, Zenon DEF Next

(* The four facts below hold of every behaviour of the model. *)
LEMMA AlwaysIInv == Spec => []IInv
BY InitIInv, NextIInv, PTL DEF Spec

(***************************************************************************)
(* For every job, every row group and transaction size and any number of   *)
(* collectors: a record says SUCCEEDED only while every row is stored, in  *)
(* order and whole, and a download that was opened serves all of it (or,   *)
(* from ClickHouse after a deletion, nothing).                             *)
(***************************************************************************)
THEOREM AlwaysWholeOrNothing == Spec => []WholeOrNothing
<1>1. IInv => WholeOrNothing
  BY Zenon DEF IInv
<1> QED
  BY <1>1, AlwaysIInv, PTL

(***************************************************************************)
(* Without one of the four faults that lost records, an object that is     *)
(* stored when the execution is over is referenced by the record: nothing  *)
(* is stored that no collector will ever find.                             *)
(***************************************************************************)
THEOREM StoredStaysReferenced == Spec => []StoredIsReferenced
<1>1. IInv => StoredIsReferenced
  BY Zenon DEF IInv
<1> QED
  BY <1>1, AlwaysIInv, PTL

(***************************************************************************)
(* However long the period, two instances never collect at once: three     *)
(* quarters of it, the budget, end before five sixths of it, the lock, do. *)
(***************************************************************************)
THEOREM AlwaysOneCollector == Spec => []OneCollector
<1>1. IInv => OneCollector
  BY Zenon DEF IInv
<1> QED
  BY <1>1, AlwaysIInv, PTL

(***************************************************************************)
(* A collector, or anyone else, takes a record out of SUCCEEDED only after *)
(* its retention, unless the verdict came while the record it replaced was *)
(* being collected.                                                        *)
(***************************************************************************)
THEOREM RetentionAlwaysHonoured == Spec => RetentionIsHonoured
<1>1. IInv /\ [Next]_vars => [rec.state = "SUCCEEDED" /\ rec' # rec => due \/ lost]_vars
  <2> SUFFICES ASSUME IInv, Next, rec.state = "SUCCEEDED", rec' # rec PROVE due \/ lost
    OBVIOUS
  <2>1. wpc = "over" /\ \A c \in Collector : Collecting(c) => due \/ lost
    BY Zenon DEF IInv, ReferenceComesLast, PassIsCurrent
  <2>2. ~RunNext
    <3>1. ~(Writer \/ BuildSchema \/ EncodeRow \/ EncodeFails \/ EncodeEnds \/ UploadFails)
      BY Zenon DEF Writer, BuildSchema, EncodeRow, EncodeFails, EncodeEnds, UploadFails
    <3>2. ~(CloseWriter \/ deletePartial \/ complete \/ Crash \/ failOwnerLost)
      BY <2>1, Zenon DEF CloseWriter, deletePartial, complete, Crash, failOwnerLost
    <3> QED
      BY <3>1, <3>2, Zenon DEF RunNext
  <2>3. ~(RetentionPasses \/ Tick \/ DownloadResult \/ OpenReader \/ DownloadEnds)
    BY Zenon DEF RetentionPasses, Tick, DownloadResult, OpenReader, DownloadEnds
  <2>4. PICK c \in Collector : GCNext(c)
    BY <2>2, <2>3, Zenon DEF Next
  <2>5. GCExpire(c) \/ GCDeleteRecord(c)
    BY <2>4, Zenon DEF GCNext, TryLock, ListExpiredQueries, GCRead, GCDeleteResult, GCReturns
  <2> QED
    BY <2>1, <2>5, Zenon DEF Collecting, GCExpire, GCDeleteRecord
<1> QED
  BY <1>1, AlwaysIInv, PTL DEF Spec, RetentionIsHonoured
=============================================================================
