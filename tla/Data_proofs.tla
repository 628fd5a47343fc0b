---------------------------- MODULE Data_proofs ----------------------------
(* What the gateway's data handling computes, for inputs of any length.    *)
(* The reader behind a download delivers what was asked for of a result of *)
(* any size.  The scanner of sqlguard skips each comment, literal and      *)
(* dollar quote to its end, collects the bare words, and so decides every  *)
(* statement by its lexemes.                                               *)
EXTENDS SqlGuard, Download, FiniteSetTheorems, WellFoundedInduction, TLAPS

(* Induction over the naturals is by the least counterexample. *)
LEMMA LeastElement ==
  ASSUME NEW T \in SUBSET Nat, T # {}
  PROVE  \E n \in T : \A m \in T : n <= m
<1>1. IsWellFoundedOn(OpToRel(<, Nat), Nat)
  BY NatLessThanWellFounded, Zenon
<1>2. PICK x \in T : \A y \in T : <<y, x>> \notin OpToRel(<, Nat)
  BY <1>1, WFMin, Zenon
<1>3. \A y \in T : ~(y < x)
  BY <1>2, Zenon DEF OpToRel
<1> QED
  BY <1>3

(* A set that holds 0 and with every number the next holds them all. *)
LEMMA SetInduction ==
  ASSUME NEW T, 0 \in T, \A n \in Nat : n \in T => n + 1 \in T
  PROVE  \A n \in Nat : n \in T
<1> DEFINE bad == Nat \ T
<1> SUFFICES ASSUME bad # {} PROVE FALSE
  BY Zenon
<1>1. PICK n \in bad : \A m \in bad : n <= m
  BY LeastElement, Zenon
<1>2. n \in Nat /\ n # 0
  BY <1>1, Zenon
<1>3. n - 1 \in Nat /\ n - 1 \notin bad /\ (n - 1) + 1 = n
  BY <1>1, <1>2, SMT
<1> QED
  BY <1>1, <1>3, Zenon

(* A run of the loop whose k-th turn is F[k]. *)
HasRun(S, first, F) ==
  \E g \in [Nat -> S] : g[0] = first /\ \A k \in Nat : g[k + 1] = F[k + 1][g[k]]

(* There is one: the recursion by which the model writes a loop has a solution. *)
LEMMA Iteration ==
  ASSUME NEW S, NEW first \in S, NEW F, F \in [Nat -> [S -> S]]
  PROVE  HasRun(S, first, F)
<1> DEFINE Run(n) == {f \in [0 .. n -> S] : f[0] = first /\ \A k \in 0 .. n - 1 : f[k + 1] = F[k + 1][f[k]]}
           some == {n \in Nat : Run(n) # {}}
           Same(k) == \A n, m \in Nat : k <= n /\ k <= m => \A f \in Run(n), h \in Run(m) : f[k] = h[k]
           same == {k \in Nat : Same(k)}
<1>1. \A n \in Nat : Run(n) # {}
  <2>1. [k \in 0 .. 0 |-> first] \in Run(0)
    OBVIOUS
  <2>2. ASSUME NEW n \in Nat, NEW f \in Run(n)
        PROVE  \E h : h \in Run(n + 1)
    <3> DEFINE h == [k \in 0 .. n + 1 |-> IF k = n + 1 THEN F[n + 1][f[n]] ELSE f[k]]
    <3>1. f \in [0 .. n -> S] /\ f[0] = first /\ \A k \in 0 .. n - 1 : f[k + 1] = F[k + 1][f[k]]
      OBVIOUS
    <3>2. F[n + 1][f[n]] \in S
      BY <3>1
    <3>3. h \in [0 .. n + 1 -> S] /\ h[0] = first
      BY <3>1, <3>2
    <3>4. \A k \in 0 .. n : h[k + 1] = F[k + 1][h[k]]
      <4> SUFFICES ASSUME NEW k \in 0 .. n PROVE h[k + 1] = F[k + 1][h[k]]
        OBVIOUS
      <4>1. h[k] = f[k]
        OBVIOUS
      <4>2. CASE k = n
        BY <4>1, <4>2
      <4>3. CASE k # n
        BY <3>1, <4>1, <4>3
      <4> QED
        BY <4>2, <4>3, Zenon
    <3> HIDE DEF h
    <3>5. (n + 1) - 1 = n
      OBVIOUS
    <3>6. h \in Run(n + 1)
      BY <3>3, <3>4, <3>5, Zenon
    <3> QED
      BY <3>6, Zenon
  <2> HIDE DEF Run
  <2>3. 0 \in some
    BY <2>1, Zenon
  <2>4. \A n \in Nat : n \in some => n + 1 \in some
    BY <2>2
  <2>5. \A n \in Nat : n \in some
    <3> HIDE DEF some
    <3> QED
      BY <2>3, <2>4, SetInduction, Zenon
  <2> QED
    BY <2>5, Zenon
<1>2. \A k \in Nat : Same(k)
  <2>1. Same(0)
    BY Zenon
  <2>2. ASSUME NEW k \in Nat, Same(k) PROVE Same(k + 1)
    <3> SUFFICES ASSUME NEW n \in Nat, NEW m \in Nat, k + 1 <= n, k + 1 <= m,
                        NEW f \in Run(n), NEW h \in Run(m)
                 PROVE  f[k + 1] = h[k + 1]
      BY Zenon
    <3>1. k <= n /\ k <= m /\ k \in 0 .. n - 1 /\ k \in 0 .. m - 1
      OBVIOUS
    <3>2. f[k] = h[k]
      <4> HIDE DEF Run
      <4> QED
        BY <2>2, <3>1
    <3>3. f[k + 1] = F[k + 1][f[k]] /\ h[k + 1] = F[k + 1][h[k]]
      BY <3>1, Zenon
    <3> QED
      BY <3>2, <3>3, Zenon
  <2> HIDE DEF Same
  <2>3. 0 \in same /\ \A k \in Nat : k \in same => k + 1 \in same
    BY <2>1, <2>2
  <2>4. \A k \in Nat : k \in same
    <3> HIDE DEF same
    <3> QED
      BY <2>3, SetInduction, Zenon
  <2> QED
    BY <2>4, Zenon
<1> DEFINE run(n) == CHOOSE f \in Run(n) : TRUE
           g == [n \in Nat |-> run(n)[n]]
<1>3. \A n \in Nat : run(n) \in Run(n)
  BY <1>1, Zenon
<1>4. \A n \in Nat : g[n] \in S
  BY <1>3
<1>5. g[0] = first
  BY <1>3, Zenon
<1>6. \A k \in Nat : g[k + 1] = F[k + 1][g[k]]
  <2> SUFFICES ASSUME NEW k \in Nat PROVE g[k + 1] = F[k + 1][g[k]]
    BY Zenon
  <2>1. k \in 0 .. (k + 1) - 1 /\ k + 1 \in Nat /\ k <= k /\ k <= k + 1
    OBVIOUS
  <2>2. run(k + 1)[k + 1] = F[k + 1][run(k + 1)[k]]
    BY <1>3, <2>1, Zenon
  <2>3. run(k + 1)[k] = run(k)[k]
    <3> HIDE DEF run, Run
    <3> QED
      BY <1>2, <1>3, <2>1
  <2> HIDE DEF run
  <2> QED
    BY <2>1, <2>2, <2>3, Zenon
<1> HIDE DEF run
<1>7. g \in [Nat -> S]
  BY <1>4, Zenon
<1> QED
  BY <1>5, <1>6, <1>7, Zenon DEF HasRun

-----------------------------------------------------------------------------
(* The reader behind a download.                                           *)

(* What a sectionReadCloser holds, and the body it has delivered so far. *)
Section == [at : Nat, offset : Int, read : Nat, done : BOOLEAN, body : Seq(Int)]

(* What one Read does to each field, by where the skip ends. *)
SectionEffect(size, limit, s, at, n, r) ==
  /\ r \in Section
  /\ at > size \/ (at <= size /\ limit > 0 /\ s.read >= limit) =>
       r.done /\ r.read = s.read /\ r.body = s.body
  /\ at <= size /\ ~(limit > 0 /\ s.read >= limit) =>
       /\ n \in Nat
       /\ r.at = at + n /\ Most(r.offset, 0) = 0 /\ r.read = s.read + n
       /\ r.done = (n = 0 \/ (limit > 0 /\ s.read + n >= limit))
       /\ r.body = s.body \o [i \in 1 .. n |-> at + i - 1]

(* A Read has that effect. *)
LEMMA SectionReadFields ==
  ASSUME NEW size \in Nat, NEW limit \in Int, NEW s \in Section,
         NEW at, at = s.at + Most(s.offset, 0),
         NEW n, n = Least(IF limit > 0 THEN Least(Buffer, limit - s.read) ELSE Buffer, Least(Chunk, size - at)),
         NEW r, r = SectionRead(size, limit, s)
  PROVE  SectionEffect(size, limit, s, at, n, r)
<1> DEFINE skip == Most(s.offset, 0)
           more == [i \in 1 .. n |-> at + i - 1]
           over == n = 0 \/ (limit > 0 /\ s.read + n >= limit)
<1>1. /\ s.at \in Nat /\ s.offset \in Int /\ s.read \in Nat /\ s.body \in Seq(Int)
      /\ s = [at |-> s.at, offset |-> s.offset, read |-> s.read, done |-> s.done, body |-> s.body]
  BY Zenon DEF Section
<1>2. skip \in Nat /\ at \in Nat /\ Most(s.offset - skip, 0) = 0 /\ s.offset - skip \in Int
  BY <1>1 DEF Most
<1>3. ASSUME at > size
      PROVE  r \in Section /\ r.done /\ r.read = s.read /\ r.body = s.body
  <2>1. r = [s EXCEPT !.at = size, !.done = TRUE]
    BY <1>2, <1>3 DEF SectionRead
  <2> HIDE DEF skip
  <2> QED
    BY <1>1, <1>2, <1>3, <2>1, Zenon DEF Section
<1>4. ASSUME at <= size, limit > 0, s.read >= limit
      PROVE  r \in Section /\ r.done /\ r.read = s.read /\ r.body = s.body
  <2>1. ~(at > size)
    BY <1>2, <1>4
  <2>2. r = [s EXCEPT !.at = at, !.offset = 0, !.done = TRUE]
    BY <1>4, <2>1, Zenon DEF SectionRead
  <2> HIDE DEF skip
  <2>3. r = [at |-> at, offset |-> 0, read |-> s.read, done |-> TRUE, body |-> s.body]
    BY <1>1, <2>2, Zenon
  <2> QED
    BY <1>1, <1>2, <2>3 DEF Section
<1>5. ASSUME at <= size, ~(limit > 0 /\ s.read >= limit)
      PROVE  /\ r \in Section /\ n \in Nat
             /\ r.at = at + n /\ Most(r.offset, 0) = 0 /\ r.read = s.read + n
             /\ r.done = over /\ r.body = s.body \o more
  <2>1. r = [at |-> at + n, offset |-> s.offset - skip, read |-> s.read + n,
             done |-> over, body |-> s.body \o more]
    BY <1>2, <1>5 DEF SectionRead
  <2>2. n \in Nat
    <3>1. Buffer \in Nat /\ Chunk \in Nat /\ size - at \in Nat /\ (limit > 0 => limit - s.read \in Nat)
      <4>1. Buffer \in Nat /\ Chunk \in Nat
        BY DownloadAssumption, Zenon
      <4>2. s.read \in Nat /\ at \in Nat
        BY <1>1, <1>2, Zenon
      <4>3. size - at \in Nat /\ (limit > 0 => limit - s.read \in Nat)
        BY <4>2, <1>5
      <4> QED
        BY <4>1, <4>3, Zenon
    <3>2. \A a, b \in Nat : Least(a, b) \in Nat
      BY DEF Least
    <3> QED
      BY <3>1, <3>2, Zenon
  <2>3. more \in Seq(Int)
    BY <1>2, <2>2
  <2>4. over \in BOOLEAN
    BY Zenon
  <2> HIDE DEF skip, more, over
  <2>5. s.body \o more \in Seq(Int)
    BY <1>1, <2>3
  <2>6. at + n \in Nat /\ s.read + n \in Nat
    BY <1>1, <1>2, <2>2
  <2>7. r \in Section
    BY <1>2, <2>1, <2>5, <2>4, <2>6 DEF Section
  <2> QED
    BY <1>2, <2>1, <2>2, <2>7
<1>6. at > size \/ at <= size
  BY <1>2
<1> QED
  BY <1>3, <1>4, <1>5, <1>6, Zenon DEF SectionEffect

(* The reader after k + 1 calls is the one after k and, unless that was    *)
(* the last, one more Read.                                                *)
LEMMA SectionRuns ==
  ASSUME NEW size \in Nat, NEW offset \in Int, NEW limit \in Int
  PROVE  /\ SectionAfter(size, offset, limit, 0) = OpenSection(offset)
         /\ \A k \in Nat :
              LET s == SectionAfter(size, offset, limit, k)
              IN  /\ s \in Section
                  /\ SectionAfter(size, offset, limit, k + 1) =
                       IF s.done THEN s ELSE SectionRead(size, limit, s)
<1> DEFINE turn(s) == IF s.done THEN s ELSE SectionRead(size, limit, s)
           F == [k \in Nat |-> [s \in Section |-> turn(s)]]
           IsRun(g) == g = [k \in Nat |-> IF k = 0 THEN OpenSection(offset)
                                          ELSE IF g[k - 1].done THEN g[k - 1]
                                          ELSE SectionRead(size, limit, g[k - 1])]
           after == CHOOSE g : IsRun(g)
<1>1. OpenSection(offset) \in Section
  BY DEF OpenSection, Section
<1>2. \A s \in Section : turn(s) \in Section
  BY SectionReadFields DEF SectionEffect
<1> HIDE DEF turn
<1>3. F \in [Nat -> [Section -> Section]]
  BY <1>2, Zenon
<1>4. \A k \in Nat, s \in Section : F[k + 1][s] = turn(s)
  OBVIOUS
<1> HIDE DEF F
<1>5. PICK g \in [Nat -> Section] : g[0] = OpenSection(offset) /\ \A k \in Nat : g[k + 1] = F[k + 1][g[k]]
  <2>1. HasRun(Section, OpenSection(offset), F)
    BY <1>1, <1>3, Iteration, Zenon
  <2> QED
    BY <2>1, Zenon DEF HasRun
<1>6. \A k \in Nat : g[k + 1] = turn(g[k])
  BY <1>4, <1>5, Zenon
<1>7. \A k \in Nat : g[k] = IF k = 0 THEN OpenSection(offset) ELSE turn(g[k - 1])
  <2> SUFFICES ASSUME NEW k \in Nat, k # 0 PROVE g[k] = turn(g[k - 1])
    BY <1>5, Zenon
  <2>1. k - 1 \in Nat /\ (k - 1) + 1 = k
    OBVIOUS
  <2> QED
    BY <1>6, <2>1, Zenon
<1>8. IsRun(g)
  BY <1>5, <1>7, Zenon DEF turn
<1>9. IsRun(after)
  <2> HIDE DEF IsRun
  <2> QED
    BY <1>8, Zenon
<1>10. \A n : SectionAfter(size, offset, limit, n) = after[n]
  BY Zenon DEF SectionAfter
<1> HIDE DEF after
<1>11. after[0] = OpenSection(offset)
  BY <1>9, Zenon
<1>12. \A k \in Nat : after[k + 1] = turn(after[k])
  <2> SUFFICES ASSUME NEW k \in Nat PROVE after[k + 1] = turn(after[k])
    OBVIOUS
  <2>1. k + 1 \in Nat /\ k + 1 # 0 /\ (k + 1) - 1 = k
    OBVIOUS
  <2>2. after[k + 1] = turn(after[(k + 1) - 1])
    BY <1>9, <2>1, Zenon DEF turn
  <2> QED
    BY <2>1, <2>2, Zenon
<1>13. \A k \in Nat : after[k] \in Section
  <2> DEFINE T == {k \in Nat : after[k] \in Section}
  <2>1. 0 \in T /\ \A k \in Nat : k \in T => k + 1 \in T
    BY <1>1, <1>2, <1>11, <1>12
  <2> HIDE DEF T
  <2>2. \A k \in Nat : k \in T
    BY <2>1, SetInduction, Zenon
  <2> QED
    BY <2>2, Zenon DEF T
<1> QED
  BY <1>10, <1>11, <1>12, <1>13, Zenon DEF turn

(* A slice and the one that begins where it ends. *)
LEMMA SliceConcat ==
  ASSUME NEW from \in Nat, NEW m \in Nat, NEW n \in Nat
  PROVE  [i \in 1 .. m |-> from + i - 1] \o [i \in 1 .. n |-> (from + m) + i - 1] =
           [i \in 1 .. m + n |-> from + i - 1]
  OBVIOUS

(* How many positions there are to deliver. *)
SectionLength(size, offset, limit) ==
  LET there == Most(size - Most(offset, 0), 0)
  IN  IF limit > 0 THEN Least(there, limit) ELSE there

(* A reader after k calls: it has delivered the positions from the offset  *)
(* on, at least one with every call until its end, and at its end as many  *)
(* as the limit and the size allow.                                        *)
SectionSound(size, offset, limit, k, s) ==
  /\ s \in Section
  /\ s.body = [i \in 1 .. s.read |-> Most(offset, 0) + i - 1]
  /\ s.done => s.read = SectionLength(size, offset, limit)
  /\ ~ s.done =>
       /\ k <= s.read /\ s.read <= SectionLength(size, offset, limit)
       /\ s.at + Most(s.offset, 0) = Most(offset, 0) + s.read

(* A Read of a sound reader leaves it sound. *)
LEMMA SectionStep ==
  ASSUME NEW size \in Nat, NEW offset \in Int, NEW limit \in Int, NEW k \in Nat,
         NEW s, SectionSound(size, offset, limit, k, s), ~ s.done,
         NEW r, r = SectionRead(size, limit, s)
  PROVE  SectionSound(size, offset, limit, k + 1, r)
<1> DEFINE from == Most(offset, 0)
           there == Most(size - from, 0)
           all == SectionLength(size, offset, limit)
           at == s.at + Most(s.offset, 0)
           room == IF limit > 0 THEN Least(Buffer, limit - s.read) ELSE Buffer
           n == Least(room, Least(Chunk, size - at))
<1>1. from \in Nat /\ there \in Nat /\ all = (IF limit > 0 THEN Least(there, limit) ELSE there)
  BY DEF Most, Least, SectionLength
<1>2. there = size - from \/ (there = 0 /\ size < from)
  BY DEF Most
<1>3. /\ s \in Section /\ s.read \in Nat
      /\ s.body = [i \in 1 .. s.read |-> from + i - 1]
      /\ k <= s.read /\ s.read <= all /\ at = from + s.read
  BY Zenon DEF SectionSound, Section
<1>4. /\ at = s.at + Most(s.offset, 0)
      /\ n = Least(IF limit > 0 THEN Least(Buffer, limit - s.read) ELSE Buffer, Least(Chunk, size - at))
  OBVIOUS
<1>5. ASSUME at <= size, ~(limit > 0 /\ s.read >= limit)
      PROVE  /\ n <= size - at /\ (limit > 0 => n <= limit - s.read)
             /\ n = 0 => size - at = 0
  BY <1>1, <1>3, <1>5, DownloadAssumption, SMTT(30) DEF Least
<1> HIDE DEF from, there, all, at, n
<1>6. SectionEffect(size, limit, s, at, n, r)
  BY <1>3, <1>4, SectionReadFields, Zenon
<1>7. CASE at > size \/ (at <= size /\ limit > 0 /\ s.read >= limit)
  <2>1. s.read = all
    BY <1>1, <1>2, <1>3, <1>7 DEF Least
  <2>2. r.done /\ r.read = s.read /\ r.body = s.body
    BY <1>6, <1>7, Zenon DEF SectionEffect
  <2> QED
    BY <1>3, <1>6, <2>1, <2>2, Zenon DEF SectionSound, SectionEffect, from, all
<1>8. CASE at <= size /\ ~(limit > 0 /\ s.read >= limit)
  <2>1. /\ n \in Nat /\ r.at = at + n /\ Most(r.offset, 0) = 0 /\ r.read = s.read + n
        /\ r.body = s.body \o [i \in 1 .. n |-> at + i - 1]
    BY <1>6, <1>8, Zenon DEF SectionEffect
  <2>2. r.done => n = 0 \/ (limit > 0 /\ s.read + n >= limit)
    BY <1>6, <1>8, Zenon DEF SectionEffect
  <2>3. ~ r.done => n # 0
    BY <1>6, <1>8, Zenon DEF SectionEffect
  <2>4. r.body = [i \in 1 .. r.read |-> from + i - 1]
    <3>1. [i \in 1 .. s.read |-> from + i - 1] \o [i \in 1 .. n |-> (from + s.read) + i - 1] =
            [i \in 1 .. s.read + n |-> from + i - 1]
      <4>1. from \in Nat /\ s.read \in Nat /\ n \in Nat
        BY <1>1, <1>3, <2>1, Zenon
      <4> QED
        BY <4>1, SliceConcat, ZenonT(40)
    <3> QED
      BY <1>3, <2>1, <3>1, Zenon
  <2>5. there = size - from
    BY <1>1, <1>2, <1>3, <1>8
  <2>6. n <= size - at /\ (limit > 0 => n <= limit - s.read) /\ (n = 0 => size - at = 0)
    BY <1>5, <1>8, Zenon
  <2>7. /\ s.read + n <= all
        /\ n = 0 \/ (limit > 0 /\ s.read + n >= limit) => s.read + n = all
    <3>1. s.read \in Nat /\ n \in Nat /\ at = from + s.read
      BY <1>3, <2>1, Zenon
    <3> QED
      BY <1>1, <1>8, <2>5, <2>6, <3>1, SMTT(30) DEF Least
  <2>8. r.at + Most(r.offset, 0) = from + r.read
    BY <1>1, <1>3, <2>1
  <2>9. n # 0 => k + 1 <= r.read
    BY <1>3, <2>1
  <2> QED
    BY <1>6, <2>1, <2>2, <2>3, <2>4, <2>7, <2>8, <2>9, Zenon DEF SectionSound, SectionEffect, from, all
<1> QED
  BY <1>1, <1>3, <1>7, <1>8

(* A reader is sound after every call. *)
LEMMA SectionProgress ==
  ASSUME NEW size \in Nat, NEW offset \in Int, NEW limit \in Int
  PROVE  \A k \in Nat : SectionSound(size, offset, limit, k, SectionAfter(size, offset, limit, k))
<1> DEFINE S(k) == SectionAfter(size, offset, limit, k)
           Good(k) == SectionSound(size, offset, limit, k, S(k))
           T == {k \in Nat : Good(k)}
<1>1. Good(0)
  <2>1. S(0) = OpenSection(offset) /\ S(0) \in Section
    BY SectionRuns, Zenon
  <2>2. S(0).body = <<>> /\ S(0).read = 0 /\ ~ S(0).done /\ S(0).at = 0 /\ S(0).offset = offset
    BY <2>1 DEF OpenSection
  <2>3. SectionLength(size, offset, limit) \in Nat /\ Most(offset, 0) \in Nat
    BY DEF SectionLength, Most, Least
  <2>4. [i \in 1 .. 0 |-> Most(offset, 0) + i - 1] = <<>>
    OBVIOUS
  <2>5. 0 <= SectionLength(size, offset, limit) /\ 0 + Most(offset, 0) = Most(offset, 0) + 0 /\ 0 <= 0
    BY <2>3
  <2> HIDE DEF S
  <2> QED
    BY <2>1, <2>2, <2>4, <2>5, Zenon DEF SectionSound
<1>2. ASSUME NEW k \in Nat, Good(k) PROVE Good(k + 1)
  <2>1. S(k + 1) = IF S(k).done THEN S(k) ELSE SectionRead(size, limit, S(k))
    BY SectionRuns, Zenon
  <2> HIDE DEF S
  <2>2. CASE S(k).done
    BY <1>2, <2>1, <2>2, Zenon DEF SectionSound
  <2>3. CASE ~ S(k).done
    BY <1>2, <2>1, <2>3, SectionStep, Zenon
  <2> QED
    BY <2>2, <2>3, Zenon
<1> HIDE DEF Good
<1>3. 0 \in T /\ \A k \in Nat : k \in T => k + 1 \in T
  BY <1>1, <1>2
<1>4. \A k \in Nat : k \in T
  <2> HIDE DEF T
  <2> QED
    BY <1>3, SetInduction, Zenon
<1> QED
  BY <1>4, Zenon DEF Good

(* A body is the positions from the offset on, as many as the limit and the size allow. *)
LEMMA BodyPositions ==
  ASSUME NEW size \in Nat, NEW offset \in Int, NEW limit \in Int
  PROVE  Body(size, offset, limit) =
           [i \in 1 .. SectionLength(size, offset, limit) |-> Most(offset, 0) + i - 1]
<1>1. CASE offset > 0 \/ limit > 0
  <2> DEFINE s == SectionAfter(size, offset, limit, size + 1)
  <2>1. size + 1 \in Nat /\ SectionLength(size, offset, limit) \in Nat
        /\ SectionLength(size, offset, limit) <= size
    BY DEF SectionLength, Most, Least
  <2>2. SectionSound(size, offset, limit, size + 1, s)
    BY <2>1, SectionProgress, Zenon
  <2> HIDE DEF s
  <2>3. s.read \in Nat
    BY <2>2, Zenon DEF SectionSound, Section
  <2>4. ~(size + 1 <= s.read /\ s.read <= SectionLength(size, offset, limit))
    BY <2>1, <2>3
  <2>5. s.body = [i \in 1 .. SectionLength(size, offset, limit) |-> Most(offset, 0) + i - 1]
    BY <2>2, <2>4, Zenon DEF SectionSound
  <2> QED
    BY <1>1, <2>5, Zenon DEF Body, s
<1>2. CASE ~(offset > 0 \/ limit > 0)
  <2>1. Most(offset, 0) = 0 /\ SectionLength(size, offset, limit) = size
    BY <1>2 DEF SectionLength, Most
  <2>2. [i \in 1 .. size |-> i - 1] = [i \in 1 .. size |-> 0 + i - 1]
    OBVIOUS
  <2> QED
    BY <1>2, <2>1, <2>2, Zenon DEF Body
<1> QED
  BY <1>1, <1>2, Zenon

(* The length of a range fits, but for bytes=0-MaxInt, whose length wraps to a negative number. *)
LEMMA RangeLength ==
  ASSUME NEW d \in 1 .. MaxInt + 1
  PROVE  Int64(d) = IF d = MaxInt + 1 THEN -(MaxInt + 1) ELSE d
<1> DEFINE m == MaxInt + 1
<1>1. m \in Nat /\ m > 0 /\ d \in 1 .. m
  BY DownloadAssumption
<1>2. Int64(d) = ((d + m) % (2 * m)) - m
  BY <1>1, DownloadAssumption DEF Int64
<1> HIDE DEF m
<1>3. CASE d = m
  BY <1>1, <1>2, <1>3, DownloadAssumption DEF m
<1>4. CASE d # m
  <2>1. d + m \in 0 .. (2 * m) - 1
    BY <1>1, <1>4
  <2>2. (d + m) % (2 * m) = d + m
    BY <1>1, <2>1
  <2> QED
    BY <1>1, <1>2, <1>4, <2>2 DEF m
<1> QED
  BY <1>3, <1>4, Zenon

(* Positions of the same count and beginning are the same body. *)
LEMMA BodyIsSlice ==
  ASSUME NEW size \in Nat, NEW offset \in Int, NEW limit \in Int, NEW upto \in Int,
         SectionLength(size, offset, limit) = Most(upto - Most(offset, 0) + 1, 0)
  PROVE  Body(size, offset, limit) = Slice(Most(offset, 0), upto)
<1>1. Body(size, offset, limit) =
        [i \in 1 .. SectionLength(size, offset, limit) |-> Most(offset, 0) + i - 1]
  BY BodyPositions, Zenon
<1> QED
  BY <1>1, Zenon DEF Slice

(* What offset and limit select, from none to past the end. *)
LEMMA PageIsSlice ==
  ASSUME NEW size \in Nat, NEW offset \in Int, NEW limit \in Int
  PROVE  Body(size, offset, limit) =
           Slice(Most(offset, 0),
                 IF limit <= 0 THEN size - 1 ELSE Least(size - 1, Most(offset, 0) + limit - 1))
<1> DEFINE from == Most(offset, 0)
           upto == IF limit <= 0 THEN size - 1 ELSE Least(size - 1, from + limit - 1)
<1>1. from \in Nat /\ upto \in Int
  BY DEF Most, Least
<1>2. SectionLength(size, offset, limit) = Most(upto - from + 1, 0)
  BY <1>1 DEF SectionLength, Most, Least
<1> HIDE DEF upto
<1>3. Body(size, offset, limit) = Slice(from, upto)
  BY <1>1, <1>2, BodyIsSlice, Zenon
<1> QED
  BY <1>3, Zenon DEF upto

(* What a range that is served delivers: from its first byte to its last or the result's. *)
LEMMA RangeIsSlice ==
  ASSUME NEW size \in 0 .. MaxInt, NEW x \in Nat, x < size,
         NEW y \in 0 .. MaxInt, x <= y
  PROVE  Body(size, x, Int64(y - x + 1)) = Slice(x, Least(y, size - 1))
<1> DEFINE d == y - x + 1
<1>1. d \in 1 .. MaxInt + 1 /\ Most(x, 0) = x /\ size \in Nat /\ Int64(d) \in Int
  <2>1. d \in 1 .. MaxInt + 1 /\ Most(x, 0) = x /\ size \in Nat
    BY DownloadAssumption DEF Most
  <2> HIDE DEF d
  <2> QED
    BY <2>1, RangeLength, DownloadAssumption
<1>2. SectionLength(size, x, Int64(d)) = Most(Least(y, size - 1) - x + 1, 0)
  <2>1. CASE d = MaxInt + 1
    <3>1. y = MaxInt /\ x = 0
      BY <2>1, DownloadAssumption
    <3>2. Int64(d) = -(MaxInt + 1)
      BY <1>1, <2>1, RangeLength, Zenon
    <3> HIDE DEF d
    <3> QED
      BY <1>1, <3>1, <3>2, DownloadAssumption DEF SectionLength, Most, Least
  <2>2. CASE d # MaxInt + 1
    <3>1. Int64(d) = d
      BY <1>1, <2>2, RangeLength, Zenon
    <3> QED
      BY <1>1, <3>1, DownloadAssumption DEF SectionLength, Most, Least
  <2> QED
    BY <2>1, <2>2, Zenon
<1> HIDE DEF d
<1>3. x \in Int
  OBVIOUS
<1>4. Least(y, size - 1) \in Int
  BY <1>1, DownloadAssumption DEF Least
<1>5. SectionLength(size, x, Int64(d)) = Most(Least(y, size - 1) - Most(x, 0) + 1, 0)
  BY <1>1, <1>2, Zenon
<1>6. Body(size, x, Int64(d)) = Slice(Most(x, 0), Least(y, size - 1))
  BY <1>1, <1>3, <1>4, <1>5, BodyIsSlice, ZenonT(60)
<1> QED
  BY <1>1, <1>6, Zenon DEF d

(* The numbers of a header or a parameter, either of which may be missing. *)
Header == (-(MaxInt + 1) .. MaxInt) \cup {Blank}

(* What the handlers promise of a range, and of an offset and a limit. *)
RangeServed(size, x, y, r) ==
  /\ r.status = 206 =>
       /\ r.first = x /\ r.last = IF y = Blank THEN size - 1 ELSE Least(y, size - 1)
       /\ r.body = Slice(r.first, r.last)
  /\ r.status = 416 => x = Blank \/ x < 0 \/ x >= size \/ (y # Blank /\ y < x)

PageServed(size, x, y, from, upto) ==
  /\ PagedDownload(size, x, y).status = 200 => PagedDownload(size, x, y).body = Slice(from, upto)
  /\ x # Blank /\ y # Blank => StreamedDownload(size, x, y).body = Slice(from, upto)

(* The REST handler without a Range header, and the Connect handler. *)
LEMMA PagesAreExact ==
  ASSUME NEW size \in 0 .. MaxInt, NEW x \in Header, NEW y \in Header,
         NEW from, from = IF x = Blank THEN 0 ELSE Most(x, 0),
         NEW upto, upto = IF y = Blank \/ y <= 0 THEN size - 1 ELSE Least(size - 1, from + y - 1)
  PROVE  PageServed(size, x, y, from, upto)
<1> DEFINE offset == IF x = Blank THEN 0 ELSE x
           limit == IF y = Blank THEN 0 ELSE y
<1>1. offset \in Int /\ limit \in Int /\ size \in Nat
  BY DownloadAssumption DEF Header
<1>2. /\ from = Most(offset, 0)
      /\ upto = IF limit <= 0 THEN size - 1 ELSE Least(size - 1, Most(offset, 0) + limit - 1)
  <2>1. from = Most(offset, 0)
    <3>1. Most(0, 0) = 0
      BY Zenon DEF Most
    <3> QED
      BY <3>1, Zenon
  <2>2. y = Blank => limit <= 0
    OBVIOUS
  <2> QED
    BY <2>1, <2>2, Zenon
<1>3. Body(size, offset, limit) = Slice(from, upto)
  <2> HIDE DEF offset, limit
  <2> QED
    BY <1>1, <1>2, PageIsSlice, Zenon
<1>4. PagedDownload(size, x, y).status = 200 => PagedDownload(size, x, y).body = Body(size, offset, limit)
  BY DEF PagedDownload
<1>5. x # Blank /\ y # Blank => StreamedDownload(size, x, y).body = Body(size, offset, limit)
  BY Zenon DEF StreamedDownload
<1> QED
  BY <1>3, <1>4, <1>5, ZenonT(40) DEF PageServed

(* The REST handler with a Range header. *)
LEMMA RangesAreExact ==
  ASSUME NEW size \in 0 .. MaxInt, NEW x \in Header, NEW y \in Header,
         NEW r, r = RangedDownload(size, [first |-> x, last |-> y])
  PROVE  RangeServed(size, x, y, r)
<1> DEFINE h == [first |-> x, last |-> y]
           bad == x = Blank \/ x < 0 \/ (y # Blank /\ y < x)
           p == parseByteRange(h)
<1>1. CASE bad
  <2>1. p = [ok |-> FALSE]
    BY <1>1, Zenon DEF parseByteRange
  <2>2. r = [status |-> 416]
    BY <2>1 DEF RangedDownload
  <2> QED
    BY <1>1, <2>2 DEF RangeServed
<1>2. CASE ~ bad
  <2>1. /\ x \in Nat /\ (y # Blank => y \in 0 .. MaxInt /\ x <= y) /\ size \in Nat /\ x \in Int
    BY <1>2, DownloadAssumption DEF Header
  <2>2. p = [ok |-> TRUE, start |-> x, end |-> IF y = Blank THEN 0 - 1 ELSE y]
    BY <1>2, Zenon DEF parseByteRange
  <2>3. p.ok /\ p.start = x /\ p.end = IF y = Blank THEN 0 - 1 ELSE y
    BY <2>2
  <2> HIDE DEF p
  <2>4. CASE x >= size
    <3>1. r = [status |-> 416]
      BY <2>1, <2>3, <2>4 DEF RangedDownload, p
    <3> QED
      BY <2>4, <3>1 DEF RangeServed
  <2>5. CASE x < size
    <3> DEFINE limit == IF p.end >= 0 THEN Int64(p.end - p.start + 1) ELSE 0
               end == IF p.end < 0 \/ p.end >= size THEN size - 1 ELSE p.end
    <3>1. ~(x >= size)
      BY <2>1, <2>5
    <3>2. r = [status |-> 206, first |-> x, last |-> end, body |-> Body(size, x, limit)]
      BY <2>1, <2>3, <2>5, <3>1 DEF RangedDownload, p
    <3>3. end = IF y = Blank THEN size - 1 ELSE Least(y, size - 1)
      BY <2>1, <2>3 DEF Least
    <3>4. Body(size, x, limit) = Slice(x, end)
      <4>1. CASE y = Blank
        <5>1. limit = 0 /\ end = size - 1 /\ Most(x, 0) = x
          BY <2>1, <2>3, <4>1 DEF Most
        <5>2. Body(size, x, 0) = Slice(Most(x, 0), size - 1)
          <6>1. 0 \in Int /\ 0 <= 0
            OBVIOUS
          <6> QED
            BY <2>1, <6>1, PageIsSlice, Zenon
        <5> QED
          BY <5>1, <5>2, Zenon
      <4>2. CASE y # Blank
        <5>1. limit = Int64(y - x + 1) /\ end = Least(y, size - 1)
          BY <2>1, <2>3, <3>3, <4>2
        <5> QED
          BY <2>1, <2>5, <4>2, <5>1, RangeIsSlice, Zenon
      <4> QED
        BY <4>1, <4>2, Zenon
    <3> HIDE DEF limit, end
    <3>5. r.status = 206 /\ r.first = x /\ r.last = end /\ r.body = Body(size, x, limit)
      BY <3>2
    <3> QED
      BY <3>3, <3>4, <3>5 DEF RangeServed
  <2> QED
    BY <2>1, <2>4, <2>5
<1> QED
  BY <1>1, <1>2, Zenon

(* Every section of every result: what a download returns of a result of any size that an
   int64 counts, for any two numbers of a header or of the parameters, whatever the pieces
   in which the store returns the bytes and whatever the buffer they are read into. *)
THEOREM EverySectionIsExact ==
  \A size \in 0 .. MaxInt : \A x, y \in Header : SectionIsExact(size, x, y)
<1> SUFFICES ASSUME NEW size \in 0 .. MaxInt, NEW x \in Header, NEW y \in Header
             PROVE  SectionIsExact(size, x, y)
  OBVIOUS
<1> DEFINE r == RangedDownload(size, [first |-> x, last |-> y])
           from == IF x = Blank THEN 0 ELSE Most(x, 0)
           upto == IF y = Blank \/ y <= 0 THEN size - 1 ELSE Least(size - 1, from + y - 1)
<1>1. /\ r = RangedDownload(size, [first |-> x, last |-> y])
      /\ from = IF x = Blank THEN 0 ELSE Most(x, 0)
      /\ upto = IF y = Blank \/ y <= 0 THEN size - 1 ELSE Least(size - 1, from + y - 1)
  OBVIOUS
<1> HIDE DEF r, from, upto
<1>2. RangeServed(size, x, y, r)
  BY <1>1, RangesAreExact, Zenon
<1>3. PageServed(size, x, y, from, upto)
  BY <1>1, PagesAreExact, Zenon
<1> QED
  BY <1>2, <1>3, Zenon DEF SectionIsExact, RangeServed, PageServed, r, from, upto

(* The same for the numbers and sizes that are tried. *)
LEMMA TriedSectionsAreExact == SectionsAreExact
<1>1. Size \subseteq 0 .. MaxInt /\ Number \cup {Blank} \subseteq Header
  BY DownloadAssumption, Zenon DEF Header
<1> QED
  BY <1>1, EverySectionIsExact, Zenon DEF SectionsAreExact

-----------------------------------------------------------------------------
(* The scanner of sqlguard.                                                *)

(* A loop is its first state and then, turn by turn, what step makes of the last. *)
RunsIn(S, step, first) ==
  /\ Turns(step, first, 0) = first
  /\ \A k \in Nat : Turns(step, first, k) \in S
  /\ \A k \in Nat : Turns(step, first, k + 1) = step[Turns(step, first, k)]

(* The recursion of Turns is such a loop. *)
LEMMA TurnsRun ==
  ASSUME NEW S, NEW first \in S, NEW step \in [S -> S]
  PROVE  RunsIn(S, step, first)
<1> DEFINE F == [k \in Nat |-> step]
           IsRun(g) == g = [k \in Nat |-> IF k = 0 THEN first ELSE step[g[k - 1]]]
           after == CHOOSE g : IsRun(g)
<1>1. F \in [Nat -> [S -> S]]
  BY Zenon
<1>2. PICK g \in [Nat -> S] : g[0] = first /\ \A k \in Nat : g[k + 1] = F[k + 1][g[k]]
  <2> HIDE DEF F
  <2>1. HasRun(S, first, F)
    BY <1>1, Iteration, Zenon
  <2> QED
    BY <2>1, Zenon DEF HasRun
<1>3. \A k \in Nat : g[k] = IF k = 0 THEN first ELSE step[g[k - 1]]
  <2> SUFFICES ASSUME NEW k \in Nat, k # 0 PROVE g[k] = step[g[k - 1]]
    BY <1>2, Zenon
  <2>1. k - 1 \in Nat /\ (k - 1) + 1 = k /\ F[k] = step
    OBVIOUS
  <2> HIDE DEF F
  <2> QED
    BY <1>2, <2>1, Zenon
<1>4. IsRun(g)
  BY <1>2, <1>3, Zenon
<1>5. IsRun(after)
  <2> HIDE DEF IsRun
  <2> QED
    BY <1>4, Zenon
<1>6. \A n : Turns(step, first, n) = after[n]
  BY Zenon DEF Turns
<1> HIDE DEF after
<1>7. after[0] = first
  BY <1>5, Zenon
<1>8. \A k \in Nat : after[k + 1] = step[after[k]]
  <2> SUFFICES ASSUME NEW k \in Nat PROVE after[k + 1] = step[after[k]]
    OBVIOUS
  <2>1. k + 1 \in Nat /\ k + 1 # 0 /\ (k + 1) - 1 = k
    OBVIOUS
  <2>2. after[k + 1] = step[after[(k + 1) - 1]]
    BY <1>5, <2>1, Zenon
  <2> QED
    BY <2>1, <2>2, Zenon
<1>9. \A k \in Nat : after[k] \in S
  <2> DEFINE T == {k \in Nat : after[k] \in S}
  <2>1. 0 \in T /\ \A k \in Nat : k \in T => k + 1 \in T
    BY <1>7, <1>8
  <2> HIDE DEF T
  <2>2. \A k \in Nat : k \in T
    BY <2>1, SetInduction, Zenon
  <2> QED
    BY <2>2, Zenon DEF T
<1> QED
  BY <1>6, <1>7, <1>8, <1>9, Zenon DEF RunsIn

(* A loop stays where a turn changes nothing. *)
LEMMA TurnsStay ==
  ASSUME NEW S, NEW first \in S, NEW step \in [S -> S], NEW m \in Nat,
         step[Turns(step, first, m)] = Turns(step, first, m), NEW n \in Nat, m <= n
  PROVE  Turns(step, first, n) = Turns(step, first, m)
<1> DEFINE s(k) == Turns(step, first, k)
           T == {k \in Nat : s(m + k) = s(m)}
<1>1. \A k \in Nat : s(k + 1) = step[s(k)]
  <2>1. RunsIn(S, step, first)
    BY TurnsRun, Zenon
  <2> QED
    BY <2>1, Zenon DEF RunsIn
<1> HIDE DEF s
<1>2. 0 \in T
  OBVIOUS
<1>3. ASSUME NEW k \in Nat, s(m + k) = s(m) PROVE s(m + (k + 1)) = s(m)
  <2>1. m + k \in Nat /\ m + (k + 1) = (m + k) + 1
    OBVIOUS
  <2>2. s((m + k) + 1) = step[s(m + k)]
    BY <1>1, <2>1, Zenon
  <2>3. step[s(m)] = s(m)
    BY Zenon DEF s
  <2> QED
    BY <1>3, <2>1, <2>2, <2>3, Zenon
<1>4. \A k \in Nat : k \in T => k + 1 \in T
  BY <1>3
<1>5. \A k \in Nat : k \in T
  <2> HIDE DEF T
  <2> QED
    BY <1>2, <1>4, SetInduction, Zenon
<1>6. n - m \in Nat /\ m + (n - m) = n
  OBVIOUS
<1> QED
  BY <1>5, <1>6, Zenon DEF s

(* The parts of a text are joined one after the other. *)
LEMMA JoinedRun ==
  ASSUME NEW parts \in Seq(Seq(Char))
  PROVE  /\ JoinedTo(parts, 0) = <<>>
         /\ \A k \in 0 .. Len(parts) : JoinedTo(parts, k) \in Seq(Char)
         /\ \A k \in 1 .. Len(parts) : JoinedTo(parts, k) = JoinedTo(parts, k - 1) \o parts[k]
<1> DEFINE F == [k \in Nat |-> [t \in Seq(Char) |-> IF k \in 1 .. Len(parts) THEN t \o parts[k] ELSE t]]
           D == 0 .. Len(parts)
           IsRun(g) == g = [k \in D |-> IF k = 0 THEN <<>> ELSE g[k - 1] \o parts[k]]
           text == CHOOSE g : IsRun(g)
<1>1. Len(parts) \in Nat /\ \A k \in 1 .. Len(parts) : parts[k] \in Seq(Char)
  OBVIOUS
<1>2. \A t, u \in Seq(Char) : t \o u \in Seq(Char)
  OBVIOUS
<1>3. F \in [Nat -> [Seq(Char) -> Seq(Char)]] /\ <<>> \in Seq(Char)
  BY <1>1, <1>2
<1>4. \A k \in Nat, t \in Seq(Char) : k + 1 \in 1 .. Len(parts) => F[k + 1][t] = t \o parts[k + 1]
  <2>1. \A k \in Nat : k + 1 \in Nat
    OBVIOUS
  <2> QED
    BY <2>1, Zenon
<1>5. PICK g \in [Nat -> Seq(Char)] : g[0] = <<>> /\ \A k \in Nat : g[k + 1] = F[k + 1][g[k]]
  <2> HIDE DEF F
  <2>1. HasRun(Seq(Char), <<>>, F)
    BY <1>3, Iteration, Zenon
  <2> QED
    BY <2>1, Zenon DEF HasRun
<1> HIDE DEF F
<1>6. \A k \in 1 .. Len(parts) : g[k] = g[k - 1] \o parts[k]
  <2> SUFFICES ASSUME NEW k \in 1 .. Len(parts) PROVE g[k] = g[k - 1] \o parts[k]
    BY Zenon
  <2>1. k - 1 \in Nat /\ (k - 1) + 1 = k
    BY <1>1
  <2> QED
    BY <1>4, <1>5, <2>1, Zenon
<1>7. IsRun([k \in D |-> g[k]])
  <2> DEFINE h == [k \in D |-> g[k]]
  <2>1. 0 \in D /\ \A k \in D : k # 0 => k \in 1 .. Len(parts) /\ k - 1 \in D
    BY <1>1
  <2> HIDE DEF D
  <2>2. \A k \in D : k # 0 => h[k] = h[k - 1] \o parts[k]
    BY <1>6, <2>1, Zenon
  <2>3. \A k \in D : h[k] = IF k = 0 THEN <<>> ELSE h[k - 1] \o parts[k]
    BY <1>5, <2>1, <2>2, Zenon
  <2> QED
    BY <2>3, Zenon
<1>8. IsRun(text)
  <2> HIDE DEF IsRun
  <2> QED
    BY <1>7, Zenon
<1>9. \A n : JoinedTo(parts, n) = text[n]
  BY Zenon DEF JoinedTo
<1> HIDE DEF text
<1>10. 0 \in D /\ \A k \in 1 .. Len(parts) : k \in D /\ k # 0
  BY <1>1
<1>11. text[0] = <<>> /\ \A k \in 1 .. Len(parts) : text[k] = text[k - 1] \o parts[k]
  <2> HIDE DEF D
  <2> QED
    BY <1>8, <1>10, Zenon
<1>12. \A k \in D : text[k] \in Seq(Char)
  <2> DEFINE T == {k \in Nat : k \in D => text[k] \in Seq(Char)}
  <2>1. 0 \in T
    BY <1>3, <1>11, Zenon
  <2>2. ASSUME NEW k \in Nat, k \in D => text[k] \in Seq(Char), k + 1 \in D
        PROVE  text[k + 1] \in Seq(Char)
    <3>1. k \in D /\ k + 1 \in 1 .. Len(parts) /\ (k + 1) - 1 = k
      BY <1>1, <2>2
    <3> QED
      BY <1>1, <1>2, <1>11, <2>2, <3>1, Zenon
  <2>3. \A k \in Nat : k + 1 \in Nat
    OBVIOUS
  <2>4. \A k \in Nat : k \in T => k + 1 \in T
    BY <2>2, <2>3, Zenon
  <2>5. \A k \in Nat : k \in T
    <3> HIDE DEF T
    <3> QED
      BY <2>1, <2>4, SetInduction, Zenon
  <2> QED
    BY <2>5, <1>1
<1> QED
  BY <1>9, <1>11, <1>12, Zenon

(* The text t stands in src behind b characters. *)
Occurs(src, b, t) ==
  b + Len(t) <= Len(src) /\ \A i \in 1 .. Len(t) : src[b + i] = t[i]

(* What stands in a text stands where the text does. *)
LEMMA OccursWithin ==
  ASSUME NEW src \in Seq(Char), NEW b \in Nat, NEW t \in Seq(Char), Occurs(src, b, t),
         NEW a \in Nat, NEW u \in Seq(Char), Occurs(t, a, u)
  PROVE  Occurs(src, b + a, u)
<1>1. Len(t) \in Nat /\ Len(u) \in Nat /\ Len(src) \in Nat
  OBVIOUS
<1>2. a + Len(u) <= Len(t) /\ b + Len(t) <= Len(src)
  BY Zenon DEF Occurs
<1>3. (b + a) + Len(u) <= Len(src)
  BY <1>1, <1>2
<1>4. ASSUME NEW i \in 1 .. Len(u) PROVE src[(b + a) + i] = u[i]
  <2>1. a + i \in 1 .. Len(t) /\ b + (a + i) = (b + a) + i
    BY <1>1, <1>2
  <2>2. src[b + (a + i)] = t[a + i] /\ t[a + i] = u[i]
    BY <2>1, Zenon DEF Occurs
  <2> QED
    BY <2>1, <2>2, Zenon
<1> QED
  BY <1>3, <1>4, Zenon DEF Occurs

(* Where the k-th part of a text ends. *)
End(parts, k) == Len(JoinedTo(parts, k))

(* Every part stands in the text behind the parts before it. *)
LEMMA PartOccurs ==
  ASSUME NEW parts \in Seq(Seq(Char)), NEW k \in 1 .. Len(parts)
  PROVE  /\ End(parts, k - 1) \in Nat /\ End(parts, k) = End(parts, k - 1) + Len(parts[k])
         /\ Occurs(Joined(parts), End(parts, k - 1), parts[k])
<1> DEFINE text(m) == JoinedTo(parts, m)
           b == Len(text(k - 1))
           Good(m) == Occurs(text(m), b, parts[k])
           T == {m \in Nat : k <= m /\ m <= Len(parts) => Good(m)}
<1>1. Len(parts) \in Nat /\ \A m \in 1 .. Len(parts) : parts[m] \in Seq(Char) /\ m - 1 \in 0 .. Len(parts)
  OBVIOUS
<1>2. /\ \A m \in 0 .. Len(parts) : text(m) \in Seq(Char)
      /\ \A m \in 1 .. Len(parts) : text(m) = text(m - 1) \o parts[m]
  BY JoinedRun, Zenon
<1> HIDE DEF text
<1>3. b \in Nat /\ parts[k] \in Seq(Char) /\ text(k - 1) \in Seq(Char) /\ text(k) = text(k - 1) \o parts[k]
  <2>1. parts[k] \in Seq(Char) /\ text(k - 1) \in Seq(Char) /\ text(k) = text(k - 1) \o parts[k]
    BY <1>1, <1>2, Zenon
  <2> QED
    BY <2>1
<1>4. Len(text(k)) = b + Len(parts[k])
  BY <1>3
<1>5. Good(k)
  BY <1>3 DEF Occurs
<1>6. ASSUME NEW m \in Nat, k <= m, m + 1 <= Len(parts), Good(m)
      PROVE  Good(m + 1)
  <2>1. m \in 0 .. Len(parts) /\ m + 1 \in 1 .. Len(parts) /\ (m + 1) - 1 = m
    BY <1>1, <1>6
  <2>2. text(m) \in Seq(Char) /\ parts[m + 1] \in Seq(Char) /\ text(m + 1) = text(m) \o parts[m + 1]
    BY <1>1, <1>2, <2>1, Zenon
  <2> DEFINE t == text(m)
             u == parts[k]
             more == parts[m + 1]
  <2>3. b \in Nat /\ t \in Seq(Char) /\ u \in Seq(Char) /\ more \in Seq(Char) /\ Occurs(t, b, u)
    BY <1>3, <1>6, <2>2, Zenon
  <2> HIDE DEF b, t, u, more
  <2>4. Occurs(t \o more, b, u)
    BY <2>3, SMTT(30) DEF Occurs
  <2> QED
    BY <2>2, <2>4, Zenon DEF t, u, more
<1> HIDE DEF Good
<1>7. 0 \in T
  OBVIOUS
<1>8. ASSUME NEW m \in Nat, m \in T PROVE m + 1 \in T
  <2>1. CASE k <= m /\ m + 1 <= Len(parts)
    BY <1>1, <1>6, <1>8, <2>1
  <2>2. CASE ~(k <= m /\ m + 1 <= Len(parts))
    <3>1. k <= m + 1 /\ m + 1 <= Len(parts) => m + 1 = k
      BY <1>1, <2>2
    <3> QED
      BY <1>5, <3>1, <2>2
  <2> QED
    BY <2>1, <2>2, Zenon
<1>9. \A m \in Nat : m \in T
  <2> HIDE DEF T
  <2> QED
    BY <1>7, <1>8, SetInduction, Zenon
<1>10. Good(Len(parts))
  BY <1>1, <1>9
<1> QED
  BY <1>3, <1>4, <1>10, Zenon DEF Good, End, Joined, text

(* The text ends with its last part. *)
LEMMA JoinedEnds ==
  ASSUME NEW parts \in Seq(Seq(Char))
  PROVE  /\ Joined(parts) \in Seq(Char) /\ End(parts, 0) = 0
         /\ End(parts, Len(parts)) = Len(Joined(parts))
         /\ \A k \in 0 .. Len(parts) : End(parts, k) \in Nat
<1>1. Len(parts) \in Nat /\ Len(parts) \in 0 .. Len(parts) /\ 0 \in Nat
  OBVIOUS
<1>2. Joined(parts) \in Seq(Char) /\ End(parts, Len(parts)) = Len(Joined(parts))
  BY <1>1, JoinedRun, Zenon DEF Joined, End
<1>3. End(parts, 0) = 0
  <2>1. JoinedTo(parts, 0) = <<>>
    BY JoinedRun, Zenon
  <2> QED
    BY <2>1 DEF End
<1>4. ASSUME NEW k \in 0 .. Len(parts) PROVE End(parts, k) \in Nat
  <2>1. JoinedTo(parts, k) \in Seq(Char)
    BY JoinedRun, Zenon
  <2> QED
    BY <2>1 DEF End
<1> QED
  BY <1>2, <1>3, <1>4, Zenon

(* Parts that are not empty make a text at least as long as they are many. *)
LEMMA JoinedLength ==
  ASSUME NEW parts \in Seq(Seq(Char)), \A k \in 1 .. Len(parts) : Len(parts[k]) > 0
  PROVE  \A k \in 0 .. Len(parts) : k <= End(parts, k)
<1> DEFINE T == {k \in Nat : k <= Len(parts) => k <= End(parts, k)}
<1>1. Len(parts) \in Nat /\ End(parts, 0) = 0
  BY JoinedEnds
<1>2. 0 \in T
  BY <1>1
<1>3. ASSUME NEW k \in Nat, k \in T PROVE k + 1 \in T
  <2> SUFFICES ASSUME k + 1 <= Len(parts) PROVE k + 1 <= End(parts, k + 1)
    OBVIOUS
  <2>1. k <= Len(parts) /\ k + 1 \in 1 .. Len(parts) /\ (k + 1) - 1 = k
    BY <1>1
  <2>2. End(parts, k) \in Nat /\ End(parts, k + 1) = End(parts, k) + Len(parts[k + 1])
    BY <2>1, PartOccurs, Zenon
  <2>3. Len(parts[k + 1]) \in Nat /\ Len(parts[k + 1]) > 0
    BY <2>1
  <2>4. k <= End(parts, k)
    BY <1>3, <2>1, Zenon
  <2> QED
    BY <2>2, <2>3, <2>4
<1>4. \A k \in Nat : k \in T
  <2> HIDE DEF T
  <2> QED
    BY <1>2, <1>3, SetInduction, Zenon
<1>5. \A k \in 0 .. Len(parts) : k \in Nat /\ k <= Len(parts)
  BY <1>1
<1> QED
  BY <1>4, <1>5, Zenon

(* Where the k-th part of a text ends that stands behind b characters. *)
EndFrom(b, p, k) == b + End(p, k)

(* The parts of a text that stands in src stand there one behind the other. *)
LEMMA PartsOccur ==
  ASSUME NEW src \in Seq(Char), NEW b \in Nat, NEW p \in Seq(Seq(Char)), Occurs(src, b, Joined(p))
  PROVE  /\ EndFrom(b, p, 0) = b /\ EndFrom(b, p, Len(p)) = b + Len(Joined(p))
         /\ Len(Joined(p)) \in Nat /\ Len(Joined(p)) <= Len(src)
         /\ b + Len(Joined(p)) \in Nat /\ b + Len(Joined(p)) <= Len(src)
         /\ \A k \in 1 .. Len(p) :
              /\ EndFrom(b, p, k - 1) \in Nat
              /\ EndFrom(b, p, k) = EndFrom(b, p, k - 1) + Len(p[k])
              /\ Occurs(src, EndFrom(b, p, k - 1), p[k])
<1>1. /\ Joined(p) \in Seq(Char) /\ End(p, 0) = 0 /\ End(p, Len(p)) = Len(Joined(p))
      /\ \A k \in 0 .. Len(p) : End(p, k) \in Nat
  BY JoinedEnds, Zenon
<1>2. Len(Joined(p)) \in Nat /\ b + Len(Joined(p)) <= Len(src)
  BY <1>1 DEF Occurs
<1>3. ASSUME NEW k \in 1 .. Len(p)
      PROVE  /\ EndFrom(b, p, k - 1) \in Nat
             /\ EndFrom(b, p, k) = EndFrom(b, p, k - 1) + Len(p[k])
             /\ Occurs(src, EndFrom(b, p, k - 1), p[k])
  <2>1. /\ End(p, k - 1) \in Nat /\ End(p, k) = End(p, k - 1) + Len(p[k])
        /\ Occurs(Joined(p), End(p, k - 1), p[k])
    BY PartOccurs, Zenon
  <2>2. p[k] \in Seq(Char) /\ Len(p[k]) \in Nat
    OBVIOUS
  <2>3. Occurs(src, b + End(p, k - 1), p[k])
    BY <1>1, <2>1, <2>2, OccursWithin, Zenon
  <2> QED
    BY <2>1, <2>2, <2>3 DEF EndFrom
<1>4. /\ EndFrom(b, p, 0) = b /\ EndFrom(b, p, Len(p)) = b + Len(Joined(p))
      /\ Len(Joined(p)) <= Len(src) /\ b + Len(Joined(p)) \in Nat
  BY <1>1, <1>2 DEF EndFrom
<1> QED
  BY <1>2, <1>3, <1>4, Zenon

(* In the source there are at least as many characters as parts that are not empty. *)
LEMMA PartsAreFew ==
  ASSUME NEW src \in Seq(Char), NEW b \in Nat, NEW p \in Seq(Seq(Char)), Occurs(src, b, Joined(p)),
         \A k \in 1 .. Len(p) : Len(p[k]) > 0
  PROVE  Len(p) <= Len(src)
<1>1. Len(p) \in Nat /\ Len(src) \in Nat /\ Len(p) \in 0 .. Len(p)
  OBVIOUS
<1>2. Len(Joined(p)) \in Nat /\ Len(Joined(p)) <= Len(src)
  BY PartsOccur, Zenon
<1>3. Len(p) <= End(p, Len(p)) /\ End(p, Len(p)) = Len(Joined(p))
  BY <1>1, JoinedEnds, JoinedLength, Zenon
<1> QED
  BY <1>1, <1>2, <1>3

-----------------------------------------------------------------------------
(* Literals and quoted identifiers.                                        *)

(* A turn over a literal stays within the states of a skip. *)
LEMMA QuotedTurnType ==
  ASSUME NEW src, NEW q, NEW s \in Skip
  PROVE  QuotedTurn(src, q, s) \in Skip
  BY DEF QuotedTurn, Skip

(* One turn passes one part of what is quoted. *)
LEMMA QuotedTurnPart ==
  ASSUME NEW src \in Seq(Char), NEW q \in Quote, NEW u \in QuotedPart(q), NEW a \in Nat,
         Occurs(src, a, u)
  PROVE  QuotedTurn(src, q, [i |-> a + 1, depth |-> 1]) = [i |-> (a + Len(u)) + 1, depth |-> 1]
<1>1. q # "\\"
  BY Zenon DEF Quote
<1>2. ASSUME NEW c \in Char, u = <<c>>, c # q, c = "\\" => q # "'"
      PROVE  QuotedTurn(src, q, [i |-> a + 1, depth |-> 1]) = [i |-> (a + Len(u)) + 1, depth |-> 1]
  <2>1. a + 1 <= Len(src) /\ src[a + 1] = c /\ Len(u) = 1
    BY <1>2 DEF Occurs
  <2> QED
    BY <1>2, <2>1 DEF QuotedTurn
<1>3. ASSUME u = <<q, q>>
      PROVE  QuotedTurn(src, q, [i |-> a + 1, depth |-> 1]) = [i |-> (a + Len(u)) + 1, depth |-> 1]
  <2>1. a + 2 <= Len(src) /\ src[a + 1] = q /\ src[a + 2] = q /\ Len(u) = 2
    BY <1>3 DEF Occurs
  <2> QED
    BY <1>1, <2>1 DEF QuotedTurn, At
<1>4. ASSUME NEW c \in Char, u = <<"\\", c>>, q = "'"
      PROVE  QuotedTurn(src, q, [i |-> a + 1, depth |-> 1]) = [i |-> (a + Len(u)) + 1, depth |-> 1]
  <2>1. a + 2 <= Len(src) /\ src[a + 1] = "\\" /\ Len(u) = 2
    BY <1>4 DEF Occurs
  <2> QED
    BY <1>4, <2>1 DEF QuotedTurn
<1>5. \/ \E c \in Char : u = <<c>> /\ c # q /\ (c = "\\" => q # "'")
      \/ u = <<q, q>>
      \/ q = "'" /\ \E c \in Char : u = <<"\\", c>>
  <2>1. "\\" \in Char
    BY Zenon DEF Char
  <2> QED
    BY <1>1, <2>1, Zenon DEF QuotedPart
<1> QED
  BY <1>2, <1>3, <1>4, <1>5, Zenon

(* One turn passes the closing quote, which another does not follow. *)
LEMMA QuotedTurnLast ==
  ASSUME NEW src \in Seq(Char), NEW q \in Quote, NEW a \in Nat,
         Occurs(src, a, <<q>>), a + 1 < Len(src) => src[a + 2] # q
  PROVE  QuotedTurn(src, q, [i |-> a + 1, depth |-> 1]) = [i |-> a + 2, depth |-> 0]
<1>1. q # "\\"
  BY Zenon DEF Quote
<1>2. a + 1 <= Len(src) /\ src[a + 1] = q
  BY DEF Occurs
<1> QED
  BY <1>1, <1>2 DEF QuotedTurn, At

(* skipQuoted ends where the literal does. *)
LEMMA QuotedIsSkipped ==
  ASSUME NEW src \in Seq(Char), NEW b \in Nat, NEW p \in Seq(Seq(Char)), IsQuoted(p),
         Occurs(src, b, Joined(p)),
         b + Len(Joined(p)) < Len(src) => src[(b + Len(Joined(p))) + 1] # p[1][1]
  PROVE  /\ src[b + 1] \in Quote
         /\ skipQuoted(src, b + 1) = (b + Len(Joined(p))) + 1
<1>1. PICK q \in Quote : /\ p[1] = <<q>> /\ p[Len(p)] = <<q>>
                         /\ \A k \in 2 .. Len(p) - 1 : p[k] \in QuotedPart(q)
  BY Zenon DEF IsQuoted
<1>2. Len(p) \in Nat /\ Len(p) > 1
  BY DEF IsQuoted
<1>3. \A k \in 1 .. Len(p) : p[k] \in Seq(Char) /\ Len(p[k]) > 0
  <2> SUFFICES ASSUME NEW k \in 1 .. Len(p) PROVE p[k] \in Seq(Char) /\ Len(p[k]) > 0
    BY Zenon
  <2>1. p[k] \in Seq(Char)
    OBVIOUS
  <2>2. CASE k \in 2 .. Len(p) - 1
    <3>1. p[k] \in QuotedPart(q)
      BY <1>1, <2>2, Zenon
    <3>2. (\E c : p[k] = <<c>>) \/ (\E c, d : p[k] = <<c, d>>)
      BY <3>1, Zenon DEF QuotedPart
    <3>3. (\A c : Len(<<c>>) > 0) /\ (\A c, d : Len(<<c, d>>) > 0)
      OBVIOUS
    <3> QED
      BY <2>1, <3>2, <3>3, Zenon
  <2>3. CASE k \notin 2 .. Len(p) - 1
    <3>1. k = 1 \/ k = Len(p)
      BY <1>2, <2>3
    <3>2. p[k] = <<q>>
      BY <1>1, <3>1, Zenon
    <3> QED
      BY <2>1, <3>2
  <2> QED
    BY <2>2, <2>3, Zenon
<1> DEFINE E(k) == EndFrom(b, p, k)
           e == b + Len(Joined(p))
           step == [s \in Skip |-> QuotedTurn(src, q, s)]
           first == [i |-> b + 2, depth |-> 1]
           S(k) == Turns(step, first, k)
           At1(k) == [i |-> E(k) + 1, depth |-> 1]
           T == {k \in Nat : k + 1 <= Len(p) - 1 => S(k) = At1(k + 1)}
<1>4. E(0) = b /\ E(Len(p)) = e /\ e \in Nat
  BY PartsOccur, Zenon
<1>5. \A k \in 1 .. Len(p) : /\ E(k - 1) \in Nat /\ E(k) = E(k - 1) + Len(p[k])
                             /\ Occurs(src, E(k - 1), p[k])
  BY PartsOccur, Zenon
<1> HIDE DEF E
<1>6. b + 1 <= Len(src) /\ src[b + 1] = q
  <2>1. 1 \in 1 .. Len(p) /\ E(1 - 1) = b
    BY <1>2, <1>4
  <2>2. Occurs(src, b, <<q>>)
    BY <1>1, <1>5, <2>1, Zenon
  <2> QED
    BY <2>2 DEF Occurs
<1>7. step \in [Skip -> Skip] /\ first \in Skip
  BY QuotedTurnType DEF Skip
<1>8. S(0) = first /\ \A k \in Nat : S(k + 1) = QuotedTurn(src, q, S(k))
  <2>1. S(0) = first /\ (\A k \in Nat : S(k) \in Skip) /\ \A k \in Nat : S(k + 1) = step[S(k)]
    <3> HIDE DEF step, first
    <3>1. RunsIn(Skip, step, first)
      BY <1>7, TurnsRun, Zenon
    <3> QED
      BY <3>1, Zenon DEF RunsIn
  <2> HIDE DEF S
  <2> QED
    BY <2>1, Zenon
<1>9. S(0) = At1(1)
  <2>1. E(1) = b + 1
    <3>1. 1 \in 1 .. Len(p) /\ E(1 - 1) = b /\ Len(<<q>>) = 1
      BY <1>2, <1>4
    <3> QED
      BY <1>1, <1>5, <3>1, Zenon
  <2> HIDE DEF S
  <2> QED
    BY <1>8, <2>1
<1> HIDE DEF S
<1>10. ASSUME NEW k \in Nat, k + 2 <= Len(p) - 1, S(k) = At1(k + 1)
       PROVE  S(k + 1) = At1(k + 2)
  <2>1. k + 2 \in 2 .. Len(p) - 1 /\ k + 2 \in 1 .. Len(p) /\ (k + 2) - 1 = k + 1
    BY <1>2, <1>10
  <2>2. E(k + 1) \in Nat /\ E(k + 2) = E(k + 1) + Len(p[k + 2]) /\ Occurs(src, E(k + 1), p[k + 2])
    BY <1>5, <2>1, Zenon
  <2>3. p[k + 2] \in QuotedPart(q)
    BY <1>1, <2>1, Zenon
  <2>4. QuotedTurn(src, q, At1(k + 1)) = At1(k + 2)
    <3>1. QuotedTurn(src, q, [i |-> E(k + 1) + 1, depth |-> 1]) =
            [i |-> (E(k + 1) + Len(p[k + 2])) + 1, depth |-> 1]
      BY <2>2, <2>3, QuotedTurnPart, Zenon
    <3> QED
      BY <2>2, <3>1, Zenon
  <2> HIDE DEF At1
  <2> QED
    BY <1>8, <1>10, <2>4, Zenon
<1>11. S(Len(p) - 2) = At1(Len(p) - 1)
  <2> HIDE DEF At1
  <2>1. 0 \in T
    BY <1>9
  <2>2. ASSUME NEW k \in Nat, k \in T PROVE k + 1 \in T
    <3> SUFFICES ASSUME (k + 1) + 1 <= Len(p) - 1 PROVE S(k + 1) = At1((k + 1) + 1)
      OBVIOUS
    <3>1. (k + 1) + 1 = k + 2 /\ k + 1 <= Len(p) - 1
      BY <1>2
    <3> QED
      BY <1>10, <2>2, <3>1, Zenon
  <2>3. \A k \in Nat : k \in T
    <3> HIDE DEF T
    <3> QED
      BY <2>1, <2>2, SetInduction, Zenon
  <2>4. Len(p) - 2 \in Nat /\ (Len(p) - 2) + 1 = Len(p) - 1 /\ Len(p) - 1 <= Len(p) - 1
    BY <1>2
  <2> QED
    BY <2>3, <2>4, Zenon
<1>12. S(Len(p) - 1) = [i |-> e + 1, depth |-> 0]
  <2>1. Len(p) \in 1 .. Len(p) /\ Len(p) - 2 \in Nat /\ (Len(p) - 2) + 1 = Len(p) - 1 /\ Len(<<q>>) = 1
    BY <1>2
  <2>2. E(Len(p)) = e
    BY <1>4, Zenon
  <2>3. E(Len(p) - 1) \in Nat /\ e = E(Len(p) - 1) + 1 /\ Occurs(src, E(Len(p) - 1), <<q>>)
    BY <1>1, <1>5, <2>1, <2>2, Zenon
  <2>4. E(Len(p) - 1) + 1 < Len(src) => src[E(Len(p) - 1) + 2] # q
    <3>1. p[1][1] = q
      BY <1>1
    <3>2. E(Len(p) - 1) + 2 = e + 1
      BY <2>3
    <3> QED
      BY <2>3, <3>1, <3>2, Zenon
  <2>5. QuotedTurn(src, q, At1(Len(p) - 1)) = [i |-> E(Len(p) - 1) + 2, depth |-> 0]
    BY <2>3, <2>4, QuotedTurnLast, Zenon
  <2>6. E(Len(p) - 1) + 2 = e + 1
    BY <2>3
  <2> HIDE DEF At1, e
  <2> QED
    BY <1>8, <1>11, <2>1, <2>5, <2>6, Zenon
<1>13. S(Len(src)) = S(Len(p) - 1)
  <2>1. Len(p) - 1 \in Nat /\ Len(src) \in Nat /\ Len(p) - 1 <= Len(src)
    <3>1. Len(p) <= Len(src)
      BY <1>3, PartsAreFew, Zenon
    <3> QED
      BY <1>2, <3>1
  <2>2. e \in Nat
    BY <1>4, Zenon
  <2>3. step[S(Len(p) - 1)] = S(Len(p) - 1)
    <3> HIDE DEF e
    <3>1. [i |-> e + 1, depth |-> 0] \in Skip
      BY <2>2 DEF Skip
    <3> QED
      BY <1>12, <2>2, <3>1 DEF QuotedTurn
  <2> HIDE DEF step, first
  <2> QED
    BY <1>7, <2>1, <2>3, TurnsStay, Zenon DEF S
<1>14. skipQuoted(src, b + 1) = S(Len(src)).i
  <2>1. (b + 1) + 1 = b + 2
    OBVIOUS
  <2> QED
    BY <1>6, <2>1, Zenon DEF skipQuoted, S
<1>15. S(Len(src)).i = e + 1
  <2> HIDE DEF e
  <2> QED
    BY <1>12, <1>13
<1> QED
  BY <1>6, <1>14, <1>15, Zenon

-----------------------------------------------------------------------------
(* Block comments.                                                         *)

(* How many of the first n parts are x. *)
Count(p, x, n) == Cardinality({j \in 1 .. n : p[j] = x})

(* Counting them one part at a time. *)
LEMMA CountStep ==
  ASSUME NEW p, NEW x, NEW k \in Nat
  PROVE  /\ Count(p, x, k) \in Nat
         /\ p[k + 1] = x => Count(p, x, k + 1) = Count(p, x, k) + 1
         /\ p[k + 1] # x => Count(p, x, k + 1) = Count(p, x, k)
<1> DEFINE C(n) == {j \in 1 .. n : p[j] = x}
<1>1. IsFiniteSet(C(k))
  <2>1. IsFiniteSet(1 .. k) /\ C(k) \subseteq 1 .. k
    BY FS_Interval
  <2> QED
    BY <2>1, FS_Subset, Zenon
<1>2. Cardinality(C(k)) \in Nat
  BY <1>1, FS_CardinalityType, Zenon
<1>3. CASE p[k + 1] = x
  <2>1. C(k + 1) = C(k) \cup {k + 1} /\ k + 1 \notin C(k)
    BY <1>3
  <2> HIDE DEF C
  <2>2. Cardinality(C(k + 1)) = Cardinality(C(k)) + 1
    BY <1>1, <2>1, FS_AddElement, Zenon
  <2> QED
    BY <1>2, <1>3, <2>2, Zenon DEF C, Count
<1>4. CASE p[k + 1] # x
  <2>1. C(k + 1) = C(k)
    BY <1>4
  <2> HIDE DEF C
  <2> QED
    BY <1>2, <1>4, <2>1, Zenon DEF C, Count
<1> QED
  BY <1>3, <1>4, Zenon

(* An opener adds a level, a closer takes one away, and other parts do neither. *)
LEMMA DepthStep ==
  ASSUME NEW p, NEW k \in Nat
  PROVE  /\ Depth(p, 0) = 0 /\ Depth(p, k) \in Int
         /\ p[k + 1] = Opener => Depth(p, k + 1) = Depth(p, k) + 1
         /\ p[k + 1] = Closer => Depth(p, k + 1) = Depth(p, k) - 1
         /\ p[k + 1] \notin {Opener, Closer} => Depth(p, k + 1) = Depth(p, k)
<1>1. \A x : Count(p, x, 0) = 0
  <2>1. \A x : {j \in 1 .. 0 : p[j] = x} = {}
    OBVIOUS
  <2> QED
    BY <2>1, FS_EmptySet, Zenon DEF Count
<1>2. \A n : Depth(p, n) = Count(p, Opener, n) - Count(p, Closer, n)
  BY Zenon DEF Depth, Count
<1>3. Opener # Closer
  BY Zenon DEF Opener, Closer
<1>4. /\ Count(p, Opener, k) \in Nat /\ Count(p, Closer, k) \in Nat
      /\ p[k + 1] = Opener => Count(p, Opener, k + 1) = Count(p, Opener, k) + 1
      /\ p[k + 1] # Opener => Count(p, Opener, k + 1) = Count(p, Opener, k)
      /\ p[k + 1] = Closer => Count(p, Closer, k + 1) = Count(p, Closer, k) + 1
      /\ p[k + 1] # Closer => Count(p, Closer, k + 1) = Count(p, Closer, k)
  BY CountStep, Zenon
<1>5. Count(p, Opener, 0) = 0 /\ Count(p, Closer, 0) = 0
  BY <1>1, Zenon
<1>6. /\ Depth(p, 0) = Count(p, Opener, 0) - Count(p, Closer, 0)
      /\ Depth(p, k) = Count(p, Opener, k) - Count(p, Closer, k)
      /\ Depth(p, k + 1) = Count(p, Opener, k + 1) - Count(p, Closer, k + 1)
  BY <1>2, Zenon
<1> QED
  BY <1>3, <1>4, <1>5, <1>6

(* A turn over a comment stays within the states of a skip. *)
LEMMA CommentTurnType ==
  ASSUME NEW src, NEW s \in Skip
  PROVE  CommentTurn(src, s) \in Skip
  BY DEF CommentTurn, Skip

(* One turn passes one part of a comment and counts what it opens or closes. *)
LEMMA CommentTurnPart ==
  ASSUME NEW src \in Seq(Char), NEW a \in Nat, NEW d \in Nat \ {0}, NEW u \in Seq(Char),
         Occurs(src, a, u)
  PROVE  /\ u = Opener => CommentTurn(src, [i |-> a + 1, depth |-> d]) = [i |-> a + 3, depth |-> d + 1]
         /\ u = Closer => CommentTurn(src, [i |-> a + 1, depth |-> d]) = [i |-> a + 3, depth |-> d - 1]
         /\ \A c : u = <<c>> /\ (a + 1 < Len(src) => <<c, src[a + 2]>> \notin {Opener, Closer}) =>
              CommentTurn(src, [i |-> a + 1, depth |-> d]) = [i |-> a + 2, depth |-> d]
<1>1. ASSUME u = Opener
      PROVE  CommentTurn(src, [i |-> a + 1, depth |-> d]) = [i |-> a + 3, depth |-> d + 1]
  <2>1. a + 2 <= Len(src) /\ src[a + 1] = "/" /\ src[a + 2] = "*"
    BY <1>1 DEF Occurs, Opener
  <2> QED
    BY <2>1 DEF CommentTurn, At
<1>2. ASSUME u = Closer
      PROVE  CommentTurn(src, [i |-> a + 1, depth |-> d]) = [i |-> a + 3, depth |-> d - 1]
  <2>1. a + 2 <= Len(src) /\ src[a + 1] = "*" /\ src[a + 2] = "/"
    BY <1>2 DEF Occurs, Closer
  <2> QED
    BY <2>1 DEF CommentTurn, At
<1>3. ASSUME NEW c, u = <<c>>, a + 1 < Len(src) => <<c, src[a + 2]>> \notin {Opener, Closer}
      PROVE  CommentTurn(src, [i |-> a + 1, depth |-> d]) = [i |-> a + 2, depth |-> d]
  <2>1. a + 1 <= Len(src) /\ src[a + 1] = c
    BY <1>3 DEF Occurs
  <2>2. ~(At(src, a + 1, "/") /\ At(src, a + 2, "*")) /\ ~(At(src, a + 1, "*") /\ At(src, a + 2, "/"))
    BY <1>3, <2>1 DEF At, Opener, Closer
  <2>3. (a + 1) + 1 = a + 2
    OBVIOUS
  <2> QED
    BY <2>1, <2>2, <2>3 DEF CommentTurn
<1> QED
  BY <1>1, <1>2, <1>3, Zenon

(* The scan of a comment ends where the outermost one does. *)
LEMMA BlockIsSkipped ==
  ASSUME NEW src \in Seq(Char), NEW b \in Nat, NEW p \in Seq(Seq(Char)), IsBlock(p),
         Occurs(src, b, Joined(p))
  PROVE  /\ At(src, b + 1, "/") /\ At(src, b + 2, "*")
         /\ skipComment(src, b + 3) = (b + Len(Joined(p))) + 1
<1>1. /\ Len(p) \in Nat /\ Len(p) > 0 /\ p[1] = Opener /\ 1 \in 1 .. Len(p)
      /\ \A k \in 1 .. Len(p) : p[k] \in {Opener, Closer} \cup {<<c>> : c \in Char}
  BY DEF IsBlock
<1>2. /\ \A k \in 1 .. Len(p) : Depth(p, k) > 0 <=> k < Len(p)
      /\ \A k \in 1 .. Len(p) - 1 : Len(p[k]) = 1 => <<p[k][1], p[k + 1][1]>> \notin {Opener, Closer}
  BY Zenon DEF IsBlock
<1>3. \A k \in 1 .. Len(p) : p[k] \in Seq(Char) /\ Len(p[k]) > 0
  <2> SUFFICES ASSUME NEW k \in 1 .. Len(p) PROVE p[k] \in Seq(Char) /\ Len(p[k]) > 0
    BY Zenon
  <2>1. p[k] \in Seq(Char)
    OBVIOUS
  <2>2. (\E c : p[k] = <<c>>) \/ (\E c, d : p[k] = <<c, d>>)
    BY <1>1, Zenon DEF Opener, Closer
  <2>3. (\A c : Len(<<c>>) > 0) /\ (\A c, d : Len(<<c, d>>) > 0)
    OBVIOUS
  <2> QED
    BY <2>1, <2>2, <2>3, Zenon
<1> DEFINE E(k) == EndFrom(b, p, k)
           D(k) == Depth(p, k)
           e == b + Len(Joined(p))
           step == [s \in Skip |-> CommentTurn(src, s)]
           first == [i |-> b + 3, depth |-> 1]
           S(k) == Turns(step, first, k)
           There(k) == [i |-> E(k) + 1, depth |-> D(k)]
           T == {k \in Nat : k + 1 <= Len(p) => S(k) = There(k + 1)}
<1>4. E(0) = b /\ E(Len(p)) = e /\ e \in Nat
  BY PartsOccur, Zenon
<1>5. \A k \in 1 .. Len(p) : /\ E(k - 1) \in Nat /\ E(k) = E(k - 1) + Len(p[k])
                             /\ Occurs(src, E(k - 1), p[k])
  BY PartsOccur, Zenon
<1> HIDE DEF E
<1>6. b + 2 <= Len(src) /\ src[b + 1] = "/" /\ src[b + 2] = "*" /\ E(1) = b + 2
  <2>1. E(1 - 1) = b /\ Len(Opener) = 2
    BY <1>4 DEF Opener
  <2>2. Occurs(src, b, Opener) /\ E(1) = b + 2
    BY <1>1, <1>5, <2>1, Zenon
  <2> QED
    BY <2>2 DEF Occurs, Opener
<1>7. step \in [Skip -> Skip] /\ first \in Skip
  BY CommentTurnType DEF Skip
<1>8. S(0) = first /\ (\A k \in Nat : S(k) \in Skip) /\ \A k \in Nat : S(k + 1) = CommentTurn(src, S(k))
  <2>1. S(0) = first /\ (\A k \in Nat : S(k) \in Skip) /\ \A k \in Nat : S(k + 1) = step[S(k)]
    <3> HIDE DEF step, first
    <3>1. RunsIn(Skip, step, first)
      BY <1>7, TurnsRun, Zenon
    <3> QED
      BY <3>1, Zenon DEF RunsIn
  <2> HIDE DEF S
  <2> QED
    BY <2>1, Zenon
<1> HIDE DEF S
<1>9. S(0) = There(1)
  <2>1. Depth(p, 0) = 0 /\ (p[0 + 1] = Opener => Depth(p, 0 + 1) = Depth(p, 0) + 1)
    BY DepthStep, Zenon
  <2>2. D(1) = 1
    BY <1>1, <2>1
  <2> HIDE DEF D
  <2> QED
    BY <1>6, <1>8, <2>2
<1>10. ASSUME NEW k \in Nat, k + 2 <= Len(p), S(k) = There(k + 1)
       PROVE  S(k + 1) = There(k + 2)
  <2>1. /\ k + 2 \in 1 .. Len(p) /\ k + 1 \in 1 .. Len(p) /\ (k + 2) - 1 = k + 1 /\ k + 1 \in Nat
        /\ (k + 1) + 1 = k + 2 /\ k + 1 < Len(p)
    BY <1>1, <1>10
  <2> DEFINE u == p[k + 2]
             a == E(k + 1)
             d == D(k + 1)
  <2>2. a \in Nat /\ E(k + 2) = a + Len(u) /\ Occurs(src, a, u) /\ u \in Seq(Char)
    BY <1>3, <1>5, <2>1, Zenon
  <2>3. /\ d \in Int
        /\ u = Opener => D(k + 2) = d + 1
        /\ u = Closer => D(k + 2) = d - 1
        /\ u \notin {Opener, Closer} => D(k + 2) = d
    BY <2>1, DepthStep, Zenon
  <2>4. d \in Nat \ {0}
    BY <1>2, <2>1, <2>3
  <2>5. u \in {Opener, Closer} \cup {<<c>> : c \in Char}
    BY <1>1, <2>1, Zenon
  <2>6. S(k + 1) = CommentTurn(src, [i |-> a + 1, depth |-> d])
    BY <1>8, <1>10, Zenon
  <2>7. There(k + 2) = [i |-> E(k + 2) + 1, depth |-> D(k + 2)]
    OBVIOUS
  <2>8. ASSUME NEW c \in Char, u = <<c>>
        PROVE  /\ D(k + 2) = d
               /\ a + 1 < Len(src) => <<c, src[a + 2]>> \notin {Opener, Closer}
    <3>1. D(k + 2) = d
      <4>1. <<c>> # Opener /\ <<c>> # Closer
        BY Zenon DEF Opener, Closer
      <4> HIDE DEF u
      <4> QED
        BY <2>3, <2>8, <4>1, Zenon
    <3>2. k + 2 < Len(p)
      <4>1. D(k + 2) > 0
        BY <2>4, <3>1
      <4> QED
        BY <1>2, <2>1, <4>1, Zenon
    <3>3. /\ k + 3 \in 1 .. Len(p) /\ (k + 3) - 1 = k + 2 /\ (k + 2) + 1 = k + 3
          /\ k + 2 \in 1 .. Len(p) - 1
      BY <1>1, <3>2
    <3>4. Occurs(src, E(k + 2), p[k + 3]) /\ p[k + 3] \in Seq(Char) /\ Len(p[k + 3]) > 0
      BY <1>3, <1>5, <3>3, Zenon
    <3>5. E(k + 2) = a + 1
      BY <2>2, <2>8, Zenon
    <3>6. src[a + 2] = p[k + 3][1]
      <4> DEFINE v == p[k + 3]
      <4> HIDE DEF v, a
      <4>1. Occurs(src, a + 1, v) /\ v \in Seq(Char) /\ Len(v) > 0
        BY <3>4, <3>5, Zenon DEF v, a
      <4>2. 1 \in 1 .. Len(v) /\ (a + 1) + 1 = a + 2
        BY <2>2, <4>1
      <4> QED
        BY <4>1, <4>2, Zenon DEF Occurs, v
    <3>7. Len(u) = 1 /\ u[1] = c
      BY <2>8
    <3>8. <<u[1], p[k + 3][1]>> \notin {Opener, Closer}
      BY <1>2, <3>3, <3>7, Zenon
    <3> QED
      BY <3>1, <3>6, <3>7, <3>8, Zenon
  <2>9. Len(Opener) = 2 /\ Len(Closer) = 2 /\ \A c : Len(<<c>>) = 1
    BY Zenon DEF Opener, Closer
  <2> HIDE DEF u, a, d, D, There
  <2>10. /\ u = Opener => CommentTurn(src, [i |-> a + 1, depth |-> d]) = [i |-> a + 3, depth |-> d + 1]
         /\ u = Closer => CommentTurn(src, [i |-> a + 1, depth |-> d]) = [i |-> a + 3, depth |-> d - 1]
         /\ \A c : u = <<c>> /\ (a + 1 < Len(src) => <<c, src[a + 2]>> \notin {Opener, Closer}) =>
               CommentTurn(src, [i |-> a + 1, depth |-> d]) = [i |-> a + 2, depth |-> d]
    BY <2>2, <2>4, CommentTurnPart, Zenon
  <2>11. (a + 2) + 1 = a + 3 /\ (a + 1) + 1 = a + 2
    BY <2>2
  <2>12. CASE u = Opener
    BY <2>2, <2>3, <2>6, <2>7, <2>10, <2>9, <2>11, <2>12, Zenon
  <2>13. CASE u = Closer
    BY <2>2, <2>3, <2>6, <2>7, <2>10, <2>9, <2>11, <2>13, Zenon
  <2>14. ASSUME NEW c \in Char, u = <<c>> PROVE S(k + 1) = There(k + 2)
    <3>1. D(k + 2) = d /\ CommentTurn(src, [i |-> a + 1, depth |-> d]) = [i |-> a + 2, depth |-> d]
      BY <2>8, <2>10, <2>14, Zenon
    <3>2. E(k + 2) + 1 = a + 2
      BY <2>2, <2>9, <2>11, <2>14, Zenon
    <3> QED
      BY <2>6, <2>7, <3>1, <3>2, Zenon
  <2> QED
    BY <2>5, <2>12, <2>13, <2>14, Zenon
<1>11. S(Len(p) - 1) = There(Len(p))
  <2> HIDE DEF There
  <2>1. 0 \in T
    BY <1>9
  <2>2. ASSUME NEW k \in Nat, k \in T PROVE k + 1 \in T
    <3> SUFFICES ASSUME (k + 1) + 1 <= Len(p) PROVE S(k + 1) = There((k + 1) + 1)
      OBVIOUS
    <3>1. (k + 1) + 1 = k + 2 /\ k + 1 <= Len(p)
      BY <1>1
    <3> QED
      BY <1>10, <2>2, <3>1, Zenon
  <2>3. \A k \in Nat : k \in T
    <3> HIDE DEF T
    <3> QED
      BY <2>1, <2>2, SetInduction, Zenon
  <2>4. Len(p) - 1 \in Nat /\ (Len(p) - 1) + 1 = Len(p) /\ Len(p) <= Len(p)
    BY <1>1
  <2> QED
    BY <2>3, <2>4, Zenon
<1>12. S(Len(p) - 1) = [i |-> e + 1, depth |-> 0]
  <2>1. Len(p) - 1 \in Nat /\ Len(p) \in 1 .. Len(p) /\ ~(Len(p) < Len(p))
    BY <1>1
  <2>2. S(Len(p) - 1).depth \in Nat
    BY <1>8, <2>1, Zenon DEF Skip
  <2>3. D(Len(p)) \in Nat
    BY <1>11, <2>2
  <2>4. ~(D(Len(p)) > 0)
    BY <1>2, <2>1, Zenon
  <2>5. D(Len(p)) = 0
    BY <2>3, <2>4
  <2> HIDE DEF e, D
  <2> QED
    BY <1>4, <1>11, <2>5, Zenon
<1>13. S(Len(src)) = S(Len(p) - 1)
  <2>1. Len(p) - 1 \in Nat /\ Len(src) \in Nat /\ Len(p) - 1 <= Len(src)
    <3>1. Len(p) <= Len(src)
      BY <1>3, PartsAreFew, Zenon
    <3> QED
      BY <1>1, <3>1
  <2>2. step[S(Len(p) - 1)] = S(Len(p) - 1)
    <3> HIDE DEF e
    <3>1. [i |-> e + 1, depth |-> 0] \in Skip
      BY <1>4 DEF Skip
    <3> QED
      BY <1>12, <3>1 DEF CommentTurn
  <2> HIDE DEF step, first
  <2> QED
    BY <1>7, <2>1, <2>2, TurnsStay, Zenon DEF S
<1>14. skipComment(src, b + 3) = S(Len(src)).i
  BY Zenon DEF skipComment, S
<1>15. S(Len(src)).i = e + 1
  <2> HIDE DEF e
  <2> QED
    BY <1>12, <1>13
<1>16. At(src, b + 1, "/") /\ At(src, b + 2, "*")
  BY <1>6 DEF At
<1> QED
  BY <1>14, <1>15, <1>16, Zenon

-----------------------------------------------------------------------------
(* Line comments and dollar-quoted strings.                                *)

(* The first place is the least of them. *)
LEMMA FirstIs ==
  ASSUME NEW src \in Seq(Char), NEW places, NEW x \in places,
         \A j \in places : j \in Nat /\ j <= Len(src) /\ x <= j
  PROVE  FirstOf(src, places) = x
<1> DEFINE IsFirst(i) == i \in places \cup {Len(src) + 1} /\ \A j \in places : i <= j
<1>1. x \in Nat /\ Len(src) \in Nat /\ x <= Len(src)
  OBVIOUS
<1>2. \A i : IsFirst(i) => i = x
  BY <1>1
<1>3. IsFirst(x)
  OBVIOUS
<1>4. FirstOf(src, places) = CHOOSE i : IsFirst(i)
  BY Zenon DEF FirstOf
<1> HIDE DEF IsFirst
<1> QED
  BY <1>2, <1>3, <1>4, Zenon

(* Where there is no place, the search comes to the end. *)
LEMMA FirstNone ==
  ASSUME NEW src
  PROVE  FirstOf(src, {}) = Len(src) + 1
  BY Zenon DEF FirstOf

(* The scan of a line comment ends before the end of the line. *)
LEMMA LineIsSkipped ==
  ASSUME NEW src \in Seq(Char), NEW b \in Nat, NEW p \in Seq(Seq(Char)), IsLine(p),
         Occurs(src, b, Joined(p)),
         b + Len(Joined(p)) < Len(src) => src[(b + Len(Joined(p))) + 1] = "\n"
  PROVE  /\ b + 1 <= Len(src) /\ (src[b + 1] = "#" \/ (src[b + 1] = "-" /\ At(src, b + 2, "-")))
         /\ FirstOf(src, {k \in b + 1 .. Len(src) : src[k] = "\n"}) = (b + Len(Joined(p))) + 1
<1> DEFINE e == b + Len(Joined(p))
           m == Len(p[1])
           places == {k \in b + 1 .. Len(src) : src[k] = "\n"}
<1>1. /\ Len(p) = 2 /\ p[1] \in {<<"#">>, <<"-", "-">>} /\ p[2] \in Seq(Char \ {"\n"})
      /\ 1 \in 1 .. Len(p) /\ 2 \in 1 .. Len(p) /\ p[1] \in Seq(Char) /\ p[2] \in Seq(Char)
  BY DEF IsLine
<1>2. /\ EndFrom(b, p, 0) = b /\ EndFrom(b, p, Len(p)) = e /\ e \in Nat /\ e <= Len(src)
      /\ \A k \in 1 .. Len(p) : /\ EndFrom(b, p, k) = EndFrom(b, p, k - 1) + Len(p[k])
                                /\ Occurs(src, EndFrom(b, p, k - 1), p[k])
  BY PartsOccur, Zenon
<1>3. 1 - 1 = 0 /\ 2 - 1 = 1
  OBVIOUS
<1>4. EndFrom(b, p, 1) = b + m /\ Occurs(src, b, p[1])
  BY <1>1, <1>2, <1>3, Zenon
<1>5. e = (b + m) + Len(p[2]) /\ Occurs(src, b + m, p[2])
  BY <1>1, <1>2, <1>3, <1>4, Zenon
<1>6. m \in {1, 2} /\ \A i \in 1 .. m : p[1][i] # "\n"
  <2>1. CASE p[1] = <<"#">>
    BY <2>1
  <2>2. CASE p[1] = <<"-", "-">>
    BY <2>2
  <2> QED
    BY <1>1, <2>1, <2>2, Zenon
<1>7. \A i \in 1 .. Len(p[2]) : p[2][i] # "\n"
  BY <1>1
<1>8. ASSUME NEW k \in b + 1 .. Len(src), k <= e PROVE src[k] # "\n"
  <2>1. CASE k <= b + m
    <3>1. k - b \in 1 .. m /\ b + (k - b) = k
      BY <1>6, <2>1
    <3> QED
      BY <1>4, <1>6, <3>1, ZenonT(60) DEF Occurs
  <2>2. CASE k > b + m
    <3>1. k - (b + m) \in 1 .. Len(p[2]) /\ (b + m) + (k - (b + m)) = k
      BY <1>1, <1>5, <1>6, <1>8, <2>2
    <3>2. src[(b + m) + (k - (b + m))] = p[2][k - (b + m)]
      BY <1>5, <3>1, Zenon DEF Occurs
    <3> QED
      BY <1>7, <3>1, <3>2, Zenon
  <2> QED
    BY <1>6, <2>1, <2>2
<1>9. b + 1 <= Len(src) /\ (src[b + 1] = "#" \/ (src[b + 1] = "-" /\ At(src, b + 2, "-")))
  <2>1. CASE p[1] = <<"#">>
    BY <1>4, <2>1 DEF Occurs
  <2>2. CASE p[1] = <<"-", "-">>
    BY <1>4, <2>2 DEF Occurs, At
  <2> QED
    BY <1>1, <2>1, <2>2, Zenon
<1> HIDE DEF e
<1>10. CASE e < Len(src)
  <2>1. b + 1 <= e + 1 /\ e + 1 \in b + 1 .. Len(src)
    BY <1>1, <1>2, <1>5, <1>6, <1>10
  <2>2. e + 1 \in places
    BY <1>10, <2>1, Zenon DEF e
  <2>3. \A j \in places : j \in Nat /\ j <= Len(src) /\ e + 1 <= j
    BY <1>2, <1>8
  <2> HIDE DEF places
  <2>4. FirstOf(src, places) = e + 1
    BY <2>2, <2>3, FirstIs, Zenon
  <2> QED
    BY <1>9, <2>4, Zenon DEF places, e
<1>11. CASE ~(e < Len(src))
  <2>1. e = Len(src)
    BY <1>2, <1>11
  <2>2. places = {}
    BY <1>8, <2>1
  <2>3. FirstOf(src, places) = e + 1
    BY <2>1, <2>2, FirstNone, Zenon
  <2> QED
    BY <1>9, <2>3, Zenon DEF places, e
<1> QED
  BY <1>10, <1>11, Zenon

(* The n characters of src from the i-th behind a on are those of u from the i-th on. *)
SameSection(src, a, u, i, n) == SubSeq(src, a + i, a + i + n - 1) = SubSeq(u, i, i + n - 1)

(* The sections of a text that stands in src are sections of src. *)
LEMMA OccursSection ==
  ASSUME NEW src \in Seq(Char), NEW a \in Nat, NEW u \in Seq(Char), Occurs(src, a, u),
         NEW i \in Nat, NEW n \in Nat, 0 < i, i + n - 1 <= Len(u)
  PROVE  SameSection(src, a, u, i, n)
<1>1. Len(u) \in Nat /\ Len(src) \in Nat /\ a + Len(u) <= Len(src)
  BY DEF Occurs
<1> DEFINE x == SubSeq(src, a + i, a + i + n - 1)
           y == SubSeq(u, i, i + n - 1)
<1>2. x = [k \in 1 .. n |-> src[a + i + k - 1]] /\ y = [k \in 1 .. n |-> u[i + k - 1]]
  BY <1>1
<1>3. ASSUME NEW k \in 1 .. n PROVE src[a + i + k - 1] = u[i + k - 1]
  <2>1. i + k - 1 \in 1 .. Len(u) /\ a + (i + k - 1) = a + i + k - 1
    BY <1>1
  <2>2. src[a + (i + k - 1)] = u[i + k - 1]
    BY <2>1, Zenon DEF Occurs
  <2> QED
    BY <2>1, <2>2, Zenon
<1> QED
  BY <1>2, <1>3, Zenon DEF SameSection

(* Two texts that stand next to each other stand there as one. *)
LEMMA OccursNext ==
  ASSUME NEW src \in Seq(Char), NEW a \in Nat, NEW u \in Seq(Char), NEW v \in Seq(Char),
         Occurs(src, a, u), Occurs(src, a + Len(u), v)
  PROVE  Occurs(src, a, u \o v)
<1>1. Len(u \o v) = Len(u) + Len(v) /\ Len(u) \in Nat /\ Len(v) \in Nat /\ Len(src) \in Nat
  OBVIOUS
<1>2. (a + Len(u)) + Len(v) <= Len(src)
  BY Zenon DEF Occurs
<1>3. ASSUME NEW i \in 1 .. Len(u \o v) PROVE src[a + i] = (u \o v)[i]
  <2>1. CASE i <= Len(u)
    BY <1>1, <2>1 DEF Occurs
  <2>2. CASE i > Len(u)
    <3>1. i - Len(u) \in 1 .. Len(v) /\ (a + Len(u)) + (i - Len(u)) = a + i
      BY <1>1, <2>2
    <3>2. src[(a + Len(u)) + (i - Len(u))] = v[i - Len(u)]
      BY <3>1, Zenon DEF Occurs
    <3>3. (u \o v)[i] = v[i - Len(u)]
      BY <1>1, <2>2
    <3> QED
      BY <3>1, <3>2, <3>3, Zenon
  <2> QED
    BY <1>1, <2>1, <2>2
<1> QED
  BY <1>1, <1>2, <1>3 DEF Occurs

(* dollarTag finds the end of the tag, and skipDollarQuoted the end of the string. *)
LEMMA DollarIsSkipped ==
  ASSUME NEW src \in Seq(Char), NEW b \in Nat, NEW p \in Seq(Seq(Char)), IsDollar(p),
         Occurs(src, b, Joined(p))
  PROVE  /\ b + 1 <= Len(src) /\ src[b + 1] = "$" /\ dollarTag(src, b + 1) <= Len(src)
         /\ skipDollarQuoted(src, b + 1, dollarTag(src, b + 1)) = (b + Len(Joined(p))) + 1
<1> DEFINE e == b + Len(Joined(p))
           t == p[1]
           c == p[2]
           m == Len(t)
           n == Len(c)
<1>1. /\ Len(p) = 3 /\ p[3] = t /\ t \in Seq(Char) /\ c \in Seq(Char) /\ m \in Nat /\ n \in Nat
      /\ m > 1 /\ t[1] = "$" /\ t[m] = "$"
      /\ 1 \in 1 .. Len(p) /\ 2 \in 1 .. Len(p) /\ 3 \in 1 .. Len(p)
  BY DEF IsDollar
<1>2. /\ \A k \in 2 .. m - 1 : t[k] \in Letter
      /\ \A k \in 1 .. n : SubSeq(c \o t, k, k + m - 1) # t
  BY Zenon DEF IsDollar
<1>3. /\ EndFrom(b, p, 0) = b /\ EndFrom(b, p, Len(p)) = e /\ e \in Nat /\ e <= Len(src)
      /\ \A k \in 1 .. Len(p) : /\ EndFrom(b, p, k) = EndFrom(b, p, k - 1) + Len(p[k])
                                /\ Occurs(src, EndFrom(b, p, k - 1), p[k])
  BY PartsOccur, Zenon
<1>4. 1 - 1 = 0 /\ 2 - 1 = 1 /\ 3 - 1 = 2
  OBVIOUS
<1>5. EndFrom(b, p, 1) = b + m /\ Occurs(src, b, t)
  BY <1>1, <1>3, <1>4, Zenon
<1>6. EndFrom(b, p, 2) = (b + m) + n /\ Occurs(src, b + m, c)
  BY <1>1, <1>3, <1>4, <1>5, Zenon
<1>7. e = ((b + m) + n) + m /\ Occurs(src, (b + m) + n, t)
  BY <1>1, <1>3, <1>4, <1>6, Zenon
<1> HIDE DEF e, t, c, m, n
<1>8. m = Len(t) /\ n = Len(c) /\ Len(src) \in Nat /\ b + m \in Nat
  BY <1>1 DEF m, n
<1>9. "$" \notin Letter
  BY Zenon DEF Letter
<1>10. FirstOf(src, {k \in (b + 1) + 1 .. Len(src) : src[k] \notin Letter}) = b + m
  <2> DEFINE places == {k \in (b + 1) + 1 .. Len(src) : src[k] \notin Letter}
  <2>1. m \in 1 .. Len(t) /\ b + m \in (b + 1) + 1 .. Len(src)
    BY <1>1, <1>3, <1>7, <1>8
  <2>2. src[b + m] = "$"
    BY <1>1, <1>5, <2>1, Zenon DEF Occurs
  <2>3. b + m \in places
    BY <1>9, <2>1, <2>2, Zenon
  <2>4. ASSUME NEW j \in places PROVE j \in Nat /\ j <= Len(src) /\ b + m <= j
    <3>1. j \in Nat /\ j <= Len(src) /\ j >= b + 2 /\ src[j] \notin Letter
      BY <1>8
    <3>2. ASSUME j < b + m PROVE FALSE
      <4>1. j - b \in 2 .. m - 1 /\ j - b \in 1 .. Len(t) /\ b + (j - b) = j
        BY <1>1, <1>8, <3>1, <3>2
      <4>2. src[b + (j - b)] = t[j - b]
        BY <1>5, <4>1, Zenon DEF Occurs
      <4> QED
        BY <1>2, <3>1, <4>1, <4>2, Zenon
    <3> QED
      BY <1>8, <3>1, <3>2
  <2> HIDE DEF places
  <2>5. FirstOf(src, places) = b + m
    BY <2>3, <2>4, FirstIs, Zenon
  <2> QED
    BY <2>5, Zenon DEF places
<1>11. dollarTag(src, b + 1) = b + m /\ b + m <= Len(src)
  <2>1. m \in 1 .. Len(t) /\ b + m <= Len(src)
    BY <1>1, <1>3, <1>7, <1>8
  <2>2. At(src, b + m, "$")
    BY <1>1, <1>5, <2>1, Zenon DEF Occurs, At
  <2> QED
    BY <1>10, <2>1, <2>2, Zenon DEF dollarTag
<1>12. SubSeq(src, b + 1, b + m) = t
  <2>1. SubSeq(src, b + 1, b + 1 + m - 1) = SubSeq(t, 1, 1 + m - 1)
    <3>1. 1 \in Nat /\ m \in Nat /\ 0 < 1 /\ 1 + m - 1 <= Len(t)
      BY <1>1, <1>8
    <3>2. SameSection(src, b, t, 1, m)
      BY <1>1, <1>5, <3>1, OccursSection, Zenon
    <3> QED
      BY <3>2, Zenon DEF SameSection
  <2>2. b + 1 + m - 1 = b + m /\ 1 + m - 1 = m
    BY <1>1
  <2>3. SubSeq(t, 1, m) = t
    BY <1>1, <1>8
  <2> QED
    BY <2>1, <2>2, <2>3, Zenon
<1>13. FirstOf(src, {k \in (b + m) + 1 .. Len(src) + 1 - Len(t) : SubSeq(src, k, k + Len(t) - 1) = t}) =
         ((b + m) + n) + 1
  <2> DEFINE places == {k \in (b + m) + 1 .. Len(src) + 1 - Len(t) : SubSeq(src, k, k + Len(t) - 1) = t}
             x == ((b + m) + n) + 1
  <2>1. x \in Nat /\ x \in (b + m) + 1 .. Len(src) + 1 - Len(t) /\ (b + m) + n \in Nat
    BY <1>1, <1>3, <1>7, <1>8
  <2>2. SubSeq(src, x, x + Len(t) - 1) = t
    <3>1. 1 \in Nat /\ m \in Nat /\ 0 < 1 /\ 1 + m - 1 <= Len(t)
      BY <1>1, <1>8
    <3>2. SubSeq(src, x, ((b + m) + n) + 1 + m - 1) = SubSeq(t, 1, 1 + m - 1)
      <4>1. SameSection(src, (b + m) + n, t, 1, m)
        BY <1>1, <1>7, <2>1, <3>1, OccursSection, Zenon
      <4> QED
        BY <4>1, Zenon DEF SameSection
    <3>3. 1 + m - 1 = m /\ SubSeq(t, 1, m) = t
      BY <1>1, <1>8
    <3> QED
      BY <1>8, <3>2, <3>3, Zenon
  <2>3. x \in places
    BY <2>1, <2>2, Zenon
  <2>4. Occurs(src, b + m, c \o t) /\ c \o t \in Seq(Char) /\ Len(c \o t) = n + m
    <3>1. Occurs(src, b + m, c \o t)
      BY <1>1, <1>6, <1>7, <1>8, OccursNext, Zenon
    <3> QED
      BY <1>1, <1>8, <3>1
  <2>5. ASSUME NEW j \in places PROVE j \in Nat /\ j <= Len(src) /\ x <= j
    <3>1. j \in Nat /\ j <= Len(src) + 1 - m /\ j >= (b + m) + 1
      BY <1>1, <1>8
    <3>2. SubSeq(src, j, j + m - 1) = t
      BY <1>8, Zenon
    <3>3. ASSUME j < x PROVE FALSE
      <4> DEFINE i == j - (b + m)
      <4>1. i \in Nat /\ i \in 1 .. n /\ 0 < i /\ i + m - 1 <= Len(c \o t) /\ (b + m) + i = j
        BY <1>1, <1>8, <2>4, <3>1, <3>3
      <4> HIDE DEF i
      <4>2. SubSeq(src, (b + m) + i, (b + m) + i + m - 1) = SubSeq(c \o t, i, i + m - 1)
        <5>1. SameSection(src, b + m, c \o t, i, m)
          BY <1>1, <1>8, <2>4, <4>1, OccursSection, Zenon
        <5> QED
          BY <5>1, Zenon DEF SameSection
      <4> QED
        BY <1>2, <3>2, <4>1, <4>2, Zenon
    <3> QED
      BY <1>1, <1>8, <2>1, <3>1, <3>3
  <2> HIDE DEF places, x
  <2>6. FirstOf(src, places) = x
    BY <2>3, <2>5, FirstIs, Zenon
  <2> QED
    BY <2>6, Zenon DEF places, x
<1>14. ~(((b + m) + n) + 1 > Len(src)) /\ (((b + m) + n) + 1) + m = e + 1
  BY <1>1, <1>3, <1>7, <1>8
<1>15. skipDollarQuoted(src, b + 1, b + m) = e + 1
  BY <1>8, <1>12, <1>13, <1>14, Zenon DEF skipDollarQuoted
<1>16. b + 1 <= Len(src) /\ src[b + 1] = "$"
  <2>1. 1 \in 1 .. Len(t) /\ b + 1 <= Len(src)
    BY <1>1, <1>8, <1>11
  <2> QED
    BY <1>1, <1>5, <2>1, Zenon DEF Occurs
<1> QED
  BY <1>11, <1>15, <1>16, Zenon DEF e

-----------------------------------------------------------------------------
(* The turns of the scanner.                                               *)

(* What a scanner is made of. *)
LEMMA ScannerFields ==
  ASSUME NEW s \in Scanner
  PROVE  /\ s.i \in Nat /\ s.word \in Seq(Char) /\ s.words \in Seq(Seq(Char))
         /\ s.statements \in Nat /\ s.pending \in BOOLEAN /\ Flushed(s) \in Seq(Seq(Char))
<1>1. /\ s.i \in Nat /\ s.word \in Seq(Char) /\ s.words \in Seq(Seq(Char))
      /\ s.statements \in Nat /\ s.pending \in BOOLEAN
  BY Zenon DEF Scanner
<1>2. Flushed(s) \in Seq(Seq(Char))
  BY <1>1 DEF Flushed
<1> QED
  BY <1>1, <1>2, Zenon

(* The fields of a scanner t. *)
MadeOf(t, i, word, words, n, p) ==
  /\ t \in Scanner /\ t.i = i /\ t.word = word /\ t.words = words /\ t.statements = n /\ t.pending = p

(* What a scanner that goes on is made of. *)
LEMMA GoOnFields ==
  ASSUME NEW s \in Scanner, NEW i \in Nat, NEW n \in Nat, NEW p \in BOOLEAN
  PROVE  MadeOf(GoOn(s, i, n, p), i, <<>>, Flushed(s), n, p)
<1>1. Flushed(s) \in Seq(Seq(Char)) /\ <<>> \in Seq(Char)
  BY ScannerFields
<1>2. GoOn(s, i, n, p) \in Scanner
  BY <1>1, Zenon DEF GoOn, Scanner
<1>3. /\ GoOn(s, i, n, p).i = i /\ GoOn(s, i, n, p).word = <<>> /\ GoOn(s, i, n, p).words = Flushed(s)
      /\ GoOn(s, i, n, p).statements = n /\ GoOn(s, i, n, p).pending = p
  BY Zenon DEF GoOn
<1> QED
  BY <1>2, <1>3, Zenon DEF MadeOf

(* What a scanner that has read one more character of a word is made of. *)
LEMMA SpellFields ==
  ASSUME NEW s \in Scanner, NEW c \in Char, NEW p \in BOOLEAN
  PROVE  MadeOf(Spell(s, c, p), s.i + 1, Append(s.word, c), s.words, s.statements, p)
<1>1. /\ s.i + 1 \in Nat /\ Append(s.word, c) \in Seq(Char) /\ s.words \in Seq(Seq(Char))
      /\ s.statements \in Nat
  BY ScannerFields
<1>2. Spell(s, c, p) \in Scanner
  BY <1>1, Zenon DEF Spell, Scanner
<1>3. /\ Spell(s, c, p).i = s.i + 1 /\ Spell(s, c, p).word = Append(s.word, c)
      /\ Spell(s, c, p).words = s.words /\ Spell(s, c, p).statements = s.statements
      /\ Spell(s, c, p).pending = p
  BY Zenon DEF Spell
<1> QED
  BY <1>2, <1>3, Zenon DEF MadeOf

(* The branch of the loop that is taken, by the character it finds. *)
ScanTurn(src, s, i, c) ==
  /\ c = "#" \/ (c = "-" /\ At(src, i + 1, "-")) =>
       ScanStep(src, s) = GoOn(s, FirstOf(src, {k \in i .. Len(src) : src[k] = "\n"}),
                               s.statements, s.pending)
  /\ c = "/" /\ At(src, i + 1, "*") =>
       ScanStep(src, s) = GoOn(s, skipComment(src, i + 2), s.statements, s.pending)
  /\ c = "$" /\ dollarTag(src, i) <= Len(src) /\ ~(dollarTag(src, i) > Len(src)) =>
       ScanStep(src, s) = GoOn(s, skipDollarQuoted(src, i, dollarTag(src, i)), s.statements, TRUE)
  /\ c \in Quote => ScanStep(src, s) = GoOn(s, skipQuoted(src, i), s.statements, TRUE)
  /\ c = ";" => ScanStep(src, s) =
       GoOn(s, i + 1, IF s.pending THEN s.statements + 1 ELSE s.statements, FALSE)
  /\ c = "$" /\ dollarTag(src, i) > Len(src) /\ ~(dollarTag(src, i) <= Len(src)) =>
       ScanStep(src, s) = Spell(s, c, s.pending)
  /\ c \in Letter => ScanStep(src, s) = Spell(s, c, TRUE)
  /\ c \notin Letter \cup Quote \cup {";", "#", "$"} /\ ~(c = "-" /\ At(src, i + 1, "-"))
       /\ ~(c = "/" /\ At(src, i + 1, "*")) =>
       ScanStep(src, s) = GoOn(s, i + 1, s.statements, s.pending \/ c \notin Space)

(* A turn that finds a character takes its branch. *)
LEMMA ScanStepIs ==
  ASSUME NEW src, NEW s, s.i <= Len(src), ~(s.i > Len(src))
  PROVE  ScanTurn(src, s, s.i, src[s.i])
<1> DEFINE i == s.i
           c == src[i]
<1> USE DEF Letter, Quote
<1>1. ASSUME c = "#" \/ (c = "-" /\ At(src, i + 1, "-"))
      PROVE  ScanStep(src, s) = GoOn(s, FirstOf(src, {k \in i .. Len(src) : src[k] = "\n"}),
                                     s.statements, s.pending)
  BY <1>1, Zenon DEF ScanStep
<1>2. ASSUME c = "/", At(src, i + 1, "*")
      PROVE  ScanStep(src, s) = GoOn(s, skipComment(src, i + 2), s.statements, s.pending)
  BY <1>2, Zenon DEF ScanStep
<1>3. ASSUME c = "$", dollarTag(src, i) <= Len(src), ~(dollarTag(src, i) > Len(src))
      PROVE  ScanStep(src, s) = GoOn(s, skipDollarQuoted(src, i, dollarTag(src, i)), s.statements, TRUE)
  BY <1>3, Zenon DEF ScanStep
<1>4. ASSUME c \in Quote
      PROVE  ScanStep(src, s) = GoOn(s, skipQuoted(src, i), s.statements, TRUE)
  BY <1>4, Zenon DEF ScanStep
<1>5. ASSUME c = ";"
      PROVE  ScanStep(src, s) =
               GoOn(s, i + 1, IF s.pending THEN s.statements + 1 ELSE s.statements, FALSE)
  BY <1>5, Zenon DEF ScanStep
<1>6. ASSUME c = "$", dollarTag(src, i) > Len(src), ~(dollarTag(src, i) <= Len(src))
      PROVE  ScanStep(src, s) = Spell(s, c, s.pending)
  BY <1>6, Zenon DEF ScanStep
<1>7. ASSUME c \in Letter
      PROVE  ScanStep(src, s) = Spell(s, c, TRUE)
  BY <1>7, Zenon DEF ScanStep
<1>8. ASSUME c \notin Letter \cup Quote \cup {";", "#", "$"},
             ~(c = "-" /\ At(src, i + 1, "-")), ~(c = "/" /\ At(src, i + 1, "*"))
      PROVE  ScanStep(src, s) = GoOn(s, i + 1, s.statements, s.pending \/ c \notin Space)
  BY <1>8, Zenon DEF ScanStep
<1> HIDE DEF Letter, Quote
<1> QED
  BY <1>1, <1>2, <1>3, <1>4, <1>5, <1>6, <1>7, <1>8, Zenon DEF ScanTurn

(* The first of some places is a place, or the one past the end, and no place is before it. *)
LEMMA FirstType ==
  ASSUME NEW src \in Seq(Char), NEW places \in SUBSET Nat
  PROVE  /\ FirstOf(src, places) \in places \cup {Len(src) + 1}
         /\ \A j \in places : FirstOf(src, places) <= j
<1>1. CASE places = {}
  BY <1>1, FirstNone, Zenon
<1>2. CASE places # {}
  <2>1. \E x \in places : \A j \in places : x <= j
    BY <1>2, LeastElement, Zenon
  <2> QED
    BY <2>1, Zenon DEF FirstOf
<1> QED
  BY <1>1, <1>2, Zenon

(* Where a block comment and a literal end is a number. *)
LEMMA SkipType ==
  ASSUME NEW src \in Seq(Char), NEW i \in Nat
  PROVE  skipComment(src, i) \in Nat /\ skipQuoted(src, i) \in Nat
<1>1. [i |-> i, depth |-> 1] \in Skip /\ [i |-> i + 1, depth |-> 1] \in Skip
  BY DEF Skip
<1>2. [s \in Skip |-> CommentTurn(src, s)] \in [Skip -> Skip]
  BY CommentTurnType, Zenon
<1>3. [s \in Skip |-> QuotedTurn(src, src[i], s)] \in [Skip -> Skip]
  BY QuotedTurnType, Zenon
<1>4. \A s \in Skip : s.i \in Nat
  BY Zenon DEF Skip
<1>5. Len(src) \in Nat
  OBVIOUS
<1>6. skipComment(src, i) \in Nat
  <2>1. RunsIn(Skip, [s \in Skip |-> CommentTurn(src, s)], [i |-> i, depth |-> 1])
    BY <1>1, <1>2, TurnsRun, Zenon
  <2>2. Turns([s \in Skip |-> CommentTurn(src, s)], [i |-> i, depth |-> 1], Len(src)) \in Skip
    BY <2>1, <1>5, Zenon DEF RunsIn
  <2> QED
    BY <2>2, <1>4, Zenon DEF skipComment
<1>7. skipQuoted(src, i) \in Nat
  <2>1. RunsIn(Skip, [s \in Skip |-> QuotedTurn(src, src[i], s)], [i |-> i + 1, depth |-> 1])
    BY <1>1, <1>3, TurnsRun, Zenon
  <2>2. Turns([s \in Skip |-> QuotedTurn(src, src[i], s)], [i |-> i + 1, depth |-> 1], Len(src)) \in Skip
    BY <2>1, <1>5, Zenon DEF RunsIn
  <2> QED
    BY <2>2, <1>4, Zenon DEF skipQuoted
<1> QED
  BY <1>6, <1>7, Zenon

(* Where a dollar quote's opener and the quote itself end is a number. *)
LEMMA DollarType ==
  ASSUME NEW src \in Seq(Char), NEW i \in Nat
  PROVE  /\ dollarTag(src, i) \in Nat
         /\ dollarTag(src, i) <= Len(src) => skipDollarQuoted(src, i, dollarTag(src, i)) \in Nat
<1>1. dollarTag(src, i) \in Nat /\ (dollarTag(src, i) <= Len(src) => i < dollarTag(src, i))
  <2> DEFINE places == {k \in i + 1 .. Len(src) : src[k] \notin Letter}
             j      == FirstOf(src, places)
  <2>1. places \in SUBSET Nat
    OBVIOUS
  <2>2. j \in places \cup {Len(src) + 1}
    BY <2>1, FirstType, Zenon
  <2>3. j \in Nat /\ Len(src) + 1 \in Nat /\ ~(Len(src) + 1 <= Len(src)) /\ (j <= Len(src) => i < j)
    <3> HIDE DEF j
    <3> QED
      BY <2>2
  <2>4. dollarTag(src, i) = j \/ dollarTag(src, i) = Len(src) + 1
    BY Zenon DEF dollarTag
  <2> HIDE DEF j
  <2> QED
    BY <2>3, <2>4, Zenon
<1>2. ASSUME NEW end \in Nat, end <= Len(src), i < end
      PROVE  skipDollarQuoted(src, i, end) \in Nat
  <2> DEFINE tag    == SubSeq(src, i, end)
             places == {k \in end + 1 .. Len(src) + 1 - Len(tag) : SubSeq(src, k, k + Len(tag) - 1) = tag}
             close  == FirstOf(src, places)
  <2>1. Len(tag) \in Nat
    BY <1>2
  <2>2. places \in SUBSET Nat
    <3> HIDE DEF tag
    <3> QED
      BY <2>1, <1>2
  <2>3. close \in places \cup {Len(src) + 1}
    <3> HIDE DEF places
    <3> QED
      BY <2>2, FirstType, Zenon
  <2>4. close \in Nat
    <3>1. Len(src) + 1 \in Nat
      OBVIOUS
    <3> HIDE DEF places, close
    <3> QED
      BY <2>2, <2>3, <3>1, Zenon
  <2>5. skipDollarQuoted(src, i, end) = IF close > Len(src) THEN Len(src) + 1 ELSE close + Len(tag)
    BY Zenon DEF skipDollarQuoted
  <2> HIDE DEF close, tag
  <2> QED
    BY <2>1, <2>4, <2>5
<1> QED
  BY <1>1, <1>2, Zenon

(* A turn of the scanner leaves a scanner. *)
LEMMA ScanStepType ==
  ASSUME NEW src \in Seq(Char), NEW s \in Scanner
  PROVE  ScanStep(src, s) \in Scanner
<1> DEFINE i == s.i
           c == src[i]
<1>1. /\ i \in Nat /\ s.statements \in Nat /\ s.pending \in BOOLEAN /\ i + 1 \in Nat /\ i + 2 \in Nat
      /\ s.statements + 1 \in Nat /\ (s.pending \/ c \notin Space) \in BOOLEAN /\ TRUE \in BOOLEAN
      /\ FALSE \in BOOLEAN /\ (IF s.pending THEN s.statements + 1 ELSE s.statements) \in Nat
  BY ScannerFields
<1>2. FirstOf(src, {k \in i .. Len(src) : src[k] = "\n"}) \in Nat
  <2>1. {k \in i .. Len(src) : src[k] = "\n"} \in SUBSET Nat /\ Len(src) + 1 \in Nat
    BY <1>1
  <2> QED
    BY <2>1, FirstType, Zenon
<1>3. skipComment(src, i + 2) \in Nat /\ skipQuoted(src, i) \in Nat
  BY <1>1, SkipType, Zenon
<1>4. dollarTag(src, i) <= Len(src) => skipDollarQuoted(src, i, dollarTag(src, i)) \in Nat
  BY <1>1, DollarType, Zenon
<1>5. "$" \in Char /\ Letter \subseteq Char
  BY Zenon DEF Char
<1>6. \A k, n \in Nat, p \in BOOLEAN : GoOn(s, k, n, p) \in Scanner
  BY GoOnFields, Zenon DEF MadeOf
<1>7. \A d \in Char, p \in BOOLEAN : Spell(s, d, p) \in Scanner
  BY SpellFields, Zenon DEF MadeOf
<1> QED
  BY <1>1, <1>2, <1>3, <1>4, <1>5, <1>6, <1>7, Zenon DEF ScanStep

-----------------------------------------------------------------------------
(* What the scanner makes of one lexeme.                                   *)

(* What a scanner s has become once it has passed the lexeme l, which ends at e: t. *)
Passed(l, s, t, e) ==
  /\ t \in Scanner /\ t.i = e + 1 /\ (t.word # <<>> => l.kind = "word")
  /\ Flushed(t) = IF l.kind = "word" THEN Append(Flushed(s), l.parts[1]) ELSE Flushed(s)
  /\ t.statements = IF l.kind = "semicolon" /\ s.pending THEN s.statements + 1 ELSE s.statements
  /\ t.pending <=> l.kind # "semicolon" /\ (s.pending \/ l.kind \in Content)

(* The text of one part is that part. *)
LEMMA JoinedOne ==
  ASSUME NEW t \in Seq(Char), NEW p, p = <<t>>
  PROVE  p \in Seq(Seq(Char)) /\ Joined(p) = t
<1>1. p \in Seq(Seq(Char)) /\ Len(p) = 1 /\ p[1] = t /\ 1 \in 1 .. Len(p) /\ 1 - 1 = 0 /\ <<>> \o t = t
  OBVIOUS
<1>2. JoinedTo(p, 1) = JoinedTo(p, 0) \o p[1] /\ JoinedTo(p, 0) = <<>>
  BY <1>1, JoinedRun, Zenon
<1> QED
  BY <1>1, <1>2, Zenon DEF Joined

(* The text of p is the character c, which stands after b. *)
OneAt(src, b, c, p) ==
  /\ b + 1 <= Len(src) /\ ~(b + 1 > Len(src)) /\ src[b + 1] = c /\ b + Len(Joined(p)) = b + 1
  /\ p[1][1] = c

(* One character that occurs is the next one. *)
LEMMA OneOccurs ==
  ASSUME NEW src \in Seq(Char), NEW b \in Nat, NEW c \in Char, NEW p, p = <<<<c>>>>,
         Occurs(src, b, Joined(p))
  PROVE  OneAt(src, b, c, p)
<1>1. <<c>> \in Seq(Char) /\ Len(<<c>>) = 1 /\ <<c>>[1] = c /\ 1 \in 1 .. 1 /\ p[1] = <<c>>
  OBVIOUS
<1>2. Joined(p) = <<c>>
  BY <1>1, JoinedOne, Zenon
<1>3. b + 1 <= Len(src) /\ src[b + 1] = c /\ b + Len(Joined(p)) = b + 1
  BY <1>1, <1>2, Zenon DEF Occurs
<1>4. ~(b + 1 > Len(src)) /\ p[1][1] = c
  BY <1>1, <1>3
<1> QED
  BY <1>3, <1>4, Zenon DEF OneAt

(* The scanner that goes on past a lexeme which is no word has passed it. *)
LEMMA GoneOn ==
  ASSUME NEW l, NEW s \in Scanner, NEW e \in Nat, l.kind # "word", l.kind # "semicolon",
         NEW p \in BOOLEAN, p <=> s.pending \/ l.kind \in Content
  PROVE  Passed(l, s, GoOn(s, e + 1, s.statements, p), e)
<1>1. e + 1 \in Nat /\ s.statements \in Nat
  BY ScannerFields
<1> DEFINE t == GoOn(s, e + 1, s.statements, p)
<1>2. MadeOf(t, e + 1, <<>>, Flushed(s), s.statements, p)
  BY <1>1, GoOnFields, Zenon
<1> HIDE DEF t
<1>3. Flushed(t) = Flushed(s)
  BY <1>2, Zenon DEF MadeOf, Flushed
<1>4. /\ t \in Scanner /\ t.i = e + 1 /\ t.word = <<>> /\ t.statements = s.statements
      /\ (t.pending <=> s.pending \/ l.kind \in Content)
  BY <1>2, Zenon DEF MadeOf
<1>5. Passed(l, s, t, e)
  BY <1>3, <1>4, Zenon DEF Passed
<1> QED
  BY <1>5, Zenon DEF t

(* The turn that passes a lexeme which is no word. *)
LEMMA NextPassed ==
  ASSUME NEW src \in Seq(Char), NEW s \in Scanner, NEW b \in Nat, s.i = b + 1, NEW l,
         l.parts \in Seq(Seq(Char)), IsLexeme(l), l.kind # "word", Occurs(src, b, Joined(l.parts)),
         NEW e, e = b + Len(Joined(l.parts)), e < Len(src) => MayFollow(l, src[e + 1])
  PROVE  Passed(l, s, ScanStep(src, s), e)
<1>1. e \in Nat /\ Len(src) \in Nat /\ e <= Len(src)
  <2>1. Joined(l.parts) \in Seq(Char)
    BY JoinedEnds, Zenon
  <2> QED
    BY <2>1 DEF Occurs
<1>2. s.pending \in BOOLEAN /\ TRUE \in BOOLEAN /\ s.statements \in Nat
  BY ScannerFields, Zenon
<1>3. b + 1 <= Len(src) /\ ~(b + 1 > Len(src)) => ScanTurn(src, s, b + 1, src[b + 1])
  BY ScanStepIs, Zenon
<1>4. e + 1 <= Len(src) => e < Len(src)
  BY <1>1
<1>5. ASSUME l.kind = "space" PROVE Passed(l, s, ScanStep(src, s), e)
  <2>1. PICK c \in Space : l.parts = <<<<c>>>>
    BY <1>5, Zenon DEF IsLexeme, IsSpace
  <2>2. c \in Char /\ c \notin Letter \cup Quote \cup {";", "#", "$"} /\ c # "-" /\ c # "/"
    BY Zenon DEF Char, Space, Letter, Quote
  <2>3. b + 1 <= Len(src) /\ ~(b + 1 > Len(src)) /\ src[b + 1] = c /\ e = b + 1
    <3>1. OneAt(src, b, c, l.parts)
      BY <2>1, <2>2, OneOccurs, Zenon
    <3> QED
      BY <3>1, Zenon DEF OneAt
  <2>4. ScanStep(src, s) = GoOn(s, e + 1, s.statements, s.pending \/ c \notin Space)
    BY <2>2, <2>3, <1>3, Zenon DEF ScanTurn
  <2>5. (s.pending \/ c \notin Space) = s.pending
    BY <1>2, <2>1, Zenon
  <2>6. s.pending <=> s.pending \/ l.kind \in Content
    BY <1>5, Zenon DEF Content
  <2>7. Passed(l, s, GoOn(s, e + 1, s.statements, s.pending), e)
    BY <1>1, <1>2, <1>5, <2>6, GoneOn, Zenon
  <2> QED
    BY <2>4, <2>5, <2>7, Zenon
<1>6. ASSUME l.kind = "mark" PROVE Passed(l, s, ScanStep(src, s), e)
  <2>1. PICK c \in Char \ (Letter \cup Quote \cup Space \cup {";", "#", "$"}) : l.parts = <<<<c>>>>
    BY <1>6, Zenon DEF IsLexeme, IsMark
  <2>2. c \in Char /\ c \notin Letter \cup Quote \cup {";", "#", "$"} /\ c \notin Space
    BY <2>1, Zenon
  <2>3. b + 1 <= Len(src) /\ ~(b + 1 > Len(src)) /\ src[b + 1] = c /\ e = b + 1 /\ l.parts[1][1] = c
    <3>1. OneAt(src, b, c, l.parts)
      BY <2>1, <2>2, OneOccurs, Zenon
    <3> QED
      BY <3>1, Zenon DEF OneAt
  <2>4. ASSUME NEW d, At(src, (b + 1) + 1, d) PROVE <<c, d>> \notin {<<"-", "-">>, <<"/", "*">>}
    <3>1. e + 1 <= Len(src) /\ src[e + 1] = d
      BY <2>3, <2>4, Zenon DEF At
    <3>2. e < Len(src)
      BY <3>1, <1>4, Zenon
    <3> QED
      BY <3>1, <3>2, <2>3, <1>6, Zenon DEF MayFollow
  <2>5. ScanStep(src, s) = GoOn(s, e + 1, s.statements, s.pending \/ c \notin Space)
    BY <2>2, <2>3, <2>4, <1>3, Zenon DEF ScanTurn
  <2>6. (s.pending \/ c \notin Space) = TRUE
    BY <2>2, Zenon
  <2>7. TRUE <=> s.pending \/ l.kind \in Content
    BY <1>6, Zenon DEF Content
  <2>8. Passed(l, s, GoOn(s, e + 1, s.statements, TRUE), e)
    BY <1>1, <1>2, <1>6, <2>7, GoneOn, Zenon
  <2> QED
    BY <2>5, <2>6, <2>8, Zenon
<1>7. ASSUME l.kind = "semicolon" PROVE Passed(l, s, ScanStep(src, s), e)
  <2>1. l.parts = <<<<";">>>> /\ ";" \in Char
    BY <1>7, Zenon DEF IsLexeme, IsSemicolon, Char
  <2>2. b + 1 <= Len(src) /\ ~(b + 1 > Len(src)) /\ src[b + 1] = ";" /\ e = b + 1
    BY <2>1, OneOccurs, ZenonT(60) DEF OneAt
  <2> DEFINE n == IF s.pending THEN s.statements + 1 ELSE s.statements
             t == GoOn(s, e + 1, n, FALSE)
  <2>3. ScanStep(src, s) = t
    BY <2>2, <1>3, Zenon DEF ScanTurn
  <2>4. n \in Nat /\ e + 1 \in Nat /\ FALSE \in BOOLEAN
    BY <1>1, <1>2
  <2>5. MadeOf(t, e + 1, <<>>, Flushed(s), n, FALSE)
    <3> HIDE DEF n
    <3> QED
      BY <2>4, GoOnFields, Zenon
  <2> HIDE DEF t
  <2>6. Flushed(t) = Flushed(s)
    BY <2>5, Zenon DEF MadeOf, Flushed
  <2>7. Passed(l, s, t, e)
    BY <1>7, <2>5, <2>6, Zenon DEF Passed, MadeOf
  <2> QED
    BY <2>3, <2>7, Zenon
<1>8. ASSUME l.kind = "line" PROVE Passed(l, s, ScanStep(src, s), e)
  <2>1. IsLine(l.parts)
    BY <1>8, Zenon DEF IsLexeme
  <2>2. e < Len(src) => src[e + 1] = "\n"
    BY <1>8, Zenon DEF MayFollow
  <2>3. /\ b + 1 <= Len(src) /\ (src[b + 1] = "#" \/ (src[b + 1] = "-" /\ At(src, b + 2, "-")))
        /\ FirstOf(src, {k \in b + 1 .. Len(src) : src[k] = "\n"}) = e + 1
    BY <2>1, <2>2, LineIsSkipped, Zenon
  <2>4. b + 2 = (b + 1) + 1 /\ ~(b + 1 > Len(src))
    BY <2>3
  <2>5. ScanStep(src, s) = GoOn(s, e + 1, s.statements, s.pending)
    BY <2>3, <2>4, <1>3, Zenon DEF ScanTurn
  <2>6. s.pending <=> s.pending \/ l.kind \in Content
    BY <1>8, Zenon DEF Content
  <2>7. Passed(l, s, GoOn(s, e + 1, s.statements, s.pending), e)
    BY <1>1, <1>2, <1>8, <2>6, GoneOn, Zenon
  <2> QED
    BY <2>5, <2>7, Zenon
<1>9. ASSUME l.kind = "block" PROVE Passed(l, s, ScanStep(src, s), e)
  <2>1. IsBlock(l.parts)
    BY <1>9, Zenon DEF IsLexeme
  <2>2. At(src, b + 1, "/") /\ At(src, b + 2, "*") /\ skipComment(src, b + 3) = e + 1
    BY <2>1, BlockIsSkipped, Zenon
  <2>3. b + 2 = (b + 1) + 1 /\ b + 3 = (b + 1) + 2 /\ (b + 1 <= Len(src) => ~(b + 1 > Len(src)))
    BY <1>1
  <2>4. ScanStep(src, s) = GoOn(s, e + 1, s.statements, s.pending)
    BY <2>2, <2>3, <1>3, Zenon DEF ScanTurn, At
  <2>5. s.pending <=> s.pending \/ l.kind \in Content
    BY <1>9, Zenon DEF Content
  <2>6. Passed(l, s, GoOn(s, e + 1, s.statements, s.pending), e)
    BY <1>1, <1>2, <1>9, <2>5, GoneOn, Zenon
  <2> QED
    BY <2>4, <2>6, Zenon
<1>10. ASSUME l.kind = "quoted" PROVE Passed(l, s, ScanStep(src, s), e)
  <2>1. IsQuoted(l.parts)
    BY <1>10, Zenon DEF IsLexeme
  <2>2. e < Len(src) => src[e + 1] # l.parts[1][1]
    BY <1>10, Zenon DEF MayFollow
  <2>3. src[b + 1] \in Quote /\ skipQuoted(src, b + 1) = e + 1
    BY <2>1, <2>2, QuotedIsSkipped, Zenon
  <2>4. b + 1 <= Len(src) /\ ~(b + 1 > Len(src))
    <3>1. 1 \in 1 .. Len(l.parts) /\ Len(l.parts[1]) = 1 /\ 1 - 1 = 0
      BY <2>1 DEF IsQuoted
    <3>2. EndFrom(b, l.parts, 0) = b /\ Occurs(src, EndFrom(b, l.parts, 0), l.parts[1])
      BY <3>1, PartsOccur, Zenon
    <3>3. b + 1 <= Len(src)
      BY <3>1, <3>2, Zenon DEF Occurs
    <3> QED
      BY <3>3, <1>1
  <2>5. ScanStep(src, s) = GoOn(s, e + 1, s.statements, TRUE)
    BY <2>3, <2>4, <1>3, Zenon DEF ScanTurn
  <2>6. TRUE <=> s.pending \/ l.kind \in Content
    BY <1>10, Zenon DEF Content
  <2>7. Passed(l, s, GoOn(s, e + 1, s.statements, TRUE), e)
    BY <1>1, <1>2, <1>10, <2>6, GoneOn, Zenon
  <2> QED
    BY <2>5, <2>7, Zenon
<1>11. ASSUME l.kind = "dollar" PROVE Passed(l, s, ScanStep(src, s), e)
  <2>1. IsDollar(l.parts)
    BY <1>11, Zenon DEF IsLexeme
  <2>2. /\ b + 1 <= Len(src) /\ src[b + 1] = "$" /\ dollarTag(src, b + 1) <= Len(src)
        /\ skipDollarQuoted(src, b + 1, dollarTag(src, b + 1)) = e + 1
    BY <2>1, DollarIsSkipped, Zenon
  <2>3. ~(b + 1 > Len(src)) /\ ~(dollarTag(src, b + 1) > Len(src))
    <3>1. b + 1 \in Nat
      OBVIOUS
    <3>2. dollarTag(src, b + 1) \in Nat
      BY <3>1, DollarType, Zenon
    <3> QED
      BY <3>1, <3>2, <2>2, <1>1
  <2>4. ScanStep(src, s) = GoOn(s, e + 1, s.statements, TRUE)
    BY <2>2, <2>3, <1>3, Zenon DEF ScanTurn
  <2>5. TRUE <=> s.pending \/ l.kind \in Content
    BY <1>11, Zenon DEF Content
  <2>6. Passed(l, s, GoOn(s, e + 1, s.statements, TRUE), e)
    BY <1>1, <1>2, <1>11, <2>5, GoneOn, Zenon
  <2> QED
    BY <2>4, <2>6, Zenon
<1> QED
  BY <1>5, <1>6, <1>7, <1>8, <1>9, <1>10, <1>11, Zenon DEF IsLexeme

(* What a scanner s has become once it has read j characters of the word w, which begins after
   b: t. *)
Spelled(w, s, t, b, j) ==
  /\ t \in Scanner /\ t.i = (b + j) + 1 /\ t.word = SubSeq(w, 1, j) /\ t.words = s.words
  /\ t.statements = s.statements
  /\ t.pending <=> s.pending \/ \E i \in 1 .. j : w[i] \in Letter

(* A word stands after b, and what comes next is no part of it. *)
WordAt(src, b, w) ==
  /\ w \in Seq(Letter \cup {"$"}) /\ Occurs(src, b, w)
  /\ \A i, j \in DOMAIN w : w[i] = "$" /\ w[j] = "$" => i = j
  /\ b + Len(w) < Len(src) => src[(b + Len(w)) + 1] \notin Letter \cup {"$"}

(* The dollar sign of a word begins no dollar quote. *)
LEMMA WordIsNoTag ==
  ASSUME NEW src \in Seq(Char), NEW b \in Nat, NEW w, WordAt(src, b, w), NEW j \in 1 .. Len(w), w[j] = "$"
  PROVE  dollarTag(src, b + j) > Len(src) /\ ~(dollarTag(src, b + j) <= Len(src))
<1> DEFINE places == {k \in (b + j) + 1 .. Len(src) : src[k] \notin Letter}
           first  == FirstOf(src, places)
<1>1. Len(w) \in Nat /\ Len(src) \in Nat /\ DOMAIN w = 1 .. Len(w)
  BY DEF WordAt
<1>2. b + Len(w) <= Len(src) /\ \A i \in 1 .. Len(w) : src[b + i] = w[i]
  BY Zenon DEF WordAt, Occurs
<1>3. first \in places \cup {Len(src) + 1} /\ \A k \in places : first <= k
  <2>1. places \in SUBSET Nat
    OBVIOUS
  <2> HIDE DEF places
  <2> QED
    BY <2>1, FirstType, Zenon
<1> HIDE DEF first
<1>4. ASSUME At(src, first, "$") PROVE FALSE
  <2>1. first <= Len(src) /\ src[first] = "$"
    BY <1>4, Zenon DEF At
  <2>2. first \in Nat /\ b + j < first
    BY <1>1, <1>3, <2>1
  <2>3. CASE first <= b + Len(w)
    <3>1. first - b \in 1 .. Len(w) /\ b + (first - b) = first /\ first - b # j
      BY <1>1, <2>2, <2>3
    <3>2. w[first - b] = "$"
      BY <1>2, <2>1, <3>1, Zenon
    <3> QED
      BY <1>1, <3>1, <3>2, Zenon DEF WordAt
  <2>4. CASE first > b + Len(w)
    <3>1. b + Len(w) < Len(src) /\ (b + Len(w)) + 1 \in (b + j) + 1 .. Len(src)
      BY <1>1, <2>1, <2>2, <2>4
    <3>2. src[(b + Len(w)) + 1] \notin Letter /\ src[(b + Len(w)) + 1] # "$"
      BY <3>1, Zenon DEF WordAt
    <3>3. first <= (b + Len(w)) + 1
      BY <1>3, <3>1, <3>2, Zenon
    <3>4. first = (b + Len(w)) + 1
      BY <3>3, <2>2, <2>4, <1>1
    <3> QED
      BY <2>1, <3>2, <3>4, Zenon
  <2> QED
    BY <1>1, <2>2, <2>3, <2>4
<1>5. dollarTag(src, b + j) = Len(src) + 1
  BY <1>4, Zenon DEF dollarTag, first
<1> QED
  BY <1>1, <1>5

(* One turn reads one character of a word. *)
LEMMA SpellStep ==
  ASSUME NEW src \in Seq(Char), NEW b \in Nat, NEW w, WordAt(src, b, w), NEW s \in Scanner,
         NEW j \in Nat, j < Len(w), NEW t, Spelled(w, s, t, b, j)
  PROVE  Spelled(w, s, ScanStep(src, t), b, j + 1)
<1> DEFINE i == b + (j + 1)
           c == w[j + 1]
<1>1. /\ Len(w) \in Nat /\ Len(src) \in Nat /\ j + 1 \in 1 .. Len(w) /\ w \in Seq(Letter \cup {"$"})
      /\ (b + j) + 1 = i
  BY DEF WordAt
<1>2. c \in Letter \cup {"$"}
  BY <1>1
<1>3. b + Len(w) <= Len(src) /\ src[i] = c
  BY <1>1, Zenon DEF WordAt, Occurs
<1>4. i <= Len(src) /\ ~(i > Len(src)) /\ i \in Nat
  BY <1>1, <1>3
<1>5. /\ t \in Scanner /\ t.i = i /\ t.word = SubSeq(w, 1, j) /\ t.words = s.words
      /\ t.statements = s.statements
  BY <1>1, Zenon DEF Spelled
<1>6. t.pending <=> s.pending \/ \E k \in 1 .. j : w[k] \in Letter
  BY Zenon DEF Spelled
<1>7. ScanTurn(src, t, i, c)
  <2>1. ScanTurn(src, t, t.i, src[t.i])
    BY <1>4, <1>5, ScanStepIs, Zenon
  <2> QED
    BY <1>3, <1>5, <2>1, Zenon
<1>8. Append(SubSeq(w, 1, j), c) = SubSeq(w, 1, j + 1) /\ i + 1 = (b + (j + 1)) + 1
  BY <1>1
<1>9. c \in Char /\ t.pending \in BOOLEAN
  BY <1>2, <1>5, ScannerFields, Zenon DEF Char
<1>10. 1 .. j + 1 = (1 .. j) \cup {j + 1}
  OBVIOUS
<1>11. ASSUME NEW p \in BOOLEAN, p <=> t.pending \/ c \in Letter, ScanStep(src, t) = Spell(t, c, p)
       PROVE  Spelled(w, s, ScanStep(src, t), b, j + 1)
  <2> DEFINE u == Spell(t, c, p)
  <2>1. MadeOf(u, t.i + 1, Append(t.word, c), t.words, t.statements, p)
    BY <1>5, <1>9, <1>11, SpellFields, Zenon
  <2> HIDE DEF u, c, i
  <2>2. /\ u \in Scanner /\ u.i = (b + (j + 1)) + 1 /\ u.word = SubSeq(w, 1, j + 1) /\ u.words = s.words
        /\ u.statements = s.statements /\ u.pending = p
    BY <2>1, <1>5, <1>8, Zenon DEF MadeOf
  <2>3. p <=> s.pending \/ \E k \in 1 .. j + 1 : w[k] \in Letter
    BY <1>6, <1>10, <1>11, Zenon DEF c
  <2>4. Spelled(w, s, u, b, j + 1)
    BY <2>2, <2>3, Zenon DEF Spelled
  <2> QED
    BY <2>4, <1>11, Zenon DEF u
<1>12. CASE c \in Letter
  <2>1. ScanStep(src, t) = Spell(t, c, TRUE)
    BY <1>7, <1>12, Zenon DEF ScanTurn
  <2>2. TRUE \in BOOLEAN /\ (TRUE <=> t.pending \/ c \in Letter)
    BY <1>12, Zenon
  <2> QED
    BY <2>1, <2>2, <1>11, Zenon
<1>13. CASE c = "$"
  <2>1. dollarTag(src, i) > Len(src) /\ ~(dollarTag(src, i) <= Len(src))
    BY <1>1, <1>13, WordIsNoTag, Zenon
  <2>2. ScanStep(src, t) = Spell(t, c, t.pending)
    BY <1>7, <1>13, <2>1, Zenon DEF ScanTurn
  <2>3. c \notin Letter
    BY <1>13, Zenon DEF Letter
  <2>4. t.pending <=> t.pending \/ c \in Letter
    BY <2>3, Zenon
  <2> QED
    BY <2>2, <2>4, <1>9, <1>11, Zenon
<1> QED
  BY <1>2, <1>12, <1>13, Zenon

(* A scanner that has read a whole word has passed it. *)
LEMMA SpelledPassed ==
  ASSUME NEW l, l.kind = "word", IsWord(l.parts), NEW s \in Scanner, s.word = <<>>, NEW b \in Nat, NEW t,
         NEW w, w = l.parts[1], Spelled(w, s, t, b, Len(w)), NEW e, e = b + Len(w)
  PROVE  Passed(l, s, t, e)
<1>1. /\ w \in Seq(Letter \cup {"$"}) /\ DOMAIN w = 1 .. Len(w) /\ Len(w) \in Nat
      /\ \E i \in DOMAIN w : w[i] \in Letter
  BY DEF IsWord
<1>2. SubSeq(w, 1, Len(w)) = w /\ w # <<>>
  BY <1>1
<1>3. /\ t \in Scanner /\ t.i = e + 1 /\ t.word = w /\ t.words = s.words /\ t.statements = s.statements
      /\ t.pending
  BY <1>1, <1>2, Zenon DEF Spelled
<1>4. Flushed(t) = Append(Flushed(s), w)
  BY <1>2, <1>3, Zenon DEF Flushed
<1>5. l.kind # "semicolon" /\ l.kind \in Content
  BY Zenon DEF Content
<1> QED
  BY <1>3, <1>4, <1>5, Zenon DEF Passed

(* The text of a lexeme is not empty. *)
LEMMA LexemeText ==
  ASSUME NEW l, l.parts \in Seq(Seq(Char)), IsLexeme(l)
  PROVE  Joined(l.parts) \in Seq(Char) /\ Len(Joined(l.parts)) \in Nat /\ Len(Joined(l.parts)) > 0
<1> DEFINE p == l.parts
<1>1. Joined(p) \in Seq(Char)
  BY JoinedEnds, Zenon
<1>2. Len(p) > 0 /\ Len(p[1]) > 0
  <2>1. ASSUME IsWord(p) PROVE Len(p) > 0 /\ Len(p[1]) > 0
    BY <2>1 DEF IsWord
  <2>2. ASSUME NEW c, p = <<<<c>>>> PROVE Len(p) > 0 /\ Len(p[1]) > 0
    <3>1. Len(<<<<c>>>>) > 0 /\ <<<<c>>>>[1] = <<c>> /\ Len(<<c>>) > 0
      OBVIOUS
    <3> QED
      BY <2>2, <3>1, Zenon
  <2>3. ASSUME IsLine(p) PROVE Len(p) > 0 /\ Len(p[1]) > 0
    <3>1. Len(<<"#">>) > 0 /\ Len(<<"-", "-">>) > 0
      OBVIOUS
    <3>2. Len(p) > 0 /\ p[1] \in {<<"#">>, <<"-", "-">>}
      <4> HIDE DEF p
      <4>1. Len(p) = 2 /\ p[1] \in {<<"#">>, <<"-", "-">>}
        BY <2>3, Zenon DEF IsLine
      <4> QED
        BY <4>1
    <3> QED
      BY <3>1, <3>2, Zenon
  <2>4. ASSUME IsBlock(p) PROVE Len(p) > 0 /\ Len(p[1]) > 0
    BY <2>4 DEF IsBlock, Opener
  <2>5. ASSUME IsQuoted(p) PROVE Len(p) > 0 /\ Len(p[1]) > 0
    BY <2>5 DEF IsQuoted
  <2>6. ASSUME IsDollar(p) PROVE Len(p) > 0 /\ Len(p[1]) > 0
    BY <2>6 DEF IsDollar
  <2> HIDE DEF p
  <2>7. IsWord(p) \/ IsSpace(p) \/ IsSemicolon(p) \/ IsMark(p) \/ IsLine(p) \/ IsBlock(p) \/ IsQuoted(p) \/ IsDollar(p)
    BY Zenon DEF IsLexeme, p
  <2> QED
    BY <2>1, <2>2, <2>3, <2>4, <2>5, <2>6, <2>7, Zenon DEF IsSpace, IsSemicolon, IsMark
<1>3. 1 \in 1 .. Len(p) /\ 1 - 1 = 0 /\ p[1] \in Seq(Char)
  BY <1>2
<1>4. Occurs(Joined(p), 0, p[1])
  BY <1>3, PartOccurs, JoinedEnds, Zenon
<1>5. 0 + Len(p[1]) <= Len(Joined(p))
  BY <1>4, Zenon DEF Occurs
<1> QED
  BY <1>1, <1>2, <1>3, <1>5

(* The state of the scanner's loop after n turns. *)
Start == [i |-> 1, word |-> <<>>, words |-> <<>>, statements |-> 0, pending |-> FALSE]
Scan(src, n) == Turns([s \in Scanner |-> ScanStep(src, s)], Start, n)

(* The loop runs through scanners, each a turn after the last. *)
LEMMA ScanRuns ==
  ASSUME NEW src \in Seq(Char)
  PROVE  /\ Start \in Scanner /\ [s \in Scanner |-> ScanStep(src, s)] \in [Scanner -> Scanner]
         /\ Scan(src, 0) = Start
         /\ \A k \in Nat : Scan(src, k) \in Scanner /\ Scan(src, k + 1) = ScanStep(src, Scan(src, k))
<1>1. Start \in Scanner
  BY DEF Start, Scanner
<1>2. [s \in Scanner |-> ScanStep(src, s)] \in [Scanner -> Scanner]
  BY ScanStepType, Zenon
<1>3. RunsIn(Scanner, [s \in Scanner |-> ScanStep(src, s)], Start)
  BY <1>1, <1>2, TurnsRun, Zenon
<1> QED
  BY <1>1, <1>2, <1>3, Zenon DEF RunsIn, Scan

(* The turns over a word read it a character at a time. *)
LEMMA WordIsRead ==
  ASSUME NEW src \in Seq(Char), NEW m \in Nat, NEW b \in Nat, NEW w, WordAt(src, b, w),
         NEW s, s = Scan(src, m), s.i = b + 1, s.word = <<>>
  PROVE  Spelled(w, s, Scan(src, m + Len(w)), b, Len(w))
<1>1. s \in Scanner
  BY ScanRuns, Zenon
<1>2. w \in Seq(Letter \cup {"$"}) /\ Len(w) \in Nat /\ Len(w) <= Len(w)
  BY DEF WordAt
<1> DEFINE T == {j \in Nat : j <= Len(w) => Spelled(w, s, Scan(src, m + j), b, j)}
<1>3. 0 \in T
  <2>1. m + 0 = m /\ (b + 0) + 1 = b + 1 /\ SubSeq(w, 1, 0) = <<>> /\ 1 .. 0 = {} /\ 0 \in Nat
    BY <1>2
  <2>2. Spelled(w, s, s, b, 0)
    BY <1>1, <2>1, Zenon DEF Spelled
  <2> QED
    BY <2>1, <2>2, Zenon
<1>4. ASSUME NEW j \in Nat, j \in T PROVE j + 1 \in T
  <2>1. j + 1 \in Nat /\ m + (j + 1) = (m + j) + 1 /\ m + j \in Nat
    OBVIOUS
  <2>2. ASSUME j + 1 <= Len(w) PROVE Spelled(w, s, Scan(src, m + (j + 1)), b, j + 1)
    <3>1. j <= Len(w) /\ j < Len(w)
      BY <2>2, <1>2
    <3>2. Spelled(w, s, Scan(src, m + j), b, j)
      BY <1>4, <3>1, Zenon
    <3>3. Spelled(w, s, ScanStep(src, Scan(src, m + j)), b, j + 1)
      BY <1>1, <3>1, <3>2, SpellStep, Zenon
    <3> QED
      BY <2>1, <3>3, ScanRuns, Zenon
  <2> QED
    BY <2>1, <2>2, Zenon
<1> HIDE DEF T
<1>5. Len(w) \in T
  BY <1>2, <1>3, <1>4, SetInduction, Zenon
<1> QED
  BY <1>2, <1>5, Zenon DEF T

(* The scanner passes every lexeme, in no more turns than the lexeme has characters. *)
LEMMA LexemePassed ==
  ASSUME NEW src \in Seq(Char), NEW m \in Nat, NEW b \in Nat, m <= b, NEW s, s = Scan(src, m),
         s.i = b + 1, NEW l, l.parts \in Seq(Seq(Char)), IsLexeme(l), l.kind = "word" => s.word = <<>>,
         Occurs(src, b, Joined(l.parts)), NEW e, e = b + Len(Joined(l.parts)),
         e < Len(src) => MayFollow(l, src[e + 1])
  PROVE  \E n \in Nat : n <= e /\ Passed(l, s, Scan(src, n), e)
<1>1. s \in Scanner
  BY ScanRuns, Zenon
<1>2. Len(Joined(l.parts)) \in Nat /\ Len(Joined(l.parts)) > 0
  BY LexemeText, Zenon
<1>3. CASE l.kind # "word"
  <2>1. Passed(l, s, ScanStep(src, s), e)
    BY <1>1, <1>3, NextPassed, Zenon
  <2>2. Scan(src, m + 1) = ScanStep(src, s)
    BY ScanRuns, Zenon
  <2>3. m + 1 \in Nat /\ m + 1 <= e
    BY <1>2
  <2> QED
    BY <2>1, <2>2, <2>3, Zenon
<1>4. CASE l.kind = "word"
  <2> DEFINE w == l.parts[1]
  <2>1. IsWord(l.parts)
    BY <1>4, Zenon DEF IsLexeme
  <2>2. l.parts = <<w>> /\ w \in Seq(Char)
    BY <2>1 DEF IsWord
  <2>3. Joined(l.parts) = w
    BY <2>2, JoinedOne, Zenon
  <2>4. e = b + Len(w) /\ Occurs(src, b, w)
    BY <2>3, Zenon
  <2>5. e < Len(src) => src[e + 1] \notin Letter \cup {"$"}
    BY <1>4, Zenon DEF MayFollow
  <2>6. WordAt(src, b, w)
    BY <2>1, <2>4, <2>5, Zenon DEF WordAt, IsWord
  <2>7. Spelled(w, s, Scan(src, m + Len(w)), b, Len(w))
    BY <1>4, <2>6, WordIsRead, Zenon
  <2>8. Passed(l, s, Scan(src, m + Len(w)), e)
    BY <1>1, <1>4, <2>1, <2>4, <2>7, SpelledPassed, Zenon
  <2>9. m + Len(w) \in Nat /\ m + Len(w) <= e
    BY <1>2, <2>3
  <2> QED
    BY <2>8, <2>9, Zenon
<1> QED
  BY <1>3, <1>4, Zenon

-----------------------------------------------------------------------------
(* What the scanner has found after n lexemes.                             *)

(* The words ws are those among the first n lexemes, and the first is the first of them. *)
WordsOf(lexemes, n, ws) ==
  /\ \A i \in 1 .. n : lexemes[i].kind = "word" => \E k \in DOMAIN ws : ws[k] = lexemes[i].parts[1]
  /\ \A k \in DOMAIN ws : \E i \in 1 .. n : lexemes[i].kind = "word" /\ ws[k] = lexemes[i].parts[1]
  /\ ws # <<>> => \E i \in 1 .. n : /\ lexemes[i].kind = "word" /\ ws[1] = lexemes[i].parts[1]
                                     /\ \A j \in 1 .. i - 1 : lexemes[j].kind # "word"

(* Among the first n lexemes there is content; there is a semicolon after content; and there is
   content after that. *)
Some(lexemes, n) == \E i \in 1 .. n : lexemes[i].kind \in Content
Pair(lexemes, n) ==
  \E i, j \in 1 .. n : i < j /\ lexemes[i].kind \in Content /\ lexemes[j].kind = "semicolon"
Split(lexemes, n) ==
  \E i, j, k \in 1 .. n :
    i < j /\ j < k /\ lexemes[i].kind \in Content /\ lexemes[j].kind = "semicolon"
      /\ lexemes[k].kind \in Content

(* The count of statements tells the three apart. *)
Counted(lexemes, n, statements, pending) ==
  /\ statements > 0 \/ pending <=> Some(lexemes, n)
  /\ statements > 0 <=> Pair(lexemes, n)
  /\ statements > 1 \/ (statements > 0 /\ pending) <=> Split(lexemes, n)

(* What one more lexeme adds. *)
LEMMA ContentStep ==
  ASSUME NEW lexemes, NEW n \in Nat
  PROVE  /\ Some(lexemes, n + 1) <=> Some(lexemes, n) \/ lexemes[n + 1].kind \in Content
         /\ Pair(lexemes, n + 1) <=>
              Pair(lexemes, n) \/ (Some(lexemes, n) /\ lexemes[n + 1].kind = "semicolon")
         /\ Split(lexemes, n + 1) <=>
              Split(lexemes, n) \/ (Pair(lexemes, n) /\ lexemes[n + 1].kind \in Content)
         /\ Split(lexemes, n) => Pair(lexemes, n)
         /\ Pair(lexemes, n) => Some(lexemes, n)
<1>1. 1 .. n + 1 = (1 .. n) \cup {n + 1}
  OBVIOUS
<1>2. \A i \in 1 .. n : i < n + 1
  OBVIOUS
<1>3. \A i, j \in 1 .. n + 1 : i < j => i \in 1 .. n
  OBVIOUS
<1>4. ~("semicolon" \in Content)
  BY Zenon DEF Content
<1>5. Some(lexemes, n + 1) <=> Some(lexemes, n) \/ lexemes[n + 1].kind \in Content
  BY <1>1, Zenon DEF Some
<1>6. Pair(lexemes, n + 1) <=>
        Pair(lexemes, n) \/ (Some(lexemes, n) /\ lexemes[n + 1].kind = "semicolon")
  BY <1>1, <1>2, <1>3, Zenon DEF Some, Pair
<1>7. Split(lexemes, n + 1) <=>
        Split(lexemes, n) \/ (Pair(lexemes, n) /\ lexemes[n + 1].kind \in Content)
  BY <1>1, <1>2, <1>3, Zenon DEF Pair, Split
<1>8. Split(lexemes, n) => Pair(lexemes, n)
  BY Zenon DEF Pair, Split
<1>9. Pair(lexemes, n) => Some(lexemes, n)
  BY Zenon DEF Some, Pair
<1> QED
  BY <1>5, <1>6, <1>7, <1>8, <1>9, Zenon

(* A lexeme is counted as it is passed. *)
LEMMA CountedStep ==
  ASSUME NEW lexemes, NEW n \in Nat, NEW s \in Scanner, NEW t, NEW e,
         Counted(lexemes, n, s.statements, s.pending), Passed(lexemes[n + 1], s, t, e)
  PROVE  Counted(lexemes, n + 1, t.statements, t.pending)
<1> DEFINE kind == lexemes[n + 1].kind
<1>1. s.statements \in Nat /\ s.pending \in BOOLEAN
  BY ScannerFields, Zenon
<1>2. /\ t.statements = IF kind = "semicolon" /\ s.pending THEN s.statements + 1 ELSE s.statements
      /\ t.pending <=> kind # "semicolon" /\ (s.pending \/ kind \in Content)
  BY Zenon DEF Passed
<1>3. "semicolon" \notin Content
  BY Zenon DEF Content
<1>4. /\ s.statements > 0 \/ s.pending <=> Some(lexemes, n)
      /\ s.statements > 0 <=> Pair(lexemes, n)
      /\ s.statements > 1 \/ (s.statements > 0 /\ s.pending) <=> Split(lexemes, n)
  BY Zenon DEF Counted
<1> HIDE DEF kind
<1>5. /\ Some(lexemes, n + 1) <=> Some(lexemes, n) \/ kind \in Content
      /\ Pair(lexemes, n + 1) <=> Pair(lexemes, n) \/ (Some(lexemes, n) /\ kind = "semicolon")
      /\ Split(lexemes, n + 1) <=> Split(lexemes, n) \/ (Pair(lexemes, n) /\ kind \in Content)
      /\ Split(lexemes, n) => Pair(lexemes, n)
      /\ Pair(lexemes, n) => Some(lexemes, n)
  BY ContentStep, Zenon DEF kind
<1>6. CASE kind = "semicolon"
  <2>1. CASE s.pending
    <3>1. t.statements = s.statements + 1 /\ ~t.pending
      BY <1>2, <1>6, <2>1, Zenon
    <3>2. t.statements > 0 /\ (t.statements > 1 <=> s.statements > 0)
      BY <1>1, <3>1
    <3> QED
      BY <1>3, <1>4, <1>5, <1>6, <2>1, <3>1, <3>2, Zenon DEF Counted
  <2>2. CASE ~s.pending
    <3>1. t.statements = s.statements /\ ~t.pending
      BY <1>2, <1>6, <2>2, Zenon
    <3> QED
      BY <1>3, <1>4, <1>5, <1>6, <2>2, <3>1, Zenon DEF Counted
  <2> QED
    BY <2>1, <2>2, Zenon
<1>7. CASE kind # "semicolon"
  <2>1. t.statements = s.statements /\ (t.pending <=> s.pending \/ kind \in Content)
    BY <1>2, <1>7, Zenon
  <2>2. s.statements > 1 => s.statements > 0
    BY <1>1
  <2> QED
    BY <1>4, <1>5, <1>7, <2>1, <2>2, Zenon DEF Counted
<1> QED
  BY <1>6, <1>7, Zenon

(* A word is collected as it is passed. *)
LEMMA WordsStep ==
  ASSUME NEW lexemes, NEW n \in Nat, NEW ws \in Seq(Seq(Char)), NEW vs, WordsOf(lexemes, n, ws),
         lexemes[n + 1].kind = "word" => lexemes[n + 1].parts[1] \in Seq(Char),
         vs = IF lexemes[n + 1].kind = "word" THEN Append(ws, lexemes[n + 1].parts[1]) ELSE ws
  PROVE  WordsOf(lexemes, n + 1, vs)
<1>1. 1 .. n + 1 = (1 .. n) \cup {n + 1} /\ n + 1 \in 1 .. n + 1 /\ (n + 1) - 1 = n
  OBVIOUS
<1>2. \A i \in 1 .. n : lexemes[i].kind = "word" => \E k \in DOMAIN ws : ws[k] = lexemes[i].parts[1]
  BY Zenon DEF WordsOf
<1>3. \A k \in DOMAIN ws : \E i \in 1 .. n : lexemes[i].kind = "word" /\ ws[k] = lexemes[i].parts[1]
  BY Zenon DEF WordsOf
<1>4. ws # <<>> => \E i \in 1 .. n : /\ lexemes[i].kind = "word" /\ ws[1] = lexemes[i].parts[1]
                                    /\ \A j \in 1 .. i - 1 : lexemes[j].kind # "word"
  BY Zenon DEF WordsOf
<1>5. CASE lexemes[n + 1].kind # "word"
  <2>1. vs = ws
    BY <1>5, Zenon
  <2>2. \A i \in 1 .. n + 1 : lexemes[i].kind = "word" => \E k \in DOMAIN ws : ws[k] = lexemes[i].parts[1]
    BY <1>1, <1>5, <1>2, Zenon
  <2>3. \A k \in DOMAIN ws : \E i \in 1 .. n + 1 : lexemes[i].kind = "word" /\ ws[k] = lexemes[i].parts[1]
    BY <1>1, <1>3, Zenon
  <2>4. ws # <<>> => \E i \in 1 .. n + 1 : /\ lexemes[i].kind = "word" /\ ws[1] = lexemes[i].parts[1]
                                          /\ \A j \in 1 .. i - 1 : lexemes[j].kind # "word"
    BY <1>1, <1>4, Zenon
  <2>5. WordsOf(lexemes, n + 1, ws)
    BY <2>2, <2>3, <2>4, Zenon DEF WordsOf
  <2> QED
    BY <2>1, <2>5, Zenon
<1>6. CASE lexemes[n + 1].kind = "word"
  <2> DEFINE w == lexemes[n + 1].parts[1]
  <2>1. vs = Append(ws, w) /\ w \in Seq(Char)
    BY <1>6, Zenon
  <2> HIDE DEF w
  <2>2. /\ DOMAIN vs = (DOMAIN ws) \cup {Len(ws) + 1} /\ vs[Len(ws) + 1] = w
        /\ \A k \in DOMAIN ws : vs[k] = ws[k]
    BY <2>1
  <2>3. ws # <<>> => vs[1] = ws[1]
    BY <2>1
  <2>4. ws = <<>> => vs[1] = w /\ DOMAIN ws = {}
    <3>1. Append(<<>>, w)[1] = w /\ DOMAIN <<>> = {}
      OBVIOUS
    <3> QED
      BY <2>1, <3>1, Zenon
  <2>5. \A i \in 1 .. n + 1 : lexemes[i].kind = "word" => \E k \in DOMAIN vs : vs[k] = lexemes[i].parts[1]
    <3>1. \E k \in DOMAIN vs : vs[k] = lexemes[n + 1].parts[1]
      BY <2>2, Zenon DEF w
    <3>2. \A i \in 1 .. n : lexemes[i].kind = "word" => \E k \in DOMAIN vs : vs[k] = lexemes[i].parts[1]
      BY <1>2, <2>2, Zenon
    <3> QED
      BY <1>1, <3>1, <3>2, Zenon
  <2>6. \A k \in DOMAIN vs : \E i \in 1 .. n + 1 : lexemes[i].kind = "word" /\ vs[k] = lexemes[i].parts[1]
    <3>1. \A k \in DOMAIN ws : \E i \in 1 .. n + 1 : lexemes[i].kind = "word" /\ vs[k] = lexemes[i].parts[1]
      <4>1. \A k \in DOMAIN ws : \E i \in 1 .. n : lexemes[i].kind = "word" /\ vs[k] = lexemes[i].parts[1]
        BY <1>3, <2>2, Zenon
      <4> QED
        BY <1>1, <4>1, Zenon
    <3>2. \E i \in 1 .. n + 1 : lexemes[i].kind = "word" /\ vs[Len(ws) + 1] = lexemes[i].parts[1]
      BY <1>1, <1>6, <2>2, Zenon DEF w
    <3> QED
      BY <2>2, <3>1, <3>2, Zenon
  <2>7. \E i \in 1 .. n + 1 : /\ lexemes[i].kind = "word" /\ vs[1] = lexemes[i].parts[1]
                               /\ \A j \in 1 .. i - 1 : lexemes[j].kind # "word"
    <3>1. CASE ws # <<>>
      BY <1>1, <1>4, <2>3, <3>1, Zenon
    <3>2. CASE ws = <<>>
      <4>1. \A j \in 1 .. n : lexemes[j].kind # "word"
        BY <1>2, <2>4, <3>2, Zenon
      <4> QED
        BY <1>1, <1>6, <2>4, <3>2, <4>1, Zenon DEF w
    <3> QED
      BY <3>1, <3>2, Zenon
  <2> QED
    BY <2>5, <2>6, <2>7, Zenon DEF WordsOf
<1> QED
  BY <1>5, <1>6, Zenon

-----------------------------------------------------------------------------
(* The scan of a statement.                                                *)

(* The texts of the lexemes of a statement. *)
Texts(lexemes) == [n \in DOMAIN lexemes |-> Joined(lexemes[n].parts)]

(* The text src is the texts of the lexemes, one after the other. *)
LaidOut(src, lexemes) ==
  /\ src \in Seq(Char) /\ End(Texts(lexemes), 0) = 0 /\ End(Texts(lexemes), Len(lexemes)) = Len(src)
  /\ \A n \in 1 .. Len(lexemes) :
       /\ lexemes[n].parts \in Seq(Seq(Char)) /\ IsLexeme(lexemes[n])
       /\ End(Texts(lexemes), n - 1) \in Nat
       /\ End(Texts(lexemes), n) = End(Texts(lexemes), n - 1) + Len(Joined(lexemes[n].parts))
       /\ Occurs(src, End(Texts(lexemes), n - 1), Joined(lexemes[n].parts))

(* The text that Render makes of a statement is laid out so. *)
LEMMA StatementIsLaidOut ==
  ASSUME NEW lexemes \in Seq(Lexeme)
  PROVE  LaidOut(Render(lexemes), lexemes)
<1> DEFINE texts == Texts(lexemes)
<1>1. \A n \in 1 .. Len(lexemes) : lexemes[n] \in Lexeme
  OBVIOUS
<1>2. \A n \in 1 .. Len(lexemes) : lexemes[n].parts \in Seq(Seq(Char)) /\ IsLexeme(lexemes[n])
  BY <1>1, GuardAssumption, Zenon
<1>3. \A n \in 1 .. Len(lexemes) : Joined(lexemes[n].parts) \in Seq(Char)
  BY <1>2, LexemeText, Zenon
<1>4. DOMAIN lexemes = 1 .. Len(lexemes) /\ Len(lexemes) \in Nat
  OBVIOUS
<1>5. texts \in [1 .. Len(lexemes) -> Seq(Char)] /\ \A n \in 1 .. Len(lexemes) : texts[n] = Joined(lexemes[n].parts)
  BY <1>3, <1>4, Zenon DEF Texts
<1> HIDE DEF texts
<1>6. texts \in Seq(Seq(Char)) /\ Len(texts) = Len(lexemes)
  BY <1>4, <1>5
<1>7. Render(lexemes) = Joined(texts)
  BY Zenon DEF Render, texts, Texts
<1>8. /\ Joined(texts) \in Seq(Char) /\ End(texts, 0) = 0 /\ End(texts, Len(texts)) = Len(Joined(texts))
  BY <1>6, JoinedEnds, Zenon
<1>9. \A n \in 1 .. Len(lexemes) :
        /\ End(texts, n - 1) \in Nat /\ End(texts, n) = End(texts, n - 1) + Len(texts[n])
        /\ Occurs(Joined(texts), End(texts, n - 1), texts[n])
  BY <1>6, PartOccurs, Zenon
<1> QED
  BY <1>2, <1>5, <1>6, <1>7, <1>8, <1>9, Zenon DEF LaidOut, texts

(* The next character after a lexeme is the first one of the next lexeme. *)
LEMMA NextFollows ==
  ASSUME NEW src, NEW lexemes \in Seq(Lexeme), IsStatement(lexemes), LaidOut(src, lexemes),
         NEW n \in 1 .. Len(lexemes), NEW e, e = End(Texts(lexemes), n)
  PROVE  /\ e < Len(src) => MayFollow(lexemes[n], src[e + 1])
         /\ n + 1 <= Len(lexemes) => MayFollow(lexemes[n], Joined(lexemes[n + 1].parts)[1])
<1>1. n + 1 <= Len(lexemes) => n \in 1 .. Len(lexemes) - 1
  OBVIOUS
<1>2. n + 1 <= Len(lexemes) => MayFollow(lexemes[n], Joined(lexemes[n + 1].parts)[1])
  BY <1>1, Zenon DEF IsStatement
<1>3. ASSUME e < Len(src) PROVE MayFollow(lexemes[n], src[e + 1])
  <2>1. n # Len(lexemes)
    <3>1. src \in Seq(Char) /\ End(Texts(lexemes), Len(lexemes)) = Len(src)
      BY Zenon DEF LaidOut
    <3>2. ~(Len(src) < Len(src))
      BY <3>1
    <3> QED
      BY <1>3, <3>1, <3>2, Zenon
  <2>2. n + 1 <= Len(lexemes) /\ n + 1 \in 1 .. Len(lexemes) /\ (n + 1) - 1 = n
    BY <2>1
  <2> DEFINE t == Joined(lexemes[n + 1].parts)
  <2>3. lexemes[n + 1].parts \in Seq(Seq(Char)) /\ IsLexeme(lexemes[n + 1]) /\ Occurs(src, e, t)
    BY <2>2, Zenon DEF LaidOut
  <2>4. Len(t) \in Nat /\ Len(t) > 0
    BY <2>3, LexemeText, Zenon
  <2> HIDE DEF t
  <2>5. 1 \in 1 .. Len(t)
    BY <2>4
  <2>6. src[e + 1] = t[1]
    BY <2>3, <2>5, Zenon DEF Occurs
  <2> QED
    BY <1>2, <2>2, <2>6, Zenon DEF t
<1> QED
  BY <1>2, <1>3, Zenon

(* What the scanner holds once it has passed n lexemes. *)
Sound(lexemes, n, s) ==
  /\ s \in Scanner /\ s.i = End(Texts(lexemes), n) + 1
  /\ s.word # <<>> => n \in 1 .. Len(lexemes) /\ lexemes[n].kind = "word"
  /\ WordsOf(lexemes, n, Flushed(s)) /\ Counted(lexemes, n, s.statements, s.pending)

SoundAfter(src, lexemes, n) ==
  \E m \in Nat : m <= End(Texts(lexemes), n) /\ Sound(lexemes, n, Scan(src, m))

(* Before the first lexeme the scanner has found nothing. *)
LEMMA SoundStart ==
  ASSUME NEW src, NEW lexemes, LaidOut(src, lexemes)
  PROVE  SoundAfter(src, lexemes, 0)
<1>1. src \in Seq(Char) /\ End(Texts(lexemes), 0) = 0 /\ 0 \in Nat /\ 0 <= 0 /\ 1 .. 0 = {} /\ 0 + 1 = 1
  BY DEF LaidOut
<1>2. Start \in Scanner /\ Scan(src, 0) = Start
  BY <1>1, ScanRuns, Zenon
<1>3. Start.i = 1 /\ Start.word = <<>> /\ Start.words = <<>> /\ Start.statements = 0 /\ Start.pending = FALSE
  BY Zenon DEF Start
<1>4. Flushed(Start) = <<>> /\ DOMAIN <<>> = {}
  BY <1>3 DEF Flushed
<1>5. WordsOf(lexemes, 0, <<>>)
  BY <1>1, <1>4, Zenon DEF WordsOf
<1>6. Counted(lexemes, 0, 0, FALSE)
  <2>1. ~(0 > 0) /\ ~(0 > 1)
    OBVIOUS
  <2> QED
    BY <1>1, <2>1, Zenon DEF Counted, Some, Pair, Split
<1>7. Sound(lexemes, 0, Start)
  BY <1>1, <1>2, <1>3, <1>4, <1>5, <1>6, Zenon DEF Sound
<1> QED
  BY <1>1, <1>2, <1>7, Zenon DEF SoundAfter

(* The turns over the next lexeme leave a sound scanner sound. *)
LEMMA SoundStep ==
  ASSUME NEW src, NEW lexemes \in Seq(Lexeme), IsStatement(lexemes), LaidOut(src, lexemes),
         NEW n \in Nat, n + 1 <= Len(lexemes), SoundAfter(src, lexemes, n)
  PROVE  SoundAfter(src, lexemes, n + 1)
<1> DEFINE l == lexemes[n + 1]
           b == End(Texts(lexemes), n)
           e == End(Texts(lexemes), n + 1)
<1>1. n + 1 \in 1 .. Len(lexemes) /\ (n + 1) - 1 = n /\ (n \in 1 .. Len(lexemes) => n + 1 <= Len(lexemes))
  OBVIOUS
<1>2. /\ src \in Seq(Char) /\ l.parts \in Seq(Seq(Char)) /\ IsLexeme(l) /\ b \in Nat
      /\ e = b + Len(Joined(l.parts)) /\ Occurs(src, b, Joined(l.parts))
  BY <1>1, Zenon DEF LaidOut
<1>3. e < Len(src) => MayFollow(l, src[e + 1])
  BY <1>1, NextFollows, Zenon
<1>4. PICK m \in Nat : m <= b /\ Sound(lexemes, n, Scan(src, m))
  BY Zenon DEF SoundAfter
<1> DEFINE s == Scan(src, m)
<1>5. /\ s \in Scanner /\ s.i = b + 1 /\ WordsOf(lexemes, n, Flushed(s))
      /\ Counted(lexemes, n, s.statements, s.pending)
  BY <1>4, Zenon DEF Sound
<1>6. ASSUME l.kind = "word" PROVE IsWord(l.parts) /\ l.parts[1] \in Seq(Char) /\ s.word = <<>>
  <2> DEFINE w == l.parts[1]
  <2>1. IsWord(l.parts)
    BY <1>2, <1>6, Zenon DEF IsLexeme
  <2>2. l.parts = <<w>> /\ w \in Seq(Char) /\ Len(w) > 0 /\ w[1] \in Letter \cup {"$"}
    <3> HIDE DEF l
    <3> QED
      BY <1>2, <2>1, SMTT(30) DEF IsWord
  <2>3. Joined(l.parts) = w
    <3> HIDE DEF w
    <3> QED
      BY <2>2, JoinedOne, Zenon
  <2>4. ASSUME s.word # <<>> PROVE FALSE
    <3>1. n \in 1 .. Len(lexemes) /\ lexemes[n].kind = "word"
      BY <1>4, <2>4, Zenon DEF Sound
    <3>2. MayFollow(lexemes[n], Joined(l.parts)[1])
      BY <1>1, <3>1, NextFollows, Zenon
    <3> QED
      BY <2>2, <2>3, <3>1, <3>2, Zenon DEF MayFollow
  <2> QED
    BY <2>1, <2>2, <2>4, Zenon
<1>7. \E k \in Nat : k <= e /\ Passed(l, s, Scan(src, k), e)
  <2> HIDE DEF l, b, e
  <2> QED
    BY <1>2, <1>3, <1>4, <1>5, <1>6, LexemePassed, Zenon
<1>8. PICK k \in Nat : k <= e /\ Passed(l, s, Scan(src, k), e)
  BY <1>7, Zenon
<1> DEFINE t == Scan(src, k)
<1> HIDE DEF s, t
<1>9. Counted(lexemes, n + 1, t.statements, t.pending)
  BY <1>5, <1>8, CountedStep, Zenon DEF t
<1>10. WordsOf(lexemes, n + 1, Flushed(t))
  <2>1. Flushed(s) \in Seq(Seq(Char))
    BY <1>5, ScannerFields, Zenon
  <2>2. Flushed(t) = IF l.kind = "word" THEN Append(Flushed(s), l.parts[1]) ELSE Flushed(s)
    BY <1>8, Zenon DEF Passed, t
  <2> QED
    BY <1>5, <1>6, <2>1, <2>2, WordsStep, Zenon
<1>11. t \in Scanner /\ t.i = e + 1 /\ (t.word # <<>> => l.kind = "word")
  BY <1>8, Zenon DEF Passed, t
<1>12. Sound(lexemes, n + 1, t)
  BY <1>1, <1>9, <1>10, <1>11, Zenon DEF Sound
<1> QED
  BY <1>8, <1>12, Zenon DEF SoundAfter, t

(* What the scanner holds at the end of a statement. *)
LEMMA SoundEnd ==
  ASSUME NEW src, NEW lexemes \in Seq(Lexeme), IsStatement(lexemes), LaidOut(src, lexemes)
  PROVE  Sound(lexemes, Len(lexemes), Scan(src, Len(src)))
<1>1. Len(lexemes) \in Nat /\ src \in Seq(Char) /\ End(Texts(lexemes), Len(lexemes)) = Len(src)
  BY DEF LaidOut
<1> DEFINE T == {n \in Nat : n <= Len(lexemes) => SoundAfter(src, lexemes, n)}
<1>2. 0 \in T
  BY SoundStart, Zenon
<1>3. ASSUME NEW n \in Nat, n \in T PROVE n + 1 \in T
  <2>1. n + 1 \in Nat /\ (n + 1 <= Len(lexemes) => n <= Len(lexemes))
    BY <1>1
  <2> QED
    BY <1>3, <2>1, SoundStep, Zenon
<1> HIDE DEF T
<1>4. Len(lexemes) \in T
  BY <1>1, <1>2, <1>3, SetInduction, Zenon
<1>5. Len(lexemes) <= Len(lexemes) /\ Len(src) \in Nat /\ Len(src) + 1 > Len(src)
  BY <1>1
<1>6. SoundAfter(src, lexemes, Len(lexemes))
  BY <1>4, <1>5, Zenon DEF T
<1>7. PICK m \in Nat : m <= Len(src) /\ Sound(lexemes, Len(lexemes), Scan(src, m))
  BY <1>1, <1>6, Zenon DEF SoundAfter
<1>8. Scan(src, m) \in Scanner /\ Scan(src, m).i = Len(src) + 1
  BY <1>1, <1>7, Zenon DEF Sound
<1>9. Scan(src, m).i > Len(src) /\ ~(Scan(src, m).i <= Len(src))
  BY <1>5, <1>8
<1>10. ScanStep(src, Scan(src, m)) = Scan(src, m)
  BY <1>9, Zenon DEF ScanStep
<1>11. Scan(src, Len(src)) = Scan(src, m)
  <2> DEFINE step == [s \in Scanner |-> ScanStep(src, s)]
  <2>1. Start \in Scanner /\ step \in [Scanner -> Scanner]
    BY <1>1, ScanRuns, Zenon
  <2>2. step[Scan(src, m)] = Scan(src, m)
    BY <1>8, <1>10, Zenon
  <2> HIDE DEF step
  <2>3. step[Turns(step, Start, m)] = Turns(step, Start, m)
    BY <2>2, Zenon DEF Scan, step
  <2>4. Turns(step, Start, Len(src)) = Turns(step, Start, m)
    BY <1>5, <1>7, <2>1, <2>3, TurnsStay, Zenon
  <2> QED
    BY <2>4, Zenon DEF Scan, step
<1> QED
  BY <1>7, <1>11, Zenon

(* The words that are found decide as the words of the statement do. *)
LEMMA WordsDecide ==
  ASSUME NEW lexemes, NEW n \in Nat, NEW ws \in Seq(Seq(Char)), WordsOf(lexemes, n, ws)
  PROVE  /\ ws # <<>> /\ ws[1] \in readVerbs <=>
              \E i \in 1 .. n : /\ lexemes[i].kind = "word" /\ lexemes[i].parts[1] \in readVerbs
                                /\ \A j \in 1 .. i - 1 : lexemes[j].kind # "word"
         /\ (\A k \in DOMAIN ws : ws[k] \notin writeKeywords) <=>
              \A i \in 1 .. n : lexemes[i].kind = "word" => lexemes[i].parts[1] \notin writeKeywords
<1>1. \A i \in 1 .. n : lexemes[i].kind = "word" => \E k \in DOMAIN ws : ws[k] = lexemes[i].parts[1]
  BY Zenon DEF WordsOf
<1>2. \A k \in DOMAIN ws : \E i \in 1 .. n : lexemes[i].kind = "word" /\ ws[k] = lexemes[i].parts[1]
  BY Zenon DEF WordsOf
<1>3. ws # <<>> => \E i \in 1 .. n : /\ lexemes[i].kind = "word" /\ ws[1] = lexemes[i].parts[1]
                                    /\ \A j \in 1 .. i - 1 : lexemes[j].kind # "word"
  BY Zenon DEF WordsOf
<1>4. (\A k \in DOMAIN ws : ws[k] \notin writeKeywords) <=>
        \A i \in 1 .. n : lexemes[i].kind = "word" => lexemes[i].parts[1] \notin writeKeywords
  BY <1>1, <1>2, Zenon
<1>5. ASSUME NEW i \in 1 .. n, lexemes[i].kind = "word", lexemes[i].parts[1] \in readVerbs,
             \A j \in 1 .. i - 1 : lexemes[j].kind # "word"
      PROVE  ws # <<>> /\ ws[1] \in readVerbs
  <2>1. DOMAIN <<>> = {}
    OBVIOUS
  <2>2. ws # <<>>
    BY <1>1, <1>5, <2>1, Zenon
  <2>3. PICK h \in 1 .. n : /\ lexemes[h].kind = "word" /\ ws[1] = lexemes[h].parts[1]
                            /\ \A j \in 1 .. h - 1 : lexemes[j].kind # "word"
    BY <1>3, <2>2, Zenon
  <2>4. h \in 1 .. i - 1 \/ i \in 1 .. h - 1 \/ h = i
    OBVIOUS
  <2>5. h = i
    BY <1>5, <2>3, <2>4, Zenon
  <2> QED
    BY <1>5, <2>2, <2>3, <2>5, Zenon
<1> QED
  BY <1>3, <1>4, <1>5, Zenon

(* The scanner and the definition over lexemes agree on every statement, however long: sqlguard's
   ReadOnly takes a text for a read exactly when the first bare word of it is a read verb, no bare
   word is a write keyword, and no semicolon stands between two pieces of content. *)
THEOREM EveryStatementIsDecided ==
  \A lexemes \in Seq(Lexeme) : IsStatement(lexemes) => ReadOnly(Render(lexemes)) = IsRead(lexemes)
<1> SUFFICES ASSUME NEW lexemes \in Seq(Lexeme), IsStatement(lexemes)
             PROVE  ReadOnly(Render(lexemes)) = IsRead(lexemes)
  OBVIOUS
<1> DEFINE src  == Render(lexemes)
           last == Scan(src, Len(src))
           ws   == Flushed(last)
           n    == IF last.pending THEN last.statements + 1 ELSE last.statements
<1>1. Sound(lexemes, Len(lexemes), last)
  BY StatementIsLaidOut, SoundEnd, Zenon
<1>2. scan(src) = [words |-> ws, statements |-> n]
  BY Zenon DEF scan, Scan, Start
<1> HIDE DEF last
<1>3. last \in Scanner /\ WordsOf(lexemes, Len(lexemes), ws)
      /\ Counted(lexemes, Len(lexemes), last.statements, last.pending)
  BY <1>1, Zenon DEF Sound
<1>4. last.statements \in Nat /\ last.pending \in BOOLEAN /\ ws \in Seq(Seq(Char))
  BY <1>3, ScannerFields, Zenon
<1>5. n <= 1 <=> ~Split(lexemes, Len(lexemes))
  <2>1. n <= 1 <=> ~(last.statements > 1 \/ (last.statements > 0 /\ last.pending))
    <3>1. CASE last.pending
      <4>1. n = last.statements + 1
        BY <3>1, Zenon
      <4>2. last.statements + 1 <= 1 <=> ~(last.statements > 1 \/ last.statements > 0)
        BY <1>4
      <4> QED
        BY <3>1, <4>1, <4>2, Zenon
    <3>2. CASE ~last.pending
      <4>1. n = last.statements
        BY <3>2, Zenon
      <4>2. last.statements <= 1 <=> ~(last.statements > 1)
        BY <1>4
      <4> QED
        BY <3>2, <4>1, <4>2, Zenon
    <3> QED
      BY <3>1, <3>2, Zenon
  <2> QED
    BY <1>3, <2>1, Zenon DEF Counted
<1> HIDE DEF ws, n, src
<1>6. scan(src).words = ws /\ scan(src).statements = n
  BY <1>2
<1>7. DOMAIN lexemes = 1 .. Len(lexemes) /\ Len(lexemes) \in Nat
  OBVIOUS
<1>8. ReadOnly(src) <=> /\ ws # <<>> /\ n <= 1 /\ ws[1] \in readVerbs
                        /\ \A k \in DOMAIN ws : ws[k] \notin writeKeywords
  BY <1>6, Zenon DEF ReadOnly
<1>9. IsRead(lexemes) <=>
        /\ \E i \in 1 .. Len(lexemes) : /\ lexemes[i].kind = "word" /\ lexemes[i].parts[1] \in readVerbs
                                         /\ \A j \in 1 .. i - 1 : lexemes[j].kind # "word"
        /\ \A i \in 1 .. Len(lexemes) : lexemes[i].kind = "word" => lexemes[i].parts[1] \notin writeKeywords
        /\ ~Split(lexemes, Len(lexemes))
  BY <1>7, Zenon DEF IsRead, Split
<1>10. ReadOnly(src) <=> IsRead(lexemes)
  BY <1>3, <1>4, <1>5, <1>7, <1>8, <1>9, WordsDecide, Zenon
<1>11. ReadOnly(src) \in BOOLEAN /\ IsRead(lexemes) \in BOOLEAN
  BY Zenon DEF ReadOnly, IsRead
<1>12. ReadOnly(src) = IsRead(lexemes)
  <2> DEFINE p == ReadOnly(src)
             q == IsRead(lexemes)
  <2>1. p \in BOOLEAN /\ q \in BOOLEAN /\ (p <=> q)
    BY <1>10, <1>11, Zenon
  <2> HIDE DEF p, q
  <2>2. p = q
    BY <2>1
  <2> QED
    BY <2>2, Zenon DEF p, q
<1> QED
  BY <1>12, Zenon DEF src

(* So they agree on the statements that are tried. *)
LEMMA TriedStatementsAreDecided == ScanIsExact
<1>1. MaxLexemes \in Nat
  BY GuardAssumption, Zenon
<1>2. \A n \in 0 .. MaxLexemes : [1 .. n -> Lexeme] \subseteq Seq(Lexeme)
  BY <1>1
<1>3. \A lexemes \in Statements : lexemes \in Seq(Lexeme) /\ IsStatement(lexemes)
  BY <1>2, Zenon DEF Statements
<1> QED
  BY <1>3, EveryStatementIsDecided, Zenon DEF ScanIsExact
=============================================================================
