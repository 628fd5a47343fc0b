------------------------------ MODULE Download ------------------------------
(***************************************************************************)
(* What a download returns of a stored result of a given size: the Range   *)
(* header and the offset and limit parameters of the REST handler, the     *)
(* offset and limit of the Connect handler, and the reader that skips and  *)
(* bounds (sectionReadCloser of internal/core/service).                    *)
(*                                                                         *)
(* A body is the sequence of the positions it delivers.  A read of the     *)
(* store returns at most Chunk bytes.                                      *)
(***************************************************************************)
EXTENDS Integers, Sequences, FiniteSets

CONSTANTS Width,  \* bits of a signed integer: 64 in the program
          Chunk,  \* the most bytes one read of the store returns
          Buffer, \* the size of the buffer io.Copy reads into
          Blank,  \* a part of a header, or a parameter, that is not there
          Size,   \* sizes of results that are tried
          Number  \* numbers that are tried in a header or a parameter

MaxInt == 2 ^ (Width - 1) - 1

ASSUME DownloadAssumption ==
  /\ Width \in Nat \ {0, 1} /\ MaxInt \in Nat
  /\ Chunk \in Nat \ {0} /\ Buffer \in Nat \ {0} /\ Blank \notin Int
  /\ Size \subseteq 0 .. MaxInt /\ Number \subseteq -(MaxInt + 1) .. MaxInt

(* Two's complement, what an int64 holds of x: 2 * (MaxInt + 1) = 2 ^ Width. *)
Int64(x) == ((x + MaxInt + 1) % (2 * (MaxInt + 1))) - (MaxInt + 1)

Least(a, b) == IF a < b THEN a ELSE b

Most(a, b) == IF a > b THEN a ELSE b

(***************************************************************************)
(* sectionReadCloser                                                       *)
(***************************************************************************)
(* Mutant of SectionRead: the limit is compared with the last read, not with their sum. *)
SectionReadForgets(size, limit, s) ==
  LET skip == Most(s.offset, 0)
      at   == s.at + skip
      room == IF limit > 0 THEN Least(Buffer, limit - s.read) ELSE Buffer
      n    == Least(room, Least(Chunk, size - at))
  IN  CASE at > size -> [s EXCEPT !.at = size, !.done = TRUE]
        [] at <= size /\ limit > 0 /\ s.read >= limit ->
             [s EXCEPT !.at = at, !.offset = 0, !.done = TRUE]
        [] at <= size /\ ~ (limit > 0 /\ s.read >= limit) ->
             [at |-> at + n, offset |-> s.offset - skip, read |-> n,
              done |-> n = 0 \/ (limit > 0 /\ n >= limit),
              body |-> s.body \o [i \in 1 .. n |-> at + i - 1]]

(* One Read: skip what is left of the offset, then read within the limit. *)
SectionRead(size, limit, s) ==
  LET skip == Most(s.offset, 0)
      at   == s.at + skip
      room == IF limit > 0 THEN Least(Buffer, limit - s.read) ELSE Buffer
      n    == Least(room, Least(Chunk, size - at))
  IN  CASE at > size -> [s EXCEPT !.at = size, !.done = TRUE]
        [] at <= size /\ limit > 0 /\ s.read >= limit ->
             [s EXCEPT !.at = at, !.offset = 0, !.done = TRUE]
        [] at <= size /\ ~ (limit > 0 /\ s.read >= limit) ->
             [at |-> at + n, offset |-> s.offset - skip, read |-> s.read + n,
              done |-> n = 0 \/ (limit > 0 /\ s.read + n >= limit),
              body |-> s.body \o [i \in 1 .. n |-> at + i - 1]]

(* The reader the service returns, before its first Read. *)
OpenSection(offset) == [at |-> 0, offset |-> offset, read |-> 0, done |-> FALSE, body |-> <<>>]

(* The reader after n calls of Read; io.Copy makes no more once one returned an error. *)
SectionAfter(size, offset, limit, n) ==
  LET after[k \in Nat] ==
        IF k = 0 THEN OpenSection(offset)
        ELSE IF after[k - 1].done THEN after[k - 1]
        ELSE SectionRead(size, limit, after[k - 1])
  IN  after[n]

(* The body io.Copy gets: a reader that is not at its end has read a byte with every call. *)
Body(size, offset, limit) ==
  IF offset > 0 \/ limit > 0
    THEN SectionAfter(size, offset, limit, size + 1).body
    ELSE [i \in 1 .. size |-> i - 1]

(***************************************************************************)
(* The handlers                                                            *)
(***************************************************************************)

(* parseByteRange: a header is its two parts, either of which may be blank or negative. *)
parseByteRange(h) ==
  IF h.first = Blank \/ h.first < 0 \/ (h.last # Blank /\ h.last < h.first)
    THEN [ok |-> FALSE]
    ELSE [ok |-> TRUE, start |-> h.first, end |-> IF h.last = Blank THEN 0 - 1 ELSE h.last]

(* handleDownloadResult with a Range header. *)
RangedDownload(size, h) ==
  LET r     == parseByteRange(h)
      limit == IF r.end >= 0 THEN Int64(r.end - r.start + 1) ELSE 0
      end   == IF r.end < 0 \/ r.end >= size THEN size - 1 ELSE r.end
  IN  CASE ~ r.ok -> [status |-> 416]
        [] r.ok /\ r.start >= size -> [status |-> 416]
        [] r.ok /\ r.start < size ->
             [status |-> 206, first |-> r.start, last |-> end, body |-> Body(size, r.start, limit)]

(* handleDownloadResult with offset and limit, either of which may be missing. *)
PagedDownload(size, offset, limit) ==
  IF (offset # Blank /\ offset < 0) \/ (limit # Blank /\ limit < 0)
    THEN [status |-> 400]
    ELSE [status |-> 200, body |-> Body(size, IF offset = Blank THEN 0 ELSE offset,
                                              IF limit = Blank THEN 0 ELSE limit)]

(* The Connect handler passes both through: 64-bit fields that are 0 when unset. *)
StreamedDownload(size, offset, limit) == [status |-> 200, body |-> Body(size, offset, limit)]

(* The positions from first to last, the reference a body is compared with. *)
Slice(first, last) == [i \in 1 .. Most(last - first + 1, 0) |-> first + i - 1]

(* What the handlers make of the numbers x and y, of which a negative offset or limit of
   the Connect handler counts as none. *)
SectionIsExact(size, x, y) ==
  LET ranged == RangedDownload(size, [first |-> x, last |-> y])
      paged  == PagedDownload(size, x, y)
      from   == IF x = Blank THEN 0 ELSE Most(x, 0)
      upto   == IF y = Blank \/ y <= 0 THEN size - 1 ELSE Least(size - 1, from + y - 1)
  IN  /\ ranged.status = 206 =>
           /\ ranged.first = x /\ ranged.last = IF y = Blank THEN size - 1 ELSE Least(y, size - 1)
           /\ ranged.body = Slice(ranged.first, ranged.last)
      /\ ranged.status = 416 => x = Blank \/ x < 0 \/ x >= size \/ (y # Blank /\ y < x)
      /\ paged.status = 200 => paged.body = Slice(from, upto)
      /\ x # Blank /\ y # Blank => StreamedDownload(size, x, y).body = Slice(from, upto)

SectionsAreExact == \A size \in Size, x, y \in Number \cup {Blank} : SectionIsExact(size, x, y)
=============================================================================
