------------------------------ MODULE SqlGuard ------------------------------
(***************************************************************************)
(* The read-only check of internal/sqlguard: a scanner that skips          *)
(* comments, literals and quoted identifiers and collects bare words.      *)
(*                                                                         *)
(* A statement is a sequence of characters; the letters are abstract.  A   *)
(* word that is the single letter r is one of readVerbs, w is one of       *)
(* writeKeywords, and every other word is neither.                         *)
(***************************************************************************)
EXTENDS Integers, Sequences, FiniteSets

CONSTANTS Lexeme,    \* lexemes of which statements are tried
          MaxLexemes \* the most lexemes of a statement that is tried

Letter == {"r", "w", "x"}
Quote == {"'", "\"", "tick"}
Space == {" ", "\n"}
Char == Letter \cup Quote \cup Space \cup {";", "#", "$", "-", "/", "*", "\\", "("}

readVerbs == {<<"r">>}
writeKeywords == {<<"w">>}

(* The state of a loop after n turns, each of which is step. *)
Turns(step, first, n) ==
  LET after[k \in Nat] == IF k = 0 THEN first ELSE step[after[k - 1]]
  IN  after[n]

(* The first of some places in src, or the one past the end. *)
FirstOf(src, places) ==
  CHOOSE i \in places \cup {Len(src) + 1} : \A j \in places : i <= j

At(src, i, c) == i <= Len(src) /\ src[i] = c

(* Where a skip has come to, and how many comments or literals are open there. *)
Skip == [i : Nat, depth : Nat]

(* One turn of the loop over a block comment, which may hold others. *)
CommentTurn(src, s) ==
  IF s.depth = 0 \/ s.i > Len(src) THEN s
  ELSE IF At(src, s.i, "/") /\ At(src, s.i + 1, "*") THEN [i |-> s.i + 2, depth |-> s.depth + 1]
  ELSE IF At(src, s.i, "*") /\ At(src, s.i + 1, "/") THEN [i |-> s.i + 2, depth |-> s.depth - 1]
  ELSE [s EXCEPT !.i = s.i + 1]

(* Past the block comment opened before from. *)
skipComment(src, from) ==
  Turns([s \in Skip |-> CommentTurn(src, s)], [i |-> from, depth |-> 1], Len(src)).i

(* Mutant of QuotedTurn: a backslash does not escape a single quote. *)
QuotedTurnNoBackslash(src, quote, s) ==
  IF s.depth = 0 \/ s.i > Len(src) THEN s
  ELSE IF src[s.i] = quote /\ At(src, s.i + 1, quote) THEN [s EXCEPT !.i = s.i + 2]
  ELSE IF src[s.i] = quote THEN [i |-> s.i + 1, depth |-> 0]
  ELSE [s EXCEPT !.i = s.i + 1]

(* One turn of the loop over a literal: a doubled quote stands for itself, and so does what
   follows a backslash in single quotes. *)
QuotedTurn(src, quote, s) ==
  IF s.depth = 0 \/ s.i > Len(src) THEN s
  ELSE IF src[s.i] = "\\" /\ quote = "'" /\ s.i < Len(src) THEN [s EXCEPT !.i = s.i + 2]
  ELSE IF src[s.i] = quote /\ At(src, s.i + 1, quote) THEN [s EXCEPT !.i = s.i + 2]
  ELSE IF src[s.i] = quote THEN [i |-> s.i + 1, depth |-> 0]
  ELSE [s EXCEPT !.i = s.i + 1]

(* Past the literal opened at open. *)
skipQuoted(src, open) ==
  Turns([s \in Skip |-> QuotedTurn(src, src[open], s)], [i |-> open + 1, depth |-> 1], Len(src)).i

(* The last position of the dollar-quote opener at i; past the end when there is none. *)
dollarTag(src, i) ==
  LET j == FirstOf(src, {k \in i + 1 .. Len(src) : src[k] \notin Letter})
  IN  IF At(src, j, "$") THEN j ELSE Len(src) + 1

(* Past the closing tag of the dollar-quoted string whose opener is open .. end. *)
skipDollarQuoted(src, open, end) ==
  LET tag   == SubSeq(src, open, end)
      close == FirstOf(src, {k \in end + 1 .. Len(src) + 1 - Len(tag) : SubSeq(src, k, k + Len(tag) - 1) = tag})
  IN  IF close > Len(src) THEN Len(src) + 1 ELSE close + Len(tag)

(* What the scanner holds between two turns. *)
Scanner == [i : Nat, word : Seq(Char), words : Seq(Seq(Char)), statements : Nat, pending : BOOLEAN]

(* flush: the words, with the one being read if there is one. *)
Flushed(s) == IF s.word = <<>> THEN s.words ELSE Append(s.words, s.word)

(* The scanner goes on at i, once the word being read is flushed. *)
GoOn(s, i, statements, pending) ==
  [i |-> i, word |-> <<>>, words |-> Flushed(s), statements |-> statements, pending |-> pending]

(* The scanner goes on with the next character, once c is written to the word being read. *)
Spell(s, c, pending) ==
  [i |-> s.i + 1, word |-> Append(s.word, c), words |-> s.words, statements |-> s.statements,
   pending |-> pending]

(* One turn of the scanner's loop. *)
ScanStep(src, s) ==
  LET i == s.i
      c == src[i]
  IN  CASE i > Len(src) -> s
        [] i <= Len(src) /\ (c = "#" \/ (c = "-" /\ At(src, i + 1, "-"))) ->
             GoOn(s, FirstOf(src, {k \in i .. Len(src) : src[k] = "\n"}), s.statements, s.pending)
        [] i <= Len(src) /\ c = "/" /\ At(src, i + 1, "*") ->
             GoOn(s, skipComment(src, i + 2), s.statements, s.pending)
        [] i <= Len(src) /\ c = "$" /\ dollarTag(src, i) <= Len(src) ->
             GoOn(s, skipDollarQuoted(src, i, dollarTag(src, i)), s.statements, TRUE)
        [] i <= Len(src) /\ c \in Quote -> GoOn(s, skipQuoted(src, i), s.statements, TRUE)
        [] i <= Len(src) /\ c = ";" ->
             GoOn(s, i + 1, IF s.pending THEN s.statements + 1 ELSE s.statements, FALSE)
        [] i <= Len(src) /\ c = "$" /\ dollarTag(src, i) > Len(src) -> Spell(s, c, s.pending)
        [] i <= Len(src) /\ c \in Letter -> Spell(s, c, TRUE)
        [] OTHER -> GoOn(s, i + 1, s.statements, s.pending \/ c \notin Space)

scan(src) ==
  LET start == [i |-> 1, word |-> <<>>, words |-> <<>>, statements |-> 0, pending |-> FALSE]
      last  == Turns([s \in Scanner |-> ScanStep(src, s)], start, Len(src))
  IN  [words |-> Flushed(last),
       statements |-> IF last.pending THEN last.statements + 1 ELSE last.statements]

ReadOnly(src) ==
  LET found == scan(src)
  IN  /\ found.words # <<>>
      /\ found.statements <= 1
      /\ found.words[1] \in readVerbs
      /\ \A i \in DOMAIN found.words : found.words[i] \notin writeKeywords

(***************************************************************************)
(* What a statement is made of, and the same decision taken on that.  A    *)
(* lexeme is the sequence of its parts, each a sequence of characters.     *)
(***************************************************************************)

(* The text of the first n parts, and of all of them. *)
JoinedTo(parts, n) ==
  LET text[k \in 0 .. Len(parts)] == IF k = 0 THEN <<>> ELSE text[k - 1] \o parts[k]
  IN  text[n]

Joined(parts) == JoinedTo(parts, Len(parts))

(* A bare word or a numbered parameter: one dollar sign begins no dollar quote. *)
IsWord(p) ==
  /\ Len(p) = 1 /\ p[1] \in Seq(Letter \cup {"$"})
  /\ \E i \in DOMAIN p[1] : p[1][i] \in Letter
  /\ \A i, j \in DOMAIN p[1] : p[1][i] = "$" /\ p[1][j] = "$" => i = j

IsSpace(p) == \E c \in Space : p = <<<<c>>>>

IsSemicolon(p) == p = <<<<";">>>>

(* An operator or a parenthesis, a character at a time. *)
IsMark(p) == \E c \in Char \ (Letter \cup Quote \cup Space \cup {";", "#", "$"}) : p = <<<<c>>>>

(* A comment to the end of the line. *)
IsLine(p) ==
  Len(p) = 2 /\ p[1] \in {<<"#">>, <<"-", "-">>} /\ p[2] \in Seq(Char \ {"\n"})

Opener == <<"/", "*">>
Closer == <<"*", "/">>

(* How many comments are open after n parts. *)
Depth(p, n) ==
  Cardinality({k \in 1 .. n : p[k] = Opener}) - Cardinality({k \in 1 .. n : p[k] = Closer})

(* A block comment: openers, closers and other characters, the last part closing the first. *)
IsBlock(p) ==
  /\ Len(p) > 0 /\ p[1] = Opener
  /\ \A k \in DOMAIN p : p[k] \in {Opener, Closer} \cup {<<c>> : c \in Char}
  /\ \A k \in 1 .. Len(p) : Depth(p, k) > 0 <=> k < Len(p)
  /\ \A k \in 1 .. Len(p) - 1 : Len(p[k]) = 1 => <<p[k][1], p[k + 1][1]>> \notin {Opener, Closer}

(* What may stand between the quotes of a literal. *)
QuotedPart(q) ==
  {<<c>> : c \in Char \ {q, "\\"}} \cup {<<q, q>>}
    \cup (IF q = "'" THEN {<<"\\", c>> : c \in Char} ELSE {<<"\\">>})

(* A literal or a quoted identifier. *)
IsQuoted(p) ==
  /\ Len(p) > 1
  /\ \E q \in Quote : /\ p[1] = <<q>> /\ p[Len(p)] = <<q>>
                       /\ \A k \in 2 .. Len(p) - 1 : p[k] \in QuotedPart(q)

(* A dollar-quoted string: the tag, what is quoted, and the tag where it is first repeated. *)
IsDollar(p) ==
  /\ Len(p) = 3 /\ p[3] = p[1] /\ p[1] \in Seq(Char) /\ p[2] \in Seq(Char)
  /\ Len(p[1]) > 1 /\ p[1][1] = "$" /\ p[1][Len(p[1])] = "$"
  /\ \A k \in 2 .. Len(p[1]) - 1 : p[1][k] \in Letter
  /\ \A k \in 1 .. Len(p[2]) : SubSeq(p[2] \o p[1], k, k + Len(p[1]) - 1) # p[1]

IsLexeme(l) ==
  \/ l.kind = "word" /\ IsWord(l.parts)
  \/ l.kind = "space" /\ IsSpace(l.parts)
  \/ l.kind = "semicolon" /\ IsSemicolon(l.parts)
  \/ l.kind = "mark" /\ IsMark(l.parts)
  \/ l.kind = "line" /\ IsLine(l.parts)
  \/ l.kind = "block" /\ IsBlock(l.parts)
  \/ l.kind = "quoted" /\ IsQuoted(l.parts)
  \/ l.kind = "dollar" /\ IsDollar(l.parts)

ASSUME GuardAssumption ==
  MaxLexemes \in Nat /\ \A l \in Lexeme : l.parts \in Seq(Seq(Char)) /\ IsLexeme(l)

(* The text of a statement. *)
Render(lexemes) == Joined([n \in DOMAIN lexemes |-> Joined(lexemes[n].parts)])

(* The characters with which the next lexeme begins, so that it is not taken for part of l. *)
MayFollow(l, c) ==
  /\ l.kind = "word" => c \notin Letter \cup {"$"}
  /\ l.kind = "line" => c = "\n"
  /\ l.kind = "quoted" => c # l.parts[1][1]
  /\ l.kind = "mark" => <<l.parts[1][1], c>> \notin {<<"-", "-">>, <<"/", "*">>}

IsStatement(lexemes) ==
  \A n \in 1 .. Len(lexemes) - 1 : MayFollow(lexemes[n], Joined(lexemes[n + 1].parts)[1])

(* What counts as the content of a statement: neither a comment nor what separates. *)
Content == {"word", "mark", "quoted", "dollar"}

(* The reads: a read verb is the first word, no word is a write keyword, and no semicolon
   stands between two pieces of content. *)
IsRead(lexemes) ==
  /\ \E i \in DOMAIN lexemes :
       /\ lexemes[i].kind = "word" /\ lexemes[i].parts[1] \in readVerbs
       /\ \A j \in 1 .. i - 1 : lexemes[j].kind # "word"
  /\ \A i \in DOMAIN lexemes : lexemes[i].kind = "word" => lexemes[i].parts[1] \notin writeKeywords
  /\ \A i, j, k \in DOMAIN lexemes :
       i < j /\ j < k /\ lexemes[i].kind \in Content /\ lexemes[k].kind \in Content
         => lexemes[j].kind # "semicolon"

Statements == {s \in UNION {[1 .. n -> Lexeme] : n \in 0 .. MaxLexemes} : IsStatement(s)}

(* The scanner and the definition over lexemes agree on every statement that is tried. *)
ScanIsExact == \A lexemes \in Statements : ReadOnly(Render(lexemes)) = IsRead(lexemes)
=============================================================================
