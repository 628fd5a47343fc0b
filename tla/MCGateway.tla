------------------------------ MODULE MCGateway ------------------------------
(***************************************************************************)
(* A subject with two tokens, an administrator and one caller address; one *)
(* record at a time; submissions that each stand out from an ordinary one  *)
(* in one respect.                                                         *)
(***************************************************************************)
EXTENDS Gateway

MCIdentity ==
  [reader |-> [subject |-> "alice", scopes |-> {"read"}],
   writer |-> [subject |-> "alice", scopes |-> {"write"}],
   root   |-> [subject |-> "ops", scopes |-> {"admin"}]]

MCCredential == DOMAIN MCIdentity

L(kind, parts) == [kind |-> kind, parts |-> parts]

ReadWord == L("word", <<<<"r">>>>)
WriteWord == L("word", <<<<"w">>>>)

(* Lexemes of every kind, with what would mislead a scanner inside them. *)
MCLexeme ==
  {ReadWord, WriteWord, L("word", <<<<"x", "$", "w">>>>), L("space", <<<<" ">>>>), L("space", <<<<"\n">>>>),
   L("semicolon", <<<<";">>>>), L("mark", <<<<"-">>>>), L("mark", <<<<"/">>>>),
   L("line", <<<<"-", "-">>, <<"w", "'">>>>), L("line", <<<<"#">>, <<"w", ";">>>>),
   L("block", <<Opener, <<"w">>, Opener, <<"'">>, Closer, <<"w">>, Closer>>),
   L("quoted", <<<<"'">>, <<"w">>, <<"'", "'">>, <<"\\", "'">>, <<";">>, <<"'">>>>),
   L("quoted", <<<<"\"">>, <<"w">>, <<"\\">>, <<"\"">>>>),
   L("dollar", <<<<"$", "x", "$">>, <<"w", "$", "$", ";">>, <<"$", "x", "$">>>>),
   L("dollar", <<<<"$", "$">>, <<"'", "w">>, <<"$", "$">>>>)}

Ordinary ==
  [db |-> "d1", sql |-> <<ReadWord>>, mode |-> "", format |-> "", backend |-> "", ttl |-> 1, key |-> "k"]

(* 8 seconds do not fit MaxInt = 31 at 4 units a second, and wrap to a negative Duration;
   16 wrap to 0. *)
MCSubmission ==
  {Ordinary} \cup {[Ordinary EXCEPT !.key = NoKey, !.ttl = ttl] : ttl \in {0, 8, 16}}
    \cup {[Ordinary EXCEPT !.db = db] : db \in {"missing", ""}}
    \cup {[Ordinary EXCEPT !.sql = sql] : sql \in {<<>>, <<WriteWord>>}}
    \cup {[Ordinary EXCEPT !.mode = "later"], [Ordinary EXCEPT !.backend = "nowhere"],
          [Ordinary EXCEPT !.backend = "clickhouse", !.format = "parquet"]}

(* Small numbers and the two ends of an integer. *)
MCNumber == (-1 .. 4) \cup {MaxInt, -(MaxInt + 1)}
=============================================================================
