----------------------------- MODULE MCResults -----------------------------
(* Model-checking instance of Results. *)
EXTENDS Results, FiniteSets

(* a, a, a_1 and the empty name are what makes column names collide. *)
Columns == UNION {[1 .. n -> {<<>>, <<1>>, <<1, 1>>, <<ColumnPlaceholder, 1>>}] : n \in {1, 3}}

Job(backend, format, columns, rows) ==
  [backend |-> backend, format |-> format, columns |-> columns, rows |-> rows]

(* ClickHouse with a committed batch and a tail; parquet with a value after the sample that
   does not fit, and with a sample of NULLs. *)
MCJobs ==
  {Job("fs", "csv", <<>>, <<"int", "nil">>),
   Job("s3", "jsonl", <<>>, <<"int">>),
   Job("clickhouse", "jsonl", <<>>, <<"int", "int", "int">>),
   Job("s3", "parquet", <<<<1>>>>, <<"nil", "int">>),
   Job("s3", "parquet", <<<<1>>>>, <<"int", "text">>)}
    \cup {Job("fs", "parquet", c, <<"int">>) : c \in Columns}
=============================================================================
