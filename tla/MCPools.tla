------------------------------ MODULE MCPools ------------------------------
(* The instance of Pools for TLC: two settings that differ in max_conns. *)
EXTENDS Pools

MCSetting == {<<"dsn", 1>>, <<"dsn", 2>>}
=============================================================================
