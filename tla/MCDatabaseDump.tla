--------------------------- MODULE MCDatabaseDump ---------------------------
(* Four tables: two that depend on each other and stay empty, and two that  *)
(* depend on them, the first on the second.                                 *)
EXTENDS DatabaseDump

MCKeys == {<<1, 2>>, <<2, 1>>, <<2, 3>>, <<3, 4>>, <<4, 3>>}
=============================================================================
