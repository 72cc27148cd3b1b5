------------------------ MODULE MCPreparedConnection ------------------------
(***************************************************************************)
(* TLC instances of PreparedConnection.  The texts, the addresses and the  *)
(* ResultSet objects are interchangeable; the symmetry is used by the runs *)
(* without a liveness property only.                                       *)
(***************************************************************************)
EXTENDS PreparedConnection, TLC

Symmetry == Permutations(Sql) \cup Permutations(Stmt) \cup Permutations(Result)
=============================================================================
