--------------------------- MODULE MCPreparedCall ---------------------------
(***************************************************************************)
(* TLC instances of PreparedCall.  The texts differ in the number of their *)
(* parameters; the argument lists fit some of them, and repeat a type so   *)
(* that a slot could be shared.                                            *)
(***************************************************************************)
EXTENDS PreparedCall, TLC

CONSTANTS q1, q2, q3, a, b

Num(v) == [form |-> "scalar", value |-> v]
Text(v) == [form |-> "copied", value |-> v]
Moved(v) == [form |-> "moved", value |-> v]
SqlNull == [form |-> "null", value |-> Null]

MCParams == [text \in Sql |-> CASE text = q1 -> 0 [] text = q2 -> 2 [] text = q3 -> 3]

MCArguments == {<<>>, <<Num(a), Num(b)>>, <<Text(a), SqlNull, Moved(b)>>}
=============================================================================
