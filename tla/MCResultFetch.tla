---------------------------- MODULE MCResultFetch ----------------------------
(***************************************************************************)
(* TLC instances of ResultFetch: two columns, of which the first is        *)
(* declared one byte long and the second two; an int of two bits and a     *)
(* long long of three.                                                     *)
(***************************************************************************)
EXTENDS ResultFetch, TLC

MCDeclared == 1 :> 1 @@ 2 :> 2

SqlNull == Blank
Digits(len, num) == [null |-> FALSE, len |-> len, reads |-> "number", num |-> num]
Word(len) == [null |-> FALSE, len |-> len, reads |-> "junk", num |-> 0]
Cut(len, num) == [null |-> FALSE, len |-> len, reads |-> "prefix", num |-> num]

\* Rows that fit, and that are too long in one column or in both, by different
\* lengths; the least int, one beyond it, and one beyond long long.
MCRow == {<<Digits(1, 1), Digits(2, -2)>>, <<Digits(2, 2), SqlNull>>,
          <<Word(1), Digits(3, 5)>>, <<Digits(3, -3), Cut(3, 1)>>}

Symmetry == Permutations(Result) \cup Permutations(Stmt)
=============================================================================
