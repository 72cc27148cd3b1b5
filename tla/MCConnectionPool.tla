-------------------------- MODULE MCConnectionPool --------------------------
(***************************************************************************)
(* TLC instances of ConnectionPool: symmetry, the pool of addresses and    *)
(* the bounds that the .cfg files share.                                   *)
(***************************************************************************)
EXTENDS ConnectionPool, TLC

\* Threads are interchangeable, and so are addresses.  Not for liveness.
Symmetry == Permutations(Client) \cup Permutations(Conn)
=============================================================================
