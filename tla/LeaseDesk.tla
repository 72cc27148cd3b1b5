------------------------------ MODULE LeaseDesk ------------------------------
(***************************************************************************)
(* What a connection pool promises, without queues, locks or time: a desk  *)
(* that lends things.  Each item does not exist, lies on the shelf, or is  *)
(* leased to one borrower; an item passes from one borrower to another     *)
(* over the shelf or because its holder hands it on.  The desk keeps at    *)
(* most Capacity items as long as all its orders have been delivered:      *)
(* after a failed delivery ConnectionPool miscounts (see pool.cpp:231), so *)
(* all that is promised then is the exclusive lease.                       *)
(***************************************************************************)
EXTENDS Naturals, FiniteSets

CONSTANTS
    Borrower, Item,
    Absent, Shelf,   \* two places that are no borrowers
    Capacity

VARIABLES
    lease,     \* where each item is
    promised   \* TRUE until a delivery fails

deskVars == <<lease, promised>>

At(place) == {i \in Item : lease[i] = place}
Present == Item \ At(Absent)
Room == promised => Cardinality(Present) < Capacity

DeskTypeOK ==
    /\ lease \in [Item -> {Absent, Shelf} \cup Borrower]
    /\ promised \in BOOLEAN

DeskInit ==
    /\ lease = [i \in Item |-> Absent]
    /\ promised = TRUE

\* All items of S go from one place to another.
Transfer(S, from, to) ==
    /\ S \subseteq At(from)
    /\ lease' = [i \in Item |-> IF i \in S THEN to ELSE lease[i]]
    /\ UNCHANGED promised

Stock(i) == Room /\ Transfer({i}, Absent, Shelf)
Order(i, b) == Room /\ Transfer({i}, Absent, b)
Lend(i, b) == Transfer({i}, Shelf, b)
Return(i, b) == Transfer({i}, b, Shelf)
Scrap(S) == Transfer(S, Shelf, Absent)
Discard(i, b) == Transfer({i}, b, Absent)
HandOn(i, b, c) == Transfer({i}, b, c)
DeliveryFails == promised' = FALSE /\ UNCHANGED lease

\* A step of the desk changes something (that TLC tests first: most steps of a
\* pool are none of the desk's).
DeskNext ==
    /\ deskVars' # deskVars
    /\ \/ \E i \in Item : Stock(i)
       \/ \E i \in Item, b \in Borrower :
             Order(i, b) \/ Lend(i, b) \/ Return(i, b) \/ Discard(i, b)
       \/ \E i \in Item, b, c \in Borrower : HandOn(i, b, c)
       \/ \E S \in SUBSET Item : Scrap(S)
       \/ DeliveryFails

DeskSpec == DeskInit /\ [][DeskNext]_deskVars
=============================================================================
