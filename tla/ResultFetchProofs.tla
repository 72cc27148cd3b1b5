-------------------------- MODULE ResultFetchProofs --------------------------
(***************************************************************************)
(* What a ResultSet guarantees for any number of objects, handles, columns *)
(* and rows of any lengths.                                                *)
(***************************************************************************)
EXTENDS ResultFetch, TLAPS

USE RowAssumption, ColumnsAssumption, NoneAssumption, BoundsAssumption
    DEF RowAssumption, ColumnsAssumption, NoneAssumption, BoundsAssumption

-----------------------------------------------------------------------------
(* Columns                                                                 *)

LEMMA LeastOf ==
  ASSUME NEW m \in Nat, NEW n \in Nat
  PROVE  /\ Least(m, n) \in Nat /\ Least(m, n) <= m /\ Least(m, n) <= n
         /\ m <= n => Least(m, n) = m
  BY DEF Least

LEMMA FreshTyped ==
  ASSUME NEW n \in Nat
  PROVE  Fresh(n) \in Column /\ Fresh(n).size = n
  BY DEF Fresh, Column, Blank, Cell

\* A cell in a column: the size of the buffer stays, the content follows.
LEMMA WrittenTyped ==
  ASSUME NEW col \in Column, NEW cell \in Cell, NEW size \in Nat
  PROVE  /\ Written(col, cell, size) \in Column
         /\ Written(col, cell, size).size = col.size
         /\ Written(col, cell, size).null = cell.null
         /\ ~cell.null => /\ Written(col, cell, size).len = cell.len
                          /\ Written(col, cell, size).cell = cell
                          /\ Written(col, cell, size).kept = Least(cell.len, size)
<1>1. cell.len \in Nat /\ cell.null \in BOOLEAN /\ (cell.len > size) \in BOOLEAN
  BY DEF Cell
<1>2. CASE cell.null
  BY <1>1, <1>2 DEF Written, Column
<1>3. CASE ~cell.null
  BY <1>1, <1>3, LeastOf DEF Written, Column
<1>4. QED
  BY <1>1, <1>2, <1>3

LEMMA WrittenCut ==
  ASSUME NEW col \in Column, NEW cell \in Cell, NEW size \in Nat
  PROVE  IF ~cell.null /\ cell.len > size THEN Written(col, cell, size).err = TRUE
                                          ELSE Written(col, cell, size).err = FALSE
<1>1. (cell.len > size) \in BOOLEAN
  OBVIOUS
<1>2. QED
  BY <1>1 DEF Written, Column

LEMMA TerminatedTyped ==
  ASSUME NEW col \in Column
  PROVE  /\ Terminated(col) \in Column
         /\ Terminated(col).size = col.size /\ Terminated(col).null = col.null
         /\ Terminated(col).len = col.len /\ Terminated(col).cell = col.cell
         /\ Terminated(col).kept = col.kept
         /\ ~col.null => Terminated(col).nul = Least(col.len, col.size)
<1>1. Least(col.len, col.size) \in Nat
  BY LeastOf DEF Column
<1>2. QED
  BY <1>1 DEF Terminated, Column

LEMMA EnlargedTyped ==
  ASSUME NEW col \in Column, NEW cell \in Cell
  PROVE  /\ Enlarged(col, cell) \in Column
         /\ Enlarged(col, cell).size = col.len
         /\ Enlarged(col, cell).null = cell.null
         /\ ~cell.null => /\ Enlarged(col, cell).len = cell.len
                          /\ Enlarged(col, cell).cell = cell
                          /\ Enlarged(col, cell).kept = Least(cell.len, col.len)
<1>1. col.len \in Nat
  BY DEF Column
<1>2. Fresh(col.len) \in Column /\ Fresh(col.len).size = col.len
  BY <1>1, FreshTyped
<1> DEFINE w == Written(Fresh(col.len), cell, col.len)
<1>3. /\ w \in Column /\ w.size = col.len /\ w.null = cell.null
      /\ ~cell.null => w.len = cell.len /\ w.cell = cell /\ w.kept = Least(cell.len, col.len)
  BY <1>1, <1>2, WrittenTyped
<1> HIDE DEF w
<1>4. Enlarged(col, cell) = [w EXCEPT !.err = FALSE]
  BY DEF Enlarged, w
<1>5. QED
  BY <1>3, <1>4 DEF Column

LEMMA EmptiedTyped ==
  ASSUME NEW col \in Column
  PROVE  Emptied(col) \in Column
<1>1. col.len \in Nat
  BY DEF Column
<1>2. Fresh(col.len) \in Column
  BY <1>1, FreshTyped
<1>3. QED
  BY <1>1, <1>2 DEF Emptied, Column

LEMMA BoundTyped ==
  ASSUME NEW r \in Result, NEW cols \in [Columns -> Column]
  PROVE  /\ Bound(r, cols) \in [of : Result \cup {None}, size : [Columns -> Nat]]
         /\ NoTarget \in [of : Result \cup {None}, size : [Columns -> Nat]]
         /\ NoTarget.of = None
<1>1. \A i \in Columns : cols[i].size \in Nat
  BY DEF Column
<1>2. QED
  BY <1>1 DEF Bound, NoTarget, Dangling

-----------------------------------------------------------------------------
(* The invariant                                                           *)

Target == [of : Result \cup {None}, size : [Columns -> Nat]]

RowOK(x) ==
    x.kind = "stmt" /\ x.hasRow /\ x.sole /\ ~x.threw =>
       \A i \in Columns :
          /\ x.cols[i].null = x.row[i].null
          /\ ~x.row[i].null => /\ x.cols[i].cell = x.row[i]
                               /\ x.cols[i].len = x.row[i].len
                               /\ x.cols[i].kept = x.cols[i].len
                               /\ x.cols[i].nul = x.cols[i].len
                               /\ x.cols[i].len <= x.cols[i].size

\* One object by itself.  An object that was moved from, or that has answered
\* false for a text result, has no more rows and will not have a current one.
ObjectOK(x) ==
    /\ x \in ResultSet
    /\ x.kind = "stmt" => x.stmt \in Stmt
    /\ x.hasRow => x.kind \in {"stmt", "text", "lost"} /\ ~x.ended
    /\ x.kind = "moved" \/ (x.kind = "text" /\ x.ended) => x.rows = 0
    /\ RowOK(x)

ObjectsOK == rs = [r \in Result |-> rs[r]] /\ \A r \in Result : ObjectOK(rs[r])

LibraryOK ==
    /\ open \subseteq Stmt /\ stored \subseteq open
    /\ left \in [Stmt -> Nat]
    /\ target \in [Stmt -> Target]
    /\ owner \in [Stmt -> Result \cup {None}]

\* Of two objects with one handle neither believes itself alone.
SoleInv ==
    \A r, q \in Result, s \in Stmt : r # q /\ Uses(r, s) /\ Uses(q, s) => ~rs[r].sole

\* A handle with one object is bound to that object, as its buffers are, or to
\* nothing.
SlotOK(x, t, r) ==
    x.sole => /\ t.of = None \/ t.of = r
              /\ ~x.threw /\ t.of = r => t = Bound(r, x.cols)
TargetInv == \A r \in Result, s \in Stmt : Uses(r, s) => SlotOK(rs[r], target[s], r)

\* Stored rows of an object that is alone with their handle are bound to it, and
\* it has not answered for them.
OwnerOK(r, s) ==
    /\ Uses(r, s)
    /\ rs[r].sole => target[s].of = r /\ s \in stored /\ (rs[r].ended => left[s] = 0)
OwnerInv == \A s \in Stmt : owner[s] # None => OwnerOK(owner[s], s)

FetchInv == ObjectsOK /\ LibraryOK /\ SoleInv /\ TargetInv /\ OwnerInv

LEMMA InvTyped == FetchInv => FetchTypeOK
  BY DEF FetchInv, ObjectsOK, LibraryOK, FetchTypeOK, ObjectOK, Target

LEMMA InvRow == FetchInv => RowIsCurrent
  BY DEF FetchInv, ObjectsOK, ObjectOK, RowOK, RowIsCurrent

LEMMA InvReach == FetchInv => RowsReachTheirOwner
<1> SUFFICES ASSUME FetchInv, NEW s \in Stmt, owner[s] # None
             PROVE  /\ Uses(owner[s], s)
                    /\ rs[owner[s]].sole /\ ~rs[owner[s]].threw =>
                          target[s] = Bound(owner[s], rs[owner[s]].cols)
  BY DEF RowsReachTheirOwner
<1>1. owner[s] \in Result /\ OwnerOK(owner[s], s)
  BY DEF FetchInv, OwnerInv, LibraryOK
<1>2. SlotOK(rs[owner[s]], target[s], owner[s])
  BY <1>1 DEF FetchInv, TargetInv, OwnerOK
<1>3. QED
  BY <1>1, <1>2 DEF OwnerOK, SlotOK

LEMMA InvEnd == FetchInv => EndMeansEnd
  BY DEF FetchInv, OwnerInv, OwnerOK, EndMeansEnd

-----------------------------------------------------------------------------
(* The first state                                                         *)

LEMMA NoResultOK ==
  /\ NoResult \in ResultSet
  /\ NoResult.kind = "none" /\ ~NoResult.hasRow /\ NoResult.rows = 0
  /\ ~NoResult.ended /\ ~NoResult.sole
  /\ MovedFrom = [NoResult EXCEPT !.kind = "moved"]
<1>1. \A i \in Columns : Fresh(Declared[i]) \in Column
  BY FreshTyped
<1>2. Blank \in Cell
  BY DEF Blank, Cell
<1>3. [i \in Columns |-> Fresh(Declared[i])] \in [Columns -> Column]
  BY <1>1
<1>4. QED
  BY <1>2, <1>3 DEF NoResult, ResultSet, Kind, MovedFrom

LEMMA InitFetch == FetchInit => FetchInv
<1> SUFFICES ASSUME FetchInit PROVE FetchInv
  OBVIOUS
<1>1. ObjectsOK
  BY NoResultOK DEF FetchInit, ObjectsOK, ObjectOK, RowOK
<1>2. LibraryOK
  BY DEF FetchInit, LibraryOK, NoTarget, Target, Dangling
<1>3. \A r \in Result, s \in Stmt : ~Uses(r, s)
  BY NoResultOK DEF FetchInit, Uses
<1>4. QED
  BY <1>1, <1>2, <1>3 DEF FetchInv, FetchInit, SoleInv, TargetInv, OwnerInv

-----------------------------------------------------------------------------
(* The connection and its handles                                          *)

\* What the object of a new result is, and that losing `sole' harms nobody.
LEMMA NewObjects ==
  /\ \A s \in Stmt, b \in BOOLEAN :
        ObjectOK([NoResult EXCEPT !.kind = "stmt", !.stmt = s, !.sole = b])
  /\ \A n \in Nat : ObjectOK([NoResult EXCEPT !.kind = "text", !.rows = n])
  /\ ObjectOK(NoResult) /\ ObjectOK(MovedFrom)
  /\ \A x : ObjectOK(x) => \A b \in BOOLEAN : ObjectOK([x EXCEPT !.sole = x.sole /\ b])
<1>1. ASSUME NEW s \in Stmt, NEW b \in BOOLEAN
      PROVE  ObjectOK([NoResult EXCEPT !.kind = "stmt", !.stmt = s, !.sole = b])
  <2> DEFINE x == [NoResult EXCEPT !.kind = "stmt", !.stmt = s, !.sole = b]
  <2>1. x \in ResultSet
    BY NoResultOK DEF ResultSet, Kind
  <2>2. x.kind = "stmt" /\ x.stmt = s /\ ~x.hasRow
    BY NoResultOK DEF ResultSet
  <2> HIDE DEF x
  <2>3. ObjectOK(x)
    BY <2>1, <2>2 DEF ObjectOK, RowOK
  <2>4. QED
    BY <2>3 DEF x
<1>2. \A n \in Nat : ObjectOK([NoResult EXCEPT !.kind = "text", !.rows = n])
  BY NoResultOK DEF ObjectOK, RowOK, ResultSet, Kind
<1>3. ObjectOK(NoResult) /\ ObjectOK(MovedFrom)
  BY NoResultOK DEF ObjectOK, RowOK, ResultSet, Kind
<1>4. ASSUME NEW x, ObjectOK(x), NEW b \in BOOLEAN
      PROVE  ObjectOK([x EXCEPT !.sole = x.sole /\ b])
  <2>1. CASE b
    <3>1. x \in ResultSet
      BY <1>4 DEF ObjectOK
    <3>2. [x EXCEPT !.sole = x.sole /\ b] = x
      BY <2>1, <3>1 DEF ResultSet
    <3>3. QED
      BY <1>4, <3>2
  <2>2. CASE ~b
    <3>1. x \in ResultSet
      BY <1>4 DEF ObjectOK
    <3>2. [x EXCEPT !.sole = x.sole /\ b] = [x EXCEPT !.sole = FALSE]
      BY <2>2
    <3>3. QED
      BY <1>4, <3>1, <3>2 DEF ObjectOK, RowOK, ResultSet
  <2>3. QED
    BY <2>1, <2>2
<1>5. QED
  BY <1>1, <1>2, <1>3, <1>4

LEMMA KeepQuery ==
  ASSUME FetchInv, NEW s \in Stmt, NEW r \in Result, NEW n \in 0 .. MaxRows, Query(s, r, n)
  PROVE  FetchInv'
<1> DEFINE b == \A p \in Result : ~Uses(p, s)
<1>1. /\ b \in BOOLEAN
      /\ \A q \in Result : Uses(q, s) \in BOOLEAN
      /\ rs[r].kind = "none" /\ NoResult.cols \in [Columns -> Column]
  BY NoResultOK DEF Query, Uses, ResultSet
<1>2. /\ rs'[r] = [NoResult EXCEPT !.kind = "stmt", !.stmt = s, !.sole = b]
      /\ \A q \in Result : q # r => rs'[q] = [rs[q] EXCEPT !.sole = rs[q].sole /\ ~Uses(q, s)]
      /\ rs' = [q \in Result |-> rs'[q]]
  BY DEF Query
<1> HIDE DEF b
<1>3. ObjectsOK'
  <2>1. ObjectOK([NoResult EXCEPT !.kind = "stmt", !.stmt = s, !.sole = b])
    BY <1>1, NewObjects, Zenon
  <2>1a. ObjectOK(rs'[r])
    BY <2>1, <1>2
  <2>2. \A q \in Result : q # r => ObjectOK(rs'[q])
    <3> TAKE q \in Result
    <3>1. ObjectOK(rs[q]) /\ (~Uses(q, s)) \in BOOLEAN
      BY DEF FetchInv, ObjectsOK
    <3>2. ObjectOK([rs[q] EXCEPT !.sole = rs[q].sole /\ ~Uses(q, s)])
      BY <3>1, NewObjects
    <3>3. QED
      BY <3>2, <1>2
  <2>3. QED
    BY <2>1a, <2>2, <1>2 DEF ObjectsOK
<1>4. LibraryOK'
  <2>1. Bound(r, NoResult.cols) \in Target
    BY <1>1, BoundTyped DEF Target
  <2>2. n \in Nat /\ open \cup {s} \subseteq Stmt
    BY DEF FetchInv, LibraryOK
  <2>3. target' \in [Stmt -> Target] /\ left' \in [Stmt -> Nat] /\ owner' \in [Stmt -> Result \cup {None}]
    BY <2>1, <2>2 DEF FetchInv, LibraryOK, Query
  <2>4. open' \subseteq Stmt /\ stored' \subseteq open'
    BY <2>2 DEF FetchInv, LibraryOK, Query
  <2>5. QED
    BY <2>3, <2>4 DEF LibraryOK
<1>5. /\ rs'[r].kind = "stmt" /\ rs'[r].stmt = s /\ rs'[r].cols = NoResult.cols
      /\ rs'[r].sole = b /\ ~rs'[r].ended
      /\ \A q \in Result : q # r =>
            /\ rs'[q].kind = rs[q].kind /\ rs'[q].stmt = rs[q].stmt /\ rs'[q].cols = rs[q].cols
            /\ rs'[q].ended = rs[q].ended /\ rs'[q].threw = rs[q].threw
            /\ rs'[q].sole = (rs[q].sole /\ ~Uses(q, s))
  <2>1. NoResult \in ResultSet /\ \A q \in Result : rs[q] \in ResultSet
    BY NoResultOK DEF FetchInv, ObjectsOK, ObjectOK
  <2>2. QED
    BY <2>1, <1>2, NoResultOK DEF ResultSet
<1>6. /\ Uses(r, s)' /\ \A z \in Stmt : z # s => ~Uses(r, z)'
      /\ \A q \in Result, z \in Stmt : q # r => (Uses(q, z)' <=> Uses(q, z))
  BY <1>5 DEF Uses
<1>7. /\ target'[s] = Bound(r, NoResult.cols) /\ owner'[s] = r /\ s \in stored'
      /\ \A z \in Stmt : z # s => /\ target'[z] = target[z] /\ owner'[z] = owner[z]
                                  /\ left'[z] = left[z] /\ (z \in stored' <=> z \in stored)
  BY DEF FetchInv, LibraryOK, Query
<1>8. SoleInv'
  <2> SUFFICES ASSUME NEW p \in Result, NEW q \in Result, NEW z \in Stmt,
                      p # q, Uses(p, z)', Uses(q, z)'
               PROVE  ~rs'[p].sole
    BY DEF SoleInv
  <2>1. CASE p = r
    BY <2>1, <1>5, <1>6 DEF b
  <2>2. CASE q = r
    <3>1. z = s /\ Uses(p, s)
      BY <2>2, <1>6
    <3>2. QED
      BY <3>1, <2>2, <1>5
  <2>3. CASE p # r /\ q # r
    BY <2>3, <1>5, <1>6 DEF FetchInv, SoleInv
  <2>4. QED
    BY <2>1, <2>2, <2>3
<1>9. TargetInv'
  <2> SUFFICES ASSUME NEW p \in Result, NEW z \in Stmt, Uses(p, z)'
               PROVE  SlotOK(rs'[p], target'[z], p)
    BY DEF TargetInv
  <2>1. CASE p = r
    BY <2>1, <1>5, <1>6, <1>7 DEF SlotOK, Bound
  <2>2. CASE p # r /\ z = s
    BY <2>2, <1>5, <1>6 DEF SlotOK
  <2>3. CASE p # r /\ z # s
    <3>1. SlotOK(rs[p], target[z], p)
      BY <2>3, <1>6 DEF FetchInv, TargetInv
    <3>2. QED
      BY <3>1, <2>3, <1>5, <1>7 DEF SlotOK
  <2>4. QED
    BY <2>1, <2>2, <2>3
<1>10. OwnerInv'
  <2> SUFFICES ASSUME NEW z \in Stmt, owner'[z] # None
               PROVE  OwnerOK(owner[z], z)'
    BY DEF OwnerInv
  <2>1. CASE z = s
    BY <2>1, <1>5, <1>6, <1>7 DEF OwnerOK, Bound
  <2>2. CASE z # s
    <3>1. owner'[z] = owner[z] /\ OwnerOK(owner[z], z) /\ owner[z] \in Result
      BY <2>2, <1>7 DEF FetchInv, OwnerInv, LibraryOK
    <3>2. owner[z] # r
      BY <3>1, <1>1 DEF OwnerOK, Uses
    <3>3. QED
      BY <3>1, <3>2, <2>2, <1>5, <1>6, <1>7 DEF OwnerOK
  <2>3. QED
    BY <2>1, <2>2
<1>11. QED
  BY <1>3, <1>4, <1>8, <1>9, <1>10 DEF FetchInv

\* The actions that leave every object as it is.
LEMMA KeepHandles ==
  ASSUME FetchInv, NEW s \in Stmt, NEW n \in 0 .. MaxRows, QueryFails(s, n) \/ CloseHandle(s)
  PROVE  FetchInv'
<1>1. /\ rs' = rs /\ owner'[s] = None
      /\ \A z \in Stmt : z # s => /\ target'[z] = target[z] /\ owner'[z] = owner[z]
                                  /\ left'[z] = left[z] /\ (z \in stored' <=> z \in stored)
      /\ target'[s] = target[s] \/ target'[s] = NoTarget
  <2>1. CASE QueryFails(s, n)
    BY <2>1 DEF FetchInv, LibraryOK, QueryFails
  <2>2. CASE CloseHandle(s)
    BY <2>2 DEF FetchInv, LibraryOK, CloseHandle
  <2>3. QED
    BY <2>1, <2>2
<1>2. NoTarget \in Target /\ NoTarget.of = None
  BY DEF NoTarget, Target, Dangling
<1>3. LibraryOK'
  <2>1. CASE QueryFails(s, n)
    BY <2>1 DEF FetchInv, LibraryOK, QueryFails
  <2>2. CASE CloseHandle(s)
    BY <2>2, <1>2 DEF FetchInv, LibraryOK, CloseHandle
  <2>3. QED
    BY <2>1, <2>2
<1>4. ObjectsOK' /\ SoleInv'
  BY <1>1 DEF FetchInv, ObjectsOK, SoleInv, Uses
<1>5. TargetInv'
  <2> SUFFICES ASSUME NEW p \in Result, NEW z \in Stmt, Uses(p, z)'
               PROVE  SlotOK(rs[p], target'[z], p)
    BY <1>1 DEF TargetInv
  <2>1. SlotOK(rs[p], target[z], p)
    BY <1>1 DEF FetchInv, TargetInv, Uses
  <2>2. CASE target'[z] = target[z]
    BY <2>1, <2>2
  <2>3. CASE target'[z] = NoTarget
    BY <2>3, <1>2 DEF SlotOK
  <2>4. QED
    BY <2>2, <2>3, <1>1
<1>6. OwnerInv'
  BY <1>1 DEF FetchInv, OwnerInv, OwnerOK, Uses
<1>7. QED
  BY <1>3, <1>4, <1>5, <1>6 DEF FetchInv

\* An object changes, and goes on with its handle and its buffers or gives up
\* both; the binds stay and no rows are added.
LEMMA OneObject ==
  ASSUME FetchInv, NEW r \in Result, NEW x, ObjectOK(x),
         rs' = [rs EXCEPT ![r] = x],
         x.kind = "stmt" => /\ rs[r].kind = "stmt" /\ x.stmt = rs[r].stmt
                            /\ x.sole = rs[r].sole /\ x.cols = rs[r].cols
                            /\ rs[r].threw => x.threw,
         open' = open, stored' = stored, target' = target,
         left' \in [Stmt -> Nat], \A s \in Stmt : left'[s] <= left[s],
         owner' \in [Stmt -> Result \cup {None}],
         \A s \in Stmt : owner'[s] = owner[s] \/ owner'[s] = None,
         \A s \in Stmt : owner[s] = r /\ owner'[s] = r =>
            x.kind = "stmt" /\ (x.sole /\ x.ended => left'[s] = 0)
  PROVE  FetchInv'
<1>1. /\ rs'[r] = x /\ \A q \in Result : q # r => rs'[q] = rs[q]
      /\ rs' = [q \in Result |-> rs'[q]]
  BY DEF FetchInv, ObjectsOK
<1>2. ObjectsOK'
  BY <1>1 DEF FetchInv, ObjectsOK
<1>3. LibraryOK'
  BY DEF FetchInv, LibraryOK
<1>4. \A q \in Result, s \in Stmt :
         Uses(q, s)' => Uses(q, s) /\ rs'[q].sole = rs[q].sole /\ rs'[q].cols = rs[q].cols
                        /\ (rs[q].threw => rs'[q].threw)
  BY <1>1 DEF Uses
<1>5. SoleInv'
  BY <1>4 DEF FetchInv, SoleInv
<1>6. TargetInv'
  <2> SUFFICES ASSUME NEW q \in Result, NEW s \in Stmt, Uses(q, s)'
               PROVE  SlotOK(rs'[q], target[s], q)
    BY DEF TargetInv
  <2>1. SlotOK(rs[q], target[s], q)
    BY <1>4 DEF FetchInv, TargetInv
  <2>2. QED
    BY <2>1, <1>4 DEF SlotOK
<1>7. OwnerInv'
  <2> SUFFICES ASSUME NEW s \in Stmt, owner'[s] # None
               PROVE  OwnerOK(owner[s], s)'
    BY DEF OwnerInv
  <2>1. /\ owner'[s] = owner[s] /\ owner[s] \in Result /\ OwnerOK(owner[s], s)
        /\ left'[s] \in Nat /\ left[s] \in Nat /\ left'[s] <= left[s]
    BY DEF FetchInv, LibraryOK, OwnerInv
  <2>2. CASE owner[s] = r
    <3>1. x.kind = "stmt" /\ x.sole = rs[r].sole /\ (x.sole /\ x.ended => left'[s] = 0)
      BY <2>1, <2>2
    <3>2. QED
      BY <3>1, <2>1, <2>2, <1>1 DEF OwnerOK, Uses
  <2>3. CASE owner[s] # r
    <3>1. rs'[owner[s]] = rs[owner[s]]
      BY <2>1, <2>3, <1>1
    <3>2. QED
      BY <3>1, <2>1 DEF OwnerOK, Uses
  <2>4. QED
    BY <2>2, <2>3
<1>8. QED
  BY <1>2, <1>3, <1>5, <1>6, <1>7 DEF FetchInv

\* What Advance() and leaving the library alone have in common.
LEMMA LibraryKept ==
  ASSUME FetchInv
  PROVE  /\ UNCHANGED <<left, owner>> =>
               /\ left' \in [Stmt -> Nat] /\ \A s \in Stmt : left'[s] <= left[s]
               /\ owner' \in [Stmt -> Result \cup {None}]
         /\ \A s \in Stmt : s \in stored /\ left[s] > 0 /\ Advance(s) =>
               /\ left' \in [Stmt -> Nat] /\ \A z \in Stmt : left'[z] <= left[z]
               /\ left'[s] = left[s] - 1 /\ \A z \in Stmt : z # s => left'[z] = left[z]
               /\ owner' \in [Stmt -> Result \cup {None}]
               /\ open' = open /\ stored' = stored /\ owner' = owner
<1>1. left \in [Stmt -> Nat] /\ owner \in [Stmt -> Result \cup {None}]
  BY DEF FetchInv, LibraryOK
<1>2. \A s \in Stmt : left[s] \in Nat
  BY <1>1
<1>3. UNCHANGED <<left, owner>> => /\ left' \in [Stmt -> Nat] /\ \A s \in Stmt : left'[s] <= left[s]
                                   /\ owner' \in [Stmt -> Result \cup {None}]
  BY <1>1, <1>2
<1>4. ASSUME NEW s \in Stmt, left[s] > 0, Advance(s)
      PROVE  /\ left' \in [Stmt -> Nat] /\ \A z \in Stmt : left'[z] <= left[z]
             /\ left'[s] = left[s] - 1 /\ \A z \in Stmt : z # s => left'[z] = left[z]
             /\ owner' \in [Stmt -> Result \cup {None}]
             /\ open' = open /\ stored' = stored /\ owner' = owner
  <2>1. left[s] - 1 \in Nat
    BY <1>2, <1>4
  <2>2. QED
    BY <2>1, <1>1, <1>2, <1>4 DEF Advance
<1>5. QED
  BY <1>3, <1>4

LEMMA NotOwned ==
  ASSUME FetchInv, NEW r \in Result, NEW s \in Stmt, owner[s] = r
  PROVE  /\ rs[r].kind = "stmt" /\ rs[r].stmt = s
         /\ rs[r].sole => s \in stored /\ (rs[r].ended => left[s] = 0)
<1>1. r # None
  OBVIOUS
<1>2. QED
  BY <1>1 DEF FetchInv, OwnerInv, OwnerOK, Uses

LEMMA KeepTextQuery ==
  ASSUME FetchInv, NEW r \in Result, NEW n \in 0 .. MaxRows, TextQuery(r, n)
  PROVE  FetchInv'
<1> DEFINE x == [NoResult EXCEPT !.kind = "text", !.rows = n]
<1>1. ObjectOK(x)
  <2>1. n \in Nat
    OBVIOUS
  <2>2. QED
    BY <2>1, NewObjects
<1>1a. x.kind = "text"
  BY NoResultOK DEF ResultSet
<1>2. rs[r].kind = "none" /\ rs' = [rs EXCEPT ![r] = x]
  BY DEF TextQuery
<1> HIDE DEF x
<1>3. \A s \in Stmt : owner[s] # r
  BY <1>2, NotOwned
<1>4. UNCHANGED <<open, stored, left, target, owner>>
  BY DEF TextQuery
<1>5. QED
  BY <1>1, <1>1a, <1>2, <1>3, <1>4, LibraryKept, OneObject

LEMMA KeepEnds ==
  ASSUME FetchInv, NEW r \in Result, NextEnds(r)
  PROVE  FetchInv'
<1> DEFINE x == [rs[r] EXCEPT !.hasRow = FALSE, !.ended = TRUE]
<1>1. ObjectOK(rs[r]) /\ rs[r] \in ResultSet /\ rs[r].kind = "stmt"
  BY DEF FetchInv, ObjectsOK, ObjectOK, NextEnds
<1>2. /\ x \in ResultSet /\ ~x.hasRow /\ x.kind = "stmt" /\ x.stmt = rs[r].stmt
      /\ x.sole = rs[r].sole /\ x.cols = rs[r].cols /\ x.threw = rs[r].threw
  BY <1>1 DEF ResultSet
<1>3. rs' = [rs EXCEPT ![r] = x]
  BY DEF NextEnds, Answered, FetchInv, ObjectsOK
<1> HIDE DEF x
<1>4. ObjectOK(x)
  BY <1>1, <1>2 DEF ObjectOK, RowOK
<1>5. UNCHANGED <<open, stored, left, target, owner>> /\ ~Available(r)
  BY DEF NextEnds
<1>6. ASSUME NEW s \in Stmt, owner[s] = r, rs[r].sole
      PROVE  left'[s] = 0
  <2>1. rs[r].stmt = s /\ s \in stored /\ left[s] \in Nat
    BY <1>6, NotOwned DEF FetchInv, LibraryOK
  <2>2. QED
    BY <2>1, <1>1, <1>5 DEF Available
<1>7. /\ left' \in [Stmt -> Nat] /\ \A s \in Stmt : left'[s] <= left[s]
      /\ owner' \in [Stmt -> Result \cup {None}] /\ \A s \in Stmt : owner'[s] = owner[s]
  BY <1>5, LibraryKept
<1>8. \A s \in Stmt : owner[s] = r /\ owner'[s] = r =>
         x.kind = "stmt" /\ (x.sole /\ x.ended => left'[s] = 0)
  BY <1>2, <1>6
<1>9. QED
  BY <1>1, <1>2, <1>3, <1>4, <1>5, <1>7, <1>8, OneObject

LEMMA KeepUndefined ==
  ASSUME FetchInv, NEW r \in Result, NextIsUndefined(r)
  PROVE  FetchInv'
<1> DEFINE x == [rs[r] EXCEPT !.kind = "lost"]
<1>1. ObjectOK(rs[r]) /\ rs[r] \in ResultSet
  BY DEF FetchInv, ObjectsOK, ObjectOK
<1>2. /\ x \in ResultSet /\ x.kind = "lost"
      /\ x.hasRow = rs[r].hasRow /\ x.ended = rs[r].ended
  BY <1>1 DEF ResultSet, Kind
<1>3. rs' = [rs EXCEPT ![r] = x]
  BY DEF NextIsUndefined, FetchInv, ObjectsOK
<1> HIDE DEF x
<1>4. ObjectOK(x)
  BY <1>1, <1>2 DEF ObjectOK, RowOK
<1>5. /\ UNCHANGED <<open, stored, left, target>>
      /\ owner' = [s \in Stmt |-> IF owner[s] = r THEN None ELSE owner[s]]
  BY DEF NextIsUndefined
<1>6. /\ owner' \in [Stmt -> Result \cup {None}]
      /\ \A s \in Stmt : owner'[s] # r /\ (owner'[s] = owner[s] \/ owner'[s] = None)
  BY <1>5 DEF FetchInv, LibraryOK
<1>7. left' \in [Stmt -> Nat] /\ \A s \in Stmt : left'[s] <= left[s]
  BY <1>5 DEF FetchInv, LibraryOK
<1>8. QED
  BY <1>2, <1>3, <1>4, <1>5, <1>6, <1>7, OneObject

LEMMA KeepShared ==
  ASSUME FetchInv, NEW r \in Result, NextOfShared(r)
  PROVE  FetchInv'
<1>1. /\ ObjectOK(rs[r]) /\ rs[r] \in ResultSet /\ rs[r].kind = "stmt" /\ rs[r].stmt \in Stmt
      /\ rs[r].stmt \in stored /\ left[rs[r].stmt] > 0 /\ ~rs[r].sole
      /\ Advance(rs[r].stmt) /\ target' = target
  BY DEF FetchInv, ObjectsOK, ObjectOK, NextOfShared, Available
<1>2. /\ left' \in [Stmt -> Nat] /\ \A z \in Stmt : left'[z] <= left[z]
      /\ owner' \in [Stmt -> Result \cup {None}]
      /\ open' = open /\ stored' = stored /\ owner' = owner
  BY <1>1, LibraryKept
<1>4. PICK x \in {[rs[r] EXCEPT !.hasRow = TRUE, !.ended = FALSE], [rs[r] EXCEPT !.threw = TRUE]} :
         rs' = [rs EXCEPT ![r] = x]
  BY DEF NextOfShared, FetchInv, ObjectsOK
<1>5. /\ x \in ResultSet /\ x.kind = "stmt" /\ x.stmt = rs[r].stmt
      /\ x.sole = rs[r].sole /\ x.cols = rs[r].cols
      /\ rs[r].threw => x.threw
      /\ x.hasRow => ~x.ended
      /\ ~x.sole
  <2>1. CASE x = [rs[r] EXCEPT !.hasRow = TRUE, !.ended = FALSE]
    BY <2>1, <1>1 DEF ResultSet
  <2>2. CASE x = [rs[r] EXCEPT !.threw = TRUE]
    BY <2>2, <1>1 DEF ResultSet, ObjectOK
  <2>3. QED
    BY <2>1, <2>2, <1>4
<1>6. ObjectOK(x)
  BY <1>1, <1>5 DEF ObjectOK, RowOK
<1>8. rs' = [rs EXCEPT ![r] = x]
  BY <1>4
<1>9. \A s \in Stmt : owner[s] = r /\ owner'[s] = r =>
         x.kind = "stmt" /\ (x.sole /\ x.ended => left'[s] = 0)
  BY <1>5
<1>10. x.kind = "stmt" => /\ rs[r].kind = "stmt" /\ x.stmt = rs[r].stmt
                          /\ x.sole = rs[r].sole /\ x.cols = rs[r].cols
                          /\ rs[r].threw => x.threw
  BY <1>1, <1>5
<1>11. target' = target
  BY <1>1
<1>12. \A s \in Stmt : owner'[s] = owner[s] \/ owner'[s] = None
  BY <1>2
<1>13. QED
  BY <1>2, <1>6, <1>8, <1>9, <1>10, <1>11, <1>12, OneObject

LEMMA KeepText ==
  ASSUME FetchInv, NEW r \in Result, NEW row \in Row, NextOfText(r, row)
  PROVE  FetchInv'
<1>1. /\ ObjectOK(rs[r]) /\ rs[r] \in ResultSet /\ rs[r].kind \in {"text", "moved"}
      /\ row \in [Columns -> Cell]
      /\ UNCHANGED <<open, stored, left, target, owner>>
  BY DEF FetchInv, ObjectsOK, ObjectOK, NextOfText
<1>2. \A s \in Stmt : owner[s] # r
  BY <1>1, NotOwned
<1>3. CASE rs[r].rows = 0
  <2> DEFINE x == [rs[r] EXCEPT !.hasRow = FALSE, !.ended = TRUE]
  <2>1. rs' = [rs EXCEPT ![r] = x]
    BY <1>3 DEF NextOfText, Answered, FetchInv, ObjectsOK
  <2>2. x \in ResultSet /\ x.kind \in {"text", "moved"} /\ ~x.hasRow /\ x.rows = 0
    BY <1>1, <1>3 DEF ResultSet
  <2> HIDE DEF x
  <2>3. ObjectOK(x) /\ x.kind # "stmt"
    BY <2>2 DEF ObjectOK, RowOK
  <2>4. QED
    BY <2>1, <2>3, <1>1, <1>2, LibraryKept, OneObject
<1>4. CASE rs[r].rows # 0
  <2> DEFINE x == [rs[r] EXCEPT !.rows = rs[r].rows - 1, !.hasRow = TRUE, !.row = row]
  <2>1. rs' = [rs EXCEPT ![r] = x]
    BY <1>4 DEF NextOfText, FetchInv, ObjectsOK
  <2>2. rs[r].rows \in Nat /\ rs[r].rows - 1 \in Nat /\ rs[r].kind = "text" /\ ~rs[r].ended
    BY <1>1, <1>4 DEF ResultSet, ObjectOK
  <2>3. x \in ResultSet /\ x.kind = "text" /\ ~x.ended
    BY <1>1, <2>2 DEF ResultSet
  <2> HIDE DEF x
  <2>4. ObjectOK(x) /\ x.kind # "stmt"
    BY <2>3 DEF ObjectOK, RowOK
  <2>5. QED
    BY <2>1, <2>4, <1>1, <1>2, LibraryKept, OneObject
<1>5. QED
  BY <1>3, <1>4

\* An object that is alone with its handle takes a row, and the binds of the
\* handle stay its own.
LEMMA OneReads ==
  ASSUME FetchInv, NEW r \in Result, NEW s \in Stmt, NEW x, NEW t \in Target,
         Uses(r, s), Available(r), rs[r].sole, ObjectOK(x),
         x.kind = "stmt", x.stmt = s,
         rs' = [rs EXCEPT ![r] = x], target' = [target EXCEPT ![s] = t],
         t.of = r, SlotOK(x, t, r), x.ended => rs[r].ended, Advance(s)
  PROVE  FetchInv'
<1>1. /\ rs'[r] = x /\ \A q \in Result : q # r => rs'[q] = rs[q]
      /\ rs' = [q \in Result |-> rs'[q]]
      /\ target'[s] = t /\ \A z \in Stmt : z # s => target'[z] = target[z]
      /\ target' \in [Stmt -> Target]
  BY DEF FetchInv, ObjectsOK, LibraryOK
<1>2. rs[r].kind = "stmt" /\ rs[r].stmt = s /\ s \in stored /\ left[s] > 0
  BY DEF Uses, Available
<1>3. /\ left' \in [Stmt -> Nat] /\ \A z \in Stmt : z # s => left'[z] = left[z]
      /\ open' = open /\ stored' = stored /\ owner' = owner
  BY <1>2, LibraryKept
<1>4. ObjectsOK'
  BY <1>1 DEF FetchInv, ObjectsOK
<1>5. LibraryOK'
  BY <1>1, <1>3 DEF FetchInv, LibraryOK
<1>6. \A q \in Result, z \in Stmt : Uses(q, z)' <=> Uses(q, z)
  BY <1>1, <1>2 DEF Uses
<1>7. \A q \in Result : q # r => ~Uses(q, s)
  BY DEF FetchInv, SoleInv
<1>8. \A z \in Stmt : z # s => ~Uses(r, z)
  BY <1>2 DEF Uses
<1>9. SoleInv'
  <2> SUFFICES ASSUME NEW p \in Result, NEW q \in Result, NEW z \in Stmt,
                      p # q, Uses(p, z), Uses(q, z)
               PROVE  ~rs'[p].sole
    BY <1>6 DEF SoleInv
  <2>1. p # r
    BY <1>7, <1>8
  <2>2. QED
    BY <2>1, <1>1 DEF FetchInv, SoleInv
<1>10. TargetInv'
  <2> SUFFICES ASSUME NEW p \in Result, NEW z \in Stmt, Uses(p, z)
               PROVE  SlotOK(rs'[p], target'[z], p)
    BY <1>6 DEF TargetInv
  <2>1. CASE p = r
    BY <2>1, <1>1, <1>8
  <2>2. CASE p # r
    <3>1. z # s /\ SlotOK(rs[p], target[z], p)
      BY <2>2, <1>7 DEF FetchInv, TargetInv
    <3>2. QED
      BY <3>1, <2>2, <1>1
  <2>3. QED
    BY <2>1, <2>2
<1>11. OwnerInv'
  <2> SUFFICES ASSUME NEW z \in Stmt, owner[z] # None
               PROVE  OwnerOK(owner[z], z)'
    BY <1>3 DEF OwnerInv
  <2>1. owner[z] \in Result /\ OwnerOK(owner[z], z)
    BY DEF FetchInv, OwnerInv, LibraryOK
  <2>2. CASE owner[z] = r
    <3>1. z = s
      BY <2>1, <2>2, <1>8 DEF OwnerOK
    <3>2. ~rs[r].ended
      BY <2>1, <2>2, <3>1, <1>2 DEF OwnerOK
    <3>3. QED
      BY <3>1, <3>2, <2>1, <2>2, <1>1, <1>2, <1>3, <1>6 DEF OwnerOK
  <2>3. CASE owner[z] # r
    <3>1. z # s
      BY <2>1, <2>3, <1>7 DEF OwnerOK
    <3>2. rs'[owner[z]] = rs[owner[z]] /\ target'[z] = target[z] /\ left'[z] = left[z]
      BY <3>1, <2>1, <2>3, <1>1, <1>3
    <3>3. QED
      BY <3>2, <2>1, <1>3, <1>6 DEF OwnerOK
  <2>4. QED
    BY <2>2, <2>3
<1>12. QED
  BY <1>4, <1>5, <1>9, <1>10, <1>11 DEF FetchInv

\* What next() finds when it may go on.
LEMMA FetchFinds ==
  ASSUME FetchInv, NEW r \in Result, NEW row \in Row,
         Available(r), rs[r].sole, Live(rs[r].stmt)
  PROVE  LET s == rs[r].stmt
             z == target[s].size
             W == [i \in Columns |-> Written(rs[r].cols[i], row[i], z[i])]
         IN  /\ s \in Stmt /\ Uses(r, s) /\ rs[r] \in ResultSet /\ ObjectOK(rs[r])
             /\ row \in [Columns -> Cell] /\ z \in [Columns -> Nat]
             /\ target[s].of = r /\ target[s] \in Target
             /\ ~rs[r].threw => target[s] = Bound(r, rs[r].cols)
             /\ Fetched(s, row) = [rs EXCEPT ![r].cols = W]
             /\ W \in [Columns -> Column]
<1> DEFINE s == rs[r].stmt
           z == target[s].size
           W == [i \in Columns |-> Written(rs[r].cols[i], row[i], z[i])]
<1>1. /\ rs[r] \in ResultSet /\ ObjectOK(rs[r]) /\ rs[r].kind = "stmt" /\ s \in Stmt
      /\ row \in [Columns -> Cell]
  BY DEF FetchInv, ObjectsOK, ObjectOK, Available
<1>2. Uses(r, s)
  BY <1>1 DEF Uses
<1>3. target[s] \in Target /\ SlotOK(rs[r], target[s], r) /\ target[s].of # None
  BY <1>1, <1>2 DEF FetchInv, LibraryOK, TargetInv, Live
<1>4. target[s].of = r /\ (~rs[r].threw => target[s] = Bound(r, rs[r].cols))
  BY <1>3 DEF SlotOK
<1>5. z \in [Columns -> Nat]
  BY <1>3 DEF Target
<1>6. W \in [Columns -> Column]
  <2>1. \A i \in Columns : rs[r].cols[i] \in Column /\ row[i] \in Cell /\ z[i] \in Nat
    BY <1>1, <1>5 DEF ResultSet
  <2>2. \A i \in Columns : Written(rs[r].cols[i], row[i], z[i]) \in Column
    BY <2>1, WrittenTyped
  <2>3. QED
    BY <2>2
<1>7. Fetched(s, row) = [rs EXCEPT ![r].cols = W]
  BY <1>4 DEF Fetched
<1>8. QED
  BY <1>1, <1>2, <1>3, <1>4, <1>5, <1>6, <1>7

\* The truncation branch visits columns whose value did not fit, and no others
\* are left cut.
LEMMA VisitedAre ==
  ASSUME NEW r \in Result, NEW s \in Stmt, NEW row \in [Columns -> Cell],
         NEW cols \in [Columns -> Column], NEW W \in [Columns -> Column],
         target[s].size \in [Columns -> Nat],
         W = [i \in Columns |-> Written(cols[i], row[i], target[s].size[i])],
         rs = [q \in Result |-> rs[q]], rs[r] \in ResultSet,
         Fetched(s, row) = [rs EXCEPT ![r].cols = W]
  PROVE  /\ Fetched(s, row)[r].cols = W
         /\ Visited(r, s, row) \subseteq Columns
         /\ \A i \in Visited(r, s, row) : ~row[i].null /\ W[i].len = row[i].len
         /\ \A i \in Columns : i \notin Visited(r, s, row) /\ ~row[i].null =>
               row[i].len <= target[s].size[i]
<1>1. Fetched(s, row)[r].cols = W
  BY DEF ResultSet
<1>2. \A i \in Columns : /\ row[i].len \in Nat /\ target[s].size[i] \in Nat
                         /\ W[i].err => ~row[i].null /\ row[i].len > target[s].size[i]
                         /\ ~row[i].null /\ row[i].len > target[s].size[i] => W[i].err
                         /\ ~row[i].null => W[i].len = row[i].len
  <2> TAKE i \in Columns
  <2>1. cols[i] \in Column /\ row[i] \in Cell /\ target[s].size[i] \in Nat /\ row[i].len \in Nat
    BY DEF Cell
  <2>2. W[i] = Written(cols[i], row[i], target[s].size[i])
    OBVIOUS
  <2> DEFINE w == Written(cols[i], row[i], target[s].size[i])
  <2>3. IF ~row[i].null /\ row[i].len > target[s].size[i] THEN w.err = TRUE ELSE w.err = FALSE
    BY <2>1, WrittenCut
  <2>3a. ~row[i].null => w.len = row[i].len
    <3> SUFFICES ASSUME ~row[i].null PROVE w.len = row[i].len
      OBVIOUS
    <3>1. QED
      BY <2>1 DEF Written, Column
  <2>4. W[i] = w
    BY <2>2 DEF w
  <2>5. QED
    BY <2>1, <2>3, <2>3a, <2>4
<1>3. CASE Truncated(s, row)
  <2>1. Visited(r, s, row) = {i \in Columns : W[i].err}
    BY <1>1, <1>3 DEF Visited
  <2>2. QED
    BY <1>1, <1>2, <2>1
<1>4. CASE ~Truncated(s, row)
  <2>1. Visited(r, s, row) = {}
    BY <1>4 DEF Visited
  <2>2. \A i \in Columns : ~row[i].null => row[i].len <= target[s].size[i]
    BY <1>2, <1>4 DEF Truncated
  <2>3. QED
    BY <1>1, <2>1, <2>2
<1>5. QED
  BY <1>3, <1>4

\* A column after a fetch: enlarged when it was visited, then terminated.
LEMMA ColumnFits ==
  ASSUME NEW col \in Column, NEW w \in Column, NEW c \in Column, NEW cell \in Cell,
         NEW size \in Nat, NEW visited \in BOOLEAN,
         w = Written(col, cell, size),
         visited => ~cell.null /\ c = Enlarged(w, cell),
         ~visited => c = w,
         ~visited /\ ~cell.null => cell.len <= size
  PROVE  /\ Terminated(c) \in Column /\ Terminated(c).size = c.size
         /\ ~visited => c.size = col.size
         /\ visited \/ size = col.size =>
               /\ Terminated(c).null = cell.null
               /\ ~cell.null => /\ Terminated(c).cell = cell /\ Terminated(c).len = cell.len
                                /\ Terminated(c).kept = Terminated(c).len
                                /\ Terminated(c).nul = Terminated(c).len
                                /\ Terminated(c).len <= Terminated(c).size
<1>1. cell.len \in Nat /\ cell.null \in BOOLEAN /\ col.size \in Nat
  BY DEF Cell, Column
<1>2. /\ w.size = col.size /\ w.null = cell.null
      /\ ~cell.null => w.len = cell.len /\ w.cell = cell /\ w.kept = Least(cell.len, size)
  BY WrittenTyped
<1>3. /\ Terminated(c) \in Column /\ Terminated(c).size = c.size
      /\ Terminated(c).null = c.null /\ Terminated(c).len = c.len
      /\ Terminated(c).cell = c.cell /\ Terminated(c).kept = c.kept
      /\ ~c.null => Terminated(c).nul = Least(c.len, c.size)
  BY TerminatedTyped
<1>4. \A m, n \in Nat : m <= n => Least(m, n) = m
  BY LeastOf
<1>5. CASE visited
  <2>1. /\ c.size = cell.len /\ c.null = cell.null /\ ~cell.null
        /\ c.len = cell.len /\ c.cell = cell /\ c.kept = Least(cell.len, cell.len)
    BY <1>2, <1>5, EnlargedTyped
  <2>2. Least(cell.len, cell.len) = cell.len
    BY <1>1, <1>4
  <2>3. QED
    BY <1>1, <1>3, <1>5, <2>1, <2>2
<1>6. CASE ~visited
  <2>1. c = w
    BY <1>6
  <2>2. ~cell.null /\ size = col.size => /\ Least(cell.len, size) = cell.len
                                         /\ Least(c.len, c.size) = c.len /\ c.len <= c.size
    BY <1>1, <1>2, <1>4, <1>6, <2>1
  <2>3. QED
    BY <1>1, <1>2, <1>3, <1>6, <2>1, <2>2
<1>7. QED
  BY <1>5, <1>6

LEMMA KeepDelivers ==
  ASSUME FetchInv, NEW r \in Result, NEW row \in Row, NextDelivers(r, row)
  PROVE  FetchInv'
<1> DEFINE s == rs[r].stmt
           z == target[s].size
           W == [i \in Columns |-> Written(rs[r].cols[i], row[i], z[i])]
           S == Visited(r, s, row)
           C == [i \in Columns |-> IF i \in S THEN Enlarged(W[i], row[i]) ELSE W[i]]
           T == [i \in Columns |-> Terminated(C[i])]
           x == [rs[r] EXCEPT !.cols = T, !.hasRow = TRUE, !.row = row, !.ended = FALSE]
           t == Rebound(target[s], r, C, S)
<1>1. Available(r) /\ rs[r].sole /\ Live(s) /\ Advance(s)
  BY DEF NextDelivers
<1>2. /\ s \in Stmt /\ Uses(r, s) /\ rs[r] \in ResultSet /\ ObjectOK(rs[r])
      /\ row \in [Columns -> Cell] /\ z \in [Columns -> Nat]
      /\ target[s].of = r /\ target[s] \in Target
      /\ ~rs[r].threw => target[s] = Bound(r, rs[r].cols)
      /\ Fetched(s, row) = [rs EXCEPT ![r].cols = W]
      /\ W \in [Columns -> Column]
  BY <1>1, FetchFinds
<1>3. rs = [q \in Result |-> rs[q]] /\ rs[r].cols \in [Columns -> Column]
  BY <1>2 DEF FetchInv, ObjectsOK, ResultSet
<1>4. /\ Fetched(s, row)[r].cols = W /\ S \subseteq Columns
      /\ \A i \in S : ~row[i].null /\ W[i].len = row[i].len
      /\ \A i \in Columns : i \notin S /\ ~row[i].null => row[i].len <= z[i]
  <2>1. W = [i \in Columns |-> Written(rs[r].cols[i], row[i], target[s].size[i])]
    OBVIOUS
  <2>2. /\ Fetched(s, row)[r].cols = W
        /\ Visited(r, s, row) \subseteq Columns
        /\ \A i \in Visited(r, s, row) : ~row[i].null /\ W[i].len = row[i].len
        /\ \A i \in Columns : i \notin Visited(r, s, row) /\ ~row[i].null =>
              row[i].len <= target[s].size[i]
    <3> HIDE DEF W, s, S
    <3>1. target[s].size \in [Columns -> Nat]
      BY <1>2
    <3>2. QED
      BY <1>2, <1>3, <2>1, <3>1, VisitedAre
  <2>3. QED
    BY <2>2
<1>5. /\ rs' = [Fetched(s, row) EXCEPT ![r].cols = T, ![r].hasRow = TRUE,
                                       ![r].row = row, ![r].ended = FALSE]
      /\ target' = [target EXCEPT ![s] = t]
  BY <1>4 DEF NextDelivers
<1> HIDE DEF S
<1>6. rs' = [rs EXCEPT ![r] = x]
  <2> DEFINE f == Fetched(s, row)
  <2>1. f = [rs EXCEPT ![r].cols = W]
    BY <1>2
  <2> HIDE DEF T, W, f
  <2>2. /\ f[r] = [rs[r] EXCEPT !.cols = W] /\ f = [q \in Result |-> f[q]]
        /\ \A q \in Result : q # r => f[q] = rs[q]
    BY <1>3, <2>1
  <2>3. [f[r] EXCEPT !.cols = T, !.hasRow = TRUE, !.row = row, !.ended = FALSE] = x
    BY <1>2, <2>2 DEF ResultSet
  <2>4. rs' = [f EXCEPT ![r] = [f[r] EXCEPT !.cols = T, !.hasRow = TRUE, !.row = row,
                                            !.ended = FALSE]]
    BY <1>5, <2>2 DEF f
  <2> HIDE DEF x
  <2>5. QED
    BY <1>3, <2>2, <2>3, <2>4
<1>7. \A i \in Columns : C[i] \in Column
  <2> TAKE i \in Columns
  <2>1. W[i] \in Column /\ row[i] \in Cell
    BY <1>2
  <2>2. Enlarged(W[i], row[i]) \in Column
    BY <2>1, EnlargedTyped
  <2>3. QED
    BY <2>1, <2>2
<1>8. \A i \in Columns :
         /\ T[i] \in Column /\ T[i].size = C[i].size
         /\ i \notin S => C[i].size = rs[r].cols[i].size
         /\ i \in S \/ z[i] = rs[r].cols[i].size =>
               /\ T[i].null = row[i].null
               /\ ~row[i].null => /\ T[i].cell = row[i] /\ T[i].len = row[i].len
                                  /\ T[i].kept = T[i].len /\ T[i].nul = T[i].len
                                  /\ T[i].len <= T[i].size
  <2> TAKE i \in Columns
  <2> DEFINE v == i \in S
  <2>1. /\ rs[r].cols[i] \in Column /\ W[i] \in Column /\ C[i] \in Column
        /\ row[i] \in Cell /\ z[i] \in Nat /\ v \in BOOLEAN
    BY <1>2, <1>3, <1>7
  <2>2. /\ W[i] = Written(rs[r].cols[i], row[i], z[i])
        /\ T[i] = Terminated(C[i])
        /\ v => ~row[i].null /\ C[i] = Enlarged(W[i], row[i])
        /\ ~v => C[i] = W[i]
        /\ ~v /\ ~row[i].null => row[i].len <= z[i]
    BY <1>4
  <2> HIDE DEF W, C, T, z, v
  <2>3. /\ T[i] \in Column /\ T[i].size = C[i].size
        /\ ~v => C[i].size = rs[r].cols[i].size
        /\ v \/ z[i] = rs[r].cols[i].size =>
              /\ T[i].null = row[i].null
              /\ ~row[i].null => /\ T[i].cell = row[i] /\ T[i].len = row[i].len
                                 /\ T[i].kept = T[i].len /\ T[i].nul = T[i].len
                                 /\ T[i].len <= T[i].size
    BY <2>1, <2>2, ColumnFits
  <2>4. QED
    BY <2>3 DEF v
<1>9. T \in [Columns -> Column] /\ C \in [Columns -> Column]
  BY <1>7, <1>8
<1> HIDE DEF T, C, W
<1>10. /\ x \in ResultSet /\ x.kind = "stmt" /\ x.stmt = s /\ x.cols = T /\ x.row = row
       /\ x.hasRow /\ ~x.ended /\ x.sole = rs[r].sole /\ x.threw = rs[r].threw
  BY <1>2, <1>9 DEF ResultSet, Uses
<1> HIDE DEF x
<1>11. ObjectOK(x)
  <2>1. ~x.threw => \A i \in Columns : z[i] = rs[r].cols[i].size
    BY <1>2, <1>10 DEF Bound
  <2>2. RowOK(x)
    BY <1>8, <1>10, <2>1 DEF RowOK
  <2>3. QED
    BY <1>2, <1>10, <2>2 DEF ObjectOK
<1>12. t \in Target /\ t.of = r /\ (~x.threw => t = Bound(r, T))
  <2>1. Bound(r, C) = Bound(r, T) /\ Bound(r, C).of = r
    BY <1>8 DEF Bound
  <2>2. CASE S = {}
    <3>1. Bound(r, C) = Bound(r, rs[r].cols)
      BY <1>8, <2>2 DEF Bound
    <3>2. QED
      BY <2>1, <2>2, <3>1, <1>2, <1>10 DEF Rebound
  <2>3. CASE S # {}
    BY <2>1, <2>3, <1>9, BoundTyped DEF Rebound, Target
  <2>4. QED
    BY <2>2, <2>3
<1> HIDE DEF t
<1>13. SlotOK(x, t, r)
  BY <1>10, <1>12 DEF SlotOK
<1>14. QED
  BY <1>1, <1>2, <1>5, <1>6, <1>10, <1>11, <1>12, <1>13, OneReads

LEMMA OutdatedTyped ==
  ASSUME NEW t \in Target, NEW r \in Result, NEW S
  PROVE  Outdated(t, r, S) \in Target /\ Outdated(t, r, S).of = t.of
  BY DEF Outdated, Target, Dangling

LEMMA KeepThrows ==
  ASSUME FetchInv, NEW r \in Result, NEW row \in Row, NextThrows(r, row)
  PROVE  FetchInv'
<1> DEFINE s == rs[r].stmt
           W == [i \in Columns |-> Written(rs[r].cols[i], row[i], target[s].size[i])]
           S == Visited(r, s, row)
           D(j, again) == [i \in Columns |->
              CASE i \in S /\ (i < j \/ (i = j /\ again)) -> Enlarged(W[i], row[i])
                [] i = j /\ ~again -> Emptied(W[i])
                [] OTHER -> W[i]]
<1>1. Available(r) /\ rs[r].sole /\ Live(s) /\ Advance(s)
  BY DEF NextThrows
<1>2. /\ s \in Stmt /\ Uses(r, s) /\ rs[r] \in ResultSet /\ ObjectOK(rs[r])
      /\ row \in [Columns -> Cell] /\ target[s].size \in [Columns -> Nat]
      /\ target[s].of = r /\ target[s] \in Target
      /\ ~rs[r].threw => target[s] = Bound(r, rs[r].cols)
      /\ Fetched(s, row) = [rs EXCEPT ![r].cols = W]
      /\ W \in [Columns -> Column]
  BY <1>1, FetchFinds
<1>3. rs = [q \in Result |-> rs[q]]
  BY DEF FetchInv, ObjectsOK
<1> DEFINE f == Fetched(s, row)
<1>4. /\ f[r] = [rs[r] EXCEPT !.cols = W] /\ f = [q \in Result |-> f[q]]
      /\ \A q \in Result : q # r => f[q] = rs[q]
  <2> HIDE DEF W
  <2>1. QED
    BY <1>2, <1>3
<1>5. f[r].cols = W
  <2> HIDE DEF W, f
  <2>1. QED
    BY <1>2, <1>4 DEF ResultSet
<1>6. PICK j \in S, again \in BOOLEAN :
         /\ rs' = [f EXCEPT ![r].cols = [i \in Columns |->
              CASE i \in S /\ (i < j \/ (i = j /\ again)) -> Enlarged(f[r].cols[i], row[i])
                [] i = j /\ ~again -> Emptied(f[r].cols[i])
                [] OTHER -> f[r].cols[i]], ![r].threw = TRUE]
         /\ target' = [target EXCEPT ![s] = Outdated(target[s], r, {i \in S : i <= j})]
  BY DEF NextThrows
<1> DEFINE C == D(j, again)
           x == [rs[r] EXCEPT !.cols = C, !.threw = TRUE]
           t == Outdated(target[s], r, {i \in S : i <= j})
<1>7. C \in [Columns -> Column]
  <2>1. \A i \in Columns : /\ W[i] \in Column /\ Emptied(W[i]) \in Column
                           /\ Enlarged(W[i], row[i]) \in Column
    <3> TAKE i \in Columns
    <3>1. W[i] \in Column /\ row[i] \in Cell
      BY <1>2
    <3> HIDE DEF W
    <3>2. QED
      BY <3>1, EnlargedTyped, EmptiedTyped
  <2> HIDE DEF W, S
  <2>2. QED
    BY <2>1
<1>8. rs' = [rs EXCEPT ![r] = x]
  <2>1. rs' = [f EXCEPT ![r].cols = C, ![r].threw = TRUE]
    <3> HIDE DEF f, W, S
    <3>1. QED
      BY <1>5, <1>6
  <2> HIDE DEF C, f, W
  <2>2. [f[r] EXCEPT !.cols = C, !.threw = TRUE] = x
    BY <1>2, <1>4 DEF ResultSet
  <2>3. rs' = [f EXCEPT ![r] = [f[r] EXCEPT !.cols = C, !.threw = TRUE]]
    BY <2>1, <1>4
  <2> HIDE DEF x
  <2>4. QED
    BY <1>3, <1>4, <2>2, <2>3
<1> HIDE DEF C
<1>9. /\ x \in ResultSet /\ x.kind = "stmt" /\ x.stmt = s /\ x.hasRow = rs[r].hasRow
      /\ x.ended = rs[r].ended /\ x.threw
  BY <1>2, <1>7 DEF ResultSet, Uses
<1> HIDE DEF x
<1>10. ObjectOK(x)
  BY <1>2, <1>9 DEF ObjectOK, RowOK
<1>11. t \in Target /\ t.of = r /\ target' = [target EXCEPT ![s] = t]
  BY <1>2, <1>6, OutdatedTyped
<1> HIDE DEF t
<1>12. SlotOK(x, t, r)
  BY <1>9, <1>11 DEF SlotOK
<1>13. QED
  BY <1>1, <1>2, <1>8, <1>9, <1>10, <1>11, <1>12, OneReads

-----------------------------------------------------------------------------
(* Moves and the end of an object                                          *)

\* What the two moves have in common: q takes the place of r in everything, and
\* the rows of the handle that q has had are freed.
LEMMA OneMoves ==
  ASSUME FetchInv, NEW r \in Result, NEW q \in Result, r # q,
         rs' = [p \in Result |-> rs'[p]], rs'[q] = rs[r], rs'[r] = MovedFrom,
         \A p \in Result : p # r /\ p # q => rs'[p] = rs[p],
         target' \in [Stmt -> Target],
         \A s \in Stmt : target[s].of = r => target'[s] = [target[s] EXCEPT !.of = q],
         \A s \in Stmt : target[s].of # r /\ target[s].of # q => target'[s] = target[s],
         owner' \in [Stmt -> Result \cup {None}],
         \A s \in Stmt : owner[s] = q => owner'[s] = None,
         \A s \in Stmt : owner[s] = r => owner'[s] = q,
         \A s \in Stmt : owner[s] # q /\ owner[s] # r => owner'[s] = owner[s],
         stored' = stored \ Handles(q), left' \in [Stmt -> Nat],
         \A s \in Stmt : s \notin Handles(q) => left'[s] = left[s],
         open' = open
  PROVE  FetchInv'
<1>1. /\ rs'[q] = rs[r] /\ rs'[r] = MovedFrom
      /\ \A p \in Result : p # r /\ p # q => rs'[p] = rs[p]
  OBVIOUS
<1>2. ObjectsOK'
  BY <1>1, NewObjects DEF FetchInv, ObjectsOK
<1>3. LibraryOK'
  BY DEF FetchInv, LibraryOK
<1>4. MovedFrom.kind = "moved"
  BY NoResultOK DEF ResultSet
<1>5. \A p \in Result, s \in Stmt :
         /\ p # r /\ p # q => (Uses(p, s)' <=> Uses(p, s))
         /\ Uses(q, s)' <=> Uses(r, s)
         /\ ~Uses(r, s)'
  BY <1>1, <1>4 DEF Uses
<1>6. SoleInv'
  <2> SUFFICES ASSUME NEW p \in Result, NEW o \in Result, NEW s \in Stmt,
                      p # o, Uses(p, s)', Uses(o, s)'
               PROVE  ~rs'[p].sole
    BY DEF SoleInv
  <2>1. p # r /\ o # r
    BY <1>5
  <2>2. CASE p = q
    BY <2>1, <2>2, <1>1, <1>5 DEF FetchInv, SoleInv
  <2>3. CASE p # q
    <3>1. Uses(p, s) /\ rs'[p] = rs[p]
      BY <2>1, <2>3, <1>1, <1>5
    <3>2. Uses(IF o = q THEN r ELSE o, s)
      BY <2>1, <1>5
    <3>3. QED
      BY <2>1, <3>1, <3>2 DEF FetchInv, SoleInv
  <2>4. QED
    BY <2>2, <2>3
<1>7. TargetInv'
  <2> SUFFICES ASSUME NEW p \in Result, NEW s \in Stmt, Uses(p, s)', rs'[p].sole
               PROVE  SlotOK(rs'[p], target'[s], p)
    BY DEF TargetInv, SlotOK
  <2>1. target[s] \in Target
    BY DEF FetchInv, LibraryOK
  <2>2. CASE p = q
    <3>1. rs'[p] = rs[r] /\ SlotOK(rs[r], target[s], r)
      BY <2>2, <1>1, <1>5 DEF FetchInv, TargetInv
    <3>2. CASE target[s].of = r
      <4>1. target'[s] = [target[s] EXCEPT !.of = q]
        BY <3>2
      <4>2. target'[s].of = q
        BY <4>1, <2>1 DEF Target
      <4>3. target[s] = Bound(r, rs[r].cols) => target'[s] = Bound(q, rs[r].cols)
        BY <4>1 DEF Bound
      <4>4. QED
        BY <4>2, <4>3, <3>1, <3>2, <2>2 DEF SlotOK
    <3>3. CASE target[s].of = None
      BY <3>1, <3>3, <2>2 DEF SlotOK
    <3>4. QED
      BY <3>1, <3>2, <3>3 DEF SlotOK
  <2>3. CASE p # q
    <3>0. p # r /\ Uses(p, s)
      BY <2>3, <1>5
    <3>1. p # r /\ rs'[p] = rs[p] /\ SlotOK(rs[p], target[s], p)
      BY <2>3, <3>0, <1>1 DEF FetchInv, TargetInv
    <3>2. target[s].of # r /\ target[s].of # q
      BY <3>1, <2>3 DEF SlotOK
    <3>3. target'[s] = target[s]
      BY <3>2
    <3>4. QED
      BY <3>1, <3>3
  <2>4. QED
    BY <2>2, <2>3
<1>8. OwnerInv'
  <2> SUFFICES ASSUME NEW s \in Stmt, owner'[s] # None
               PROVE  OwnerOK(owner[s], s)'
    BY DEF OwnerInv
  <2>1. /\ owner[s] # q /\ owner[s] # None /\ owner[s] \in Result
        /\ OwnerOK(owner[s], s) /\ target[s] \in Target
    BY DEF FetchInv, LibraryOK, OwnerInv
  <2>2. rs[owner[s]].sole => s \notin Handles(q)
    BY <2>1 DEF OwnerOK, Handles, Uses, FetchInv, SoleInv
  <2>3. rs[owner[s]].sole => /\ s \in stored' /\ left'[s] = left[s]
                             /\ rs[owner[s]].ended => left'[s] = 0
    BY <2>1, <2>2 DEF OwnerOK
  <2>5. CASE owner[s] = r
    <3>1. owner'[s] = q /\ Uses(q, s)'
      BY <2>1, <2>5, <1>5 DEF OwnerOK
    <3>2. rs'[q].sole => target'[s].of = q
      BY <2>1, <2>5, <1>1 DEF OwnerOK, Target
    <3>3. rs'[q].sole => s \in stored' /\ (rs'[q].ended => left'[s] = 0)
      BY <2>3, <2>5, <1>1
    <3>4. QED
      BY <3>1, <3>2, <3>3 DEF OwnerOK
  <2>6. CASE owner[s] # r
    <3>1. owner'[s] = owner[s] /\ Uses(owner[s], s)' /\ rs'[owner[s]] = rs[owner[s]]
      BY <2>1, <2>6, <1>1, <1>5 DEF OwnerOK
    <3>2. rs[owner[s]].sole => target'[s].of = owner[s]
      BY <2>1, <2>6 DEF OwnerOK
    <3>3. QED
      BY <3>1, <3>2, <2>3 DEF OwnerOK
  <2>7. QED
    BY <2>5, <2>6
<1>9. QED
  BY <1>2, <1>3, <1>6, <1>7, <1>8 DEF FetchInv

LEMMA MovedTarget ==
  ASSUME NEW t \in Target, NEW q \in Result
  PROVE  [t EXCEPT !.of = q] \in Target /\ NoTarget \in Target /\ NoTarget.of = None
  BY DEF Target, NoTarget, Dangling

LEMMA KeepMoveConstruct ==
  ASSUME FetchInv, NEW r \in Result, NEW q \in Result, MoveConstruct(r, q)
  PROVE  FetchInv'
<1>1. r # q /\ Handles(q) = {}
  BY DEF MoveConstruct, Objects, Handles
<1>2. /\ rs' = [p \in Result |-> rs'[p]] /\ rs'[q] = rs[r] /\ rs'[r] = MovedFrom
      /\ \A p \in Result : p # r /\ p # q => rs'[p] = rs[p]
      /\ UNCHANGED <<open, stored, left>>
  BY <1>1 DEF MoveConstruct, FetchInv, ObjectsOK
<1>3. /\ target' \in [Stmt -> Target]
      /\ \A s \in Stmt : target[s].of = r => target'[s] = [target[s] EXCEPT !.of = q]
      /\ \A s \in Stmt : target[s].of # r => target'[s] = target[s]
  <2>1. \A s \in Stmt : target[s] \in Target /\ [target[s] EXCEPT !.of = q] \in Target
    BY MovedTarget DEF FetchInv, LibraryOK
  <2>2. target' = [s \in Stmt |-> IF target[s].of = r THEN [target[s] EXCEPT !.of = q]
                                  ELSE target[s]]
    BY DEF MoveConstruct
  <2>3. QED
    BY <2>1, <2>2
<1>4. /\ owner' \in [Stmt -> Result \cup {None}]
      /\ \A s \in Stmt : owner[s] # q /\ owner'[s] = IF owner[s] = r THEN q ELSE owner[s]
  <2>1. rs[q].kind # "stmt"
    BY DEF MoveConstruct
  <2>2. \A s \in Stmt : owner[s] # q
    BY <2>1, NotOwned
  <2>3. QED
    BY <2>2 DEF FetchInv, LibraryOK, MoveConstruct
<1>5. left' \in [Stmt -> Nat] /\ stored' = stored \ Handles(q)
  BY <1>1, <1>2 DEF FetchInv, LibraryOK
<1>6. QED
  BY <1>1, <1>2, <1>3, <1>4, <1>5, OneMoves

LEMMA KeepMoveAssign ==
  ASSUME FetchInv, NEW r \in Result, NEW q \in Result, MoveAssign(r, q)
  PROVE  FetchInv'
<1>1. /\ r # q /\ open' = open /\ FreeRows(Handles(q))
      /\ rs' = [p \in Result |-> rs'[p]] /\ rs'[q] = rs[r] /\ rs'[r] = MovedFrom
      /\ \A p \in Result : p # r /\ p # q => rs'[p] = rs[p]
  BY DEF MoveAssign, FreedFirst, FetchInv, ObjectsOK
<1>2. /\ target' \in [Stmt -> Target]
      /\ \A s \in Stmt : target[s].of = r => target'[s] = [target[s] EXCEPT !.of = q]
      /\ \A s \in Stmt : target[s].of # r /\ target[s].of # q => target'[s] = target[s]
  <2>1. \A s \in Stmt : /\ target[s] \in Target /\ [target[s] EXCEPT !.of = q] \in Target
                        /\ NoTarget \in Target
    BY MovedTarget DEF FetchInv, LibraryOK
  <2>2. target' = [s \in Stmt |-> CASE target[s].of = q -> NoTarget
                                    [] target[s].of = r -> [target[s] EXCEPT !.of = q]
                                    [] OTHER -> target[s]]
    BY DEF MoveAssign
  <2>3. QED
    BY <2>1, <2>2, <1>1
<1>3. /\ owner' \in [Stmt -> Result \cup {None}]
      /\ \A s \in Stmt : owner[s] = q => owner'[s] = None
      /\ \A s \in Stmt : owner[s] = r => owner'[s] = q
      /\ \A s \in Stmt : owner[s] # q /\ owner[s] # r => owner'[s] = owner[s]
  BY <1>1 DEF FetchInv, LibraryOK, MoveAssign
<1>4. /\ stored' = stored \ Handles(q) /\ left' \in [Stmt -> Nat]
      /\ \A s \in Stmt : s \notin Handles(q) => left'[s] = left[s]
  BY <1>1 DEF FreeRows, FetchInv, LibraryOK
<1>5. QED
  BY <1>1, <1>2, <1>3, <1>4, OneMoves

LEMMA KeepDrop ==
  ASSUME FetchInv, NEW r \in Result, Drop(r)
  PROVE  FetchInv'
<1>1. /\ rs' = [rs EXCEPT ![r] = NoResult] /\ open' = open
      /\ stored' = stored \ Handles(r) /\ left' \in [Stmt -> Nat]
      /\ \A s \in Stmt : s \notin Handles(r) => left'[s] = left[s]
  BY DEF Drop, FreeRows, FetchInv, LibraryOK
<1>2. /\ target' \in [Stmt -> Target]
      /\ \A s \in Stmt : target[s].of # r => target'[s] = target[s]
  <2>1. \A s \in Stmt : target[s] \in Target /\ NoTarget \in Target
    BY MovedTarget DEF FetchInv, LibraryOK
  <2>2. target' = [s \in Stmt |-> IF target[s].of = r THEN NoTarget ELSE target[s]]
    BY DEF Drop
  <2>3. QED
    BY <2>1, <2>2
<1>3. /\ owner' \in [Stmt -> Result \cup {None}]
      /\ \A s \in Stmt : owner'[s] # None => owner[s] # r /\ owner'[s] = owner[s]
  BY DEF FetchInv, LibraryOK, Drop
<1>4. /\ rs'[r] = NoResult /\ \A q \in Result : q # r => rs'[q] = rs[q]
      /\ rs' = [q \in Result |-> rs'[q]]
  BY <1>1 DEF FetchInv, ObjectsOK
<1>5. ObjectsOK'
  BY <1>4, NewObjects DEF FetchInv, ObjectsOK
<1>6. LibraryOK'
  BY <1>1, <1>2, <1>3 DEF FetchInv, LibraryOK
<1>7. \A q \in Result, s \in Stmt :
         (Uses(q, s)' <=> q # r /\ Uses(q, s)) /\ (Uses(q, s)' => rs'[q] = rs[q])
  BY <1>4, NoResultOK DEF Uses
<1>8. SoleInv'
  BY <1>7 DEF FetchInv, SoleInv
<1>9. TargetInv'
  <2> SUFFICES ASSUME NEW q \in Result, NEW s \in Stmt, Uses(q, s)', rs'[q].sole
               PROVE  SlotOK(rs'[q], target'[s], q)
    BY DEF TargetInv, SlotOK
  <2>1. q # r /\ rs'[q] = rs[q] /\ SlotOK(rs[q], target[s], q)
    BY <1>7 DEF FetchInv, TargetInv
  <2>2. target[s].of # r
    BY <2>1 DEF SlotOK
  <2>3. QED
    BY <2>1, <2>2, <1>2
<1>10. OwnerInv'
  <2> SUFFICES ASSUME NEW s \in Stmt, owner'[s] # None
               PROVE  OwnerOK(owner[s], s)'
    BY DEF OwnerInv
  <2>1. /\ owner[s] # r /\ owner'[s] = owner[s] /\ owner[s] \in Result
        /\ OwnerOK(owner[s], s)
    BY <1>3 DEF FetchInv, OwnerInv, LibraryOK
  <2>2. rs[owner[s]].sole => s \notin Handles(r)
    BY <2>1 DEF OwnerOK, Handles, Uses, FetchInv, SoleInv
  <2>3. Uses(owner[s], s)' /\ rs'[owner[s]] = rs[owner[s]]
    BY <2>1, <1>4, <1>7 DEF OwnerOK
  <2>4. rs[owner[s]].sole => target'[s].of = owner[s]
    BY <2>1, <1>2 DEF OwnerOK
  <2>5. rs[owner[s]].sole => s \in stored' /\ (rs[owner[s]].ended => left'[s] = 0)
    BY <2>1, <2>2, <1>1 DEF OwnerOK
  <2>6. QED
    BY <2>1, <2>3, <2>4, <2>5 DEF OwnerOK
<1>11. QED
  BY <1>5, <1>6, <1>8, <1>9, <1>10 DEF FetchInv

-----------------------------------------------------------------------------
(* The getters                                                             *)

LEMMA SaturatedExact ==
  ASSUME NEW n \in Int
  PROVE  /\ n \in Int64 => Saturated(n) = n
         /\ Fits32(Saturated(n)) => n \in Int32
         /\ n \in Int32 => Fits32(Saturated(n)) /\ Saturated(n) = n
  BY DEF Int64, Int32, Saturated, Fits32

\* A getter sees the cell of the row that was delivered.
LEMMA SeenIsCell ==
  ASSUME FetchInv, NEW r \in Result, NEW i \in Columns, rs[r].hasRow,
         rs[r].kind = "text" \/ (rs[r].sole /\ ~rs[r].threw)
  PROVE  /\ rs[r].row[i] \in Cell
         /\ rs[r].row[i].null => Seen(r, i).null
         /\ ~rs[r].row[i].null => Seen(r, i) = rs[r].row[i]
<1>1. /\ rs[r] \in ResultSet /\ ObjectOK(rs[r]) /\ rs[r].row[i] \in Cell
  BY DEF FetchInv, ObjectsOK, ObjectOK, ResultSet
<1>2. CASE rs[r].kind # "stmt"
  BY <1>1, <1>2 DEF Seen
<1>3. CASE rs[r].kind = "stmt"
  <2>1. /\ rs[r].cols[i].null = rs[r].row[i].null
        /\ ~rs[r].row[i].null => /\ rs[r].cols[i].cell = rs[r].row[i]
                                 /\ rs[r].cols[i].kept = rs[r].cols[i].len
                                 /\ rs[r].cols[i].nul = rs[r].cols[i].len
    BY <1>1, <1>3 DEF ObjectOK, RowOK
  <2>2. CASE rs[r].row[i].null
    <3>1. Seen(r, i) = Blank
      BY <1>3, <2>1, <2>2 DEF Seen
    <3>2. QED
      BY <1>1, <2>2, <3>1 DEF Blank
  <2>3. CASE ~rs[r].row[i].null
    <3>1. Seen(r, i) = rs[r].cols[i].cell
      BY <1>3, <2>1, <2>3 DEF Seen
    <3>2. QED
      BY <1>1, <2>1, <2>3, <3>1
  <2>4. QED
    BY <2>2, <2>3
<1>4. QED
  BY <1>2, <1>3

LEMMA InvIntegers == FetchInv => IntegersExact
<1> SUFFICES ASSUME FetchInv, NEW r \in Result, NEW i \in Columns, rs[r].hasRow,
                    rs[r].kind = "text" \/ (rs[r].sole /\ ~rs[r].threw)
             PROVE  LET cell == rs[r].row[i]
                        isNumber == ~cell.null /\ cell.reads # "junk"
                    IN  /\ GetInt32(r, i) = IF isNumber /\ cell.num \in Int32
                                            THEN <<cell.num>> ELSE <<>>
                        /\ cell.num \in Int64 \/ ~isNumber =>
                              GetInt64(r, i) = IF isNumber THEN <<cell.num>> ELSE <<>>
  BY DEF IntegersExact
<1> DEFINE cell == rs[r].row[i]
           isNumber == ~cell.null /\ cell.reads # "junk"
<1>1. /\ cell \in Cell
      /\ cell.null => Seen(r, i).null
      /\ ~cell.null => Seen(r, i) = cell
  BY SeenIsCell
<1> HIDE DEF cell
<1>2. CASE isNumber
  <2> DEFINE n == cell.num
  <2>1. n \in Int /\ GetInt64(r, i) = <<Saturated(n)>>
    BY <1>1, <1>2 DEF Cell, GetInt64
  <2>2. GetInt64(r, i) # <<>> /\ GetInt64(r, i)[1] = Saturated(n)
    BY <2>1
  <2>3. GetInt32(r, i) = IF Fits32(Saturated(n)) THEN <<Saturated(n)>> ELSE <<>>
    BY <2>1, <2>2 DEF GetInt32
  <2> HIDE DEF n
  <2>4. GetInt32(r, i) = IF n \in Int32 THEN <<n>> ELSE <<>>
    BY <2>1, <2>3, SaturatedExact
  <2>5. n \in Int64 => GetInt64(r, i) = <<n>>
    BY <2>1, SaturatedExact
  <2>6. QED
    BY <1>2, <2>4, <2>5 DEF cell, n
<1>3. CASE ~isNumber
  <2>1. GetInt64(r, i) = <<>>
    BY <1>1, <1>3 DEF GetInt64
  <2>2. GetInt32(r, i) = <<>>
    BY <2>1 DEF GetInt32
  <2>3. QED
    BY <1>3, <2>1, <2>2 DEF cell
<1>4. QED
  BY <1>2, <1>3

-----------------------------------------------------------------------------
(* Theorems                                                                *)

LEMMA KeepFetch == FetchInv /\ [FetchNext]_fetchVars => FetchInv'
<1> SUFFICES ASSUME FetchInv, [FetchNext]_fetchVars PROVE FetchInv'
  OBVIOUS
<1>1. CASE Connections
  BY <1>1, KeepQuery, KeepHandles, KeepTextQuery DEF Connections
<1>2. CASE Reading
  BY <1>2, KeepDelivers, KeepThrows, KeepText, KeepShared, KeepEnds, KeepUndefined DEF Reading
<1>3. CASE Handling
  BY <1>3, KeepMoveConstruct, KeepMoveAssign, KeepDrop DEF Handling
<1>4. CASE UNCHANGED fetchVars
  BY <1>4 DEF fetchVars, FetchInv, ObjectsOK, LibraryOK, SoleInv, TargetInv, OwnerInv,
              OwnerOK, Uses
<1>5. QED
  BY <1>1, <1>2, <1>3, <1>4 DEF FetchNext

LEMMA FetchInvariant == FetchSpec => []FetchInv
  BY InitFetch, KeepFetch, PTL DEF FetchSpec

\* next(), the moves, the destructor and what the connection does to the handles
\* keep the types, and has_current_row_ only stays TRUE where there is a row.
THEOREM FetchTyped == FetchSpec => []FetchTypeOK
  BY FetchInvariant, InvTyped, PTL

\* Whatever the lengths of the values, next() delivers rows whole, terminated
\* and within their buffers.
THEOREM RowAlwaysCurrent == FetchSpec => []RowIsCurrent
  BY FetchInvariant, InvRow, PTL

\* The next row is written to the buffers of the object that will read it, as
\* they are after every move and every enlargement.
THEOREM RowsAlwaysReachOwner == FetchSpec => []RowsReachTheirOwner
  BY FetchInvariant, InvReach, PTL

\* For rows of any lengths, next() of a ResultSet that has its handle to itself
\* does not answer false while rows are stored for it.
THEOREM EndAlwaysMeansEnd == FetchSpec => []EndMeansEnd
  BY FetchInvariant, InvEnd, PTL

\* get_int32() and get_int64() return the number of the row's cell or throw,
\* when long long is wider than int.
THEOREM IntegersAlwaysExact == FetchSpec => []IntegersExact
  BY FetchInvariant, InvIntegers, PTL
=============================================================================
