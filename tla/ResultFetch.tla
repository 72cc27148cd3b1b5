----------------------------- MODULE ResultFetch -----------------------------
(***************************************************************************)
(* ResultSet (src/src/result_set.cpp, src/include/fox-mysql/result_set.h): *)
(* its construction, next(), the moves, the destructor and the getters.    *)
(*                                                                         *)
(* The ResultSet of a prepared query shares its MYSQL_STMT with the cache  *)
(* of the connection and with every other ResultSet of the same text.      *)
(* libmysqlclient keeps the rows stored for a handle, and a copy of the    *)
(* binds: the addresses it writes the columns of a row to.  The buffers    *)
(* at these addresses belong to one ResultSet, which replaces a buffer     *)
(* when a value is too long for it.                                        *)
(*                                                                         *)
(* All of this runs in the one thread that uses the connection: an action  *)
(* is a call.  What the connection does to the handles, another query or   *)
(* closing them, happens between any two calls.                            *)
(***************************************************************************)
EXTENDS Integers, FiniteSets

CONSTANTS
    Result,    \* places for ResultSet objects
    Stmt,      \* addresses of MYSQL_STMT handles
    None,
    Columns,   \* the columns of a statement, in their order
    Declared,  \* the declared length of each: the first size of its buffer
    Row,       \* the rows that the server may send
    MaxRows,   \* bound: the rows of one result
    Max32, Max64   \* the largest int and the largest long long

\* A cell is NULL, or has a length and a content, of which strtoll() makes a
\* number, the number before an embedded NUL, or nothing.
Cell == [null : BOOLEAN, len : Nat, reads : {"number", "prefix", "junk"}, num : Int]

ASSUME RowAssumption == Row \subseteq [Columns -> Cell]
ASSUME ColumnsAssumption == Columns \subseteq Nat /\ Declared \in [Columns -> Nat \ {0}]
ASSUME NoneAssumption == None \notin Result \cup Stmt
ASSUME BoundsAssumption == MaxRows \in Nat /\ Max32 \in Nat /\ Max64 \in Nat /\ Max32 < Max64

VARIABLES
    \* libmysqlclient, for each handle
    open,     \* the handles not closed
    stored,   \* those with a stored result
    left,     \* the rows still to be fetched
    target,   \* the copy of the binds: whose buffers, and how long each is
    \* the user
    rs,       \* the ResultSet objects
    \* history
    owner     \* the ResultSet that rows were last stored for; None once the handle
              \* has been executed again or closed, or that object has gone

fetchVars == <<open, stored, left, target, rs, owner>>

\* A column of a ResultSet: the size of its buffer (one byte more is allocated,
\* for the terminator), what the last fetch reported, and the content: the
\* first kept bytes of a cell, and the terminator at nul.
Column == [size : Nat, len : Nat, null : BOOLEAN, err : BOOLEAN,
           cell : Cell, kept : Nat, nul : Nat]

Blank == [null |-> TRUE, len |-> 0, reads |-> "junk", num |-> 0]
Fresh(size) == [size |-> size, len |-> 0, null |-> FALSE, err |-> FALSE,
                cell |-> Blank, kept |-> 0, nul |-> 0]

\* "none": no object.  "stmt", "text": a result of query_prepared(), of query().
\* "moved": an object that was moved from.  "lost": one that has used what was
\* freed; what happens then is not defined, and it does nothing any more.
Kind == {"none", "stmt", "text", "moved", "lost"}

\* hasRow is has_current_row_, and rows the rest of a text result.  History: the
\* row last delivered; whether next() has returned false since; that no other
\* object has used the handle; that a next() has thrown.
ResultSet == [kind : Kind, stmt : Stmt \cup {None}, hasRow : BOOLEAN,
              cols : [Columns -> Column], rows : Nat,
              row : [Columns -> Cell], ended : BOOLEAN, sole : BOOLEAN, threw : BOOLEAN]

NoResult == [kind |-> "none", stmt |-> None, hasRow |-> FALSE,
             cols |-> [i \in Columns |-> Fresh(Declared[i])], rows |-> 0,
             row |-> [i \in Columns |-> Blank],
             ended |-> FALSE, sole |-> FALSE, threw |-> FALSE]

\* The addresses that mysql_stmt_bind_result() copies from the binds of r, each
\* with its buffer_length, or Dangling when the buffer has been given back.
Dangling == 0
Bound(r, cols) == [of |-> r, size |-> [i \in Columns |-> cols[i].size]]
NoTarget == [of |-> None, size |-> [i \in Columns |-> Dangling]]

Live(s) == target[s].of # None /\ \A i \in Columns : target[s].size[i] # Dangling

Least(m, n) == IF m < n THEN m ELSE n

FetchInit ==
    /\ open = {} /\ stored = {}
    /\ left = [s \in Stmt |-> 0]
    /\ target = [s \in Stmt |-> NoTarget]
    /\ rs = [r \in Result |-> NoResult]
    /\ owner = [s \in Stmt |-> None]

-----------------------------------------------------------------------------
(* The connection and its handles                                          *)

Uses(r, s) == rs[r].kind = "stmt" /\ rs[r].stmt = s

\* ResultSet(MYSQL_STMT*), at the end of query_prepared(): the binds replace the
\* former ones.  The handle may have been in use; its rows are gone then.
Query(s, r, n) ==
    /\ rs[r].kind = "none"
    /\ open' = open \cup {s} /\ stored' = stored \cup {s}
    /\ left' = [left EXCEPT ![s] = n]
    /\ rs' = [q \in Result |->
                 IF q = r THEN [NoResult EXCEPT !.kind = "stmt", !.stmt = s,
                                                !.sole = \A p \in Result : ~Uses(p, s)]
                 ELSE [rs[q] EXCEPT !.sole = rs[q].sole /\ ~Uses(q, s)]]
    /\ target' = [target EXCEPT ![s] = Bound(r, NoResult.cols)]
    /\ owner' = [owner EXCEPT ![s] = r]

\* The handle is executed and no ResultSet comes of it: execute_prepared(), or
\* an exception; the one of init_stmt_binds() leaves the rows stored.
QueryFails(s, n) ==
    /\ open' = open \cup {s}
    /\ \/ stored' = stored \ {s} /\ left' = [left EXCEPT ![s] = 0]
       \/ stored' = stored \cup {s} /\ left' = [left EXCEPT ![s] = n]
    /\ owner' = [owner EXCEPT ![s] = None]
    /\ UNCHANGED <<target, rs>>

\* Eviction, recovery, close(): the handle is closed, whoever refers to it.
CloseHandle(s) ==
    /\ s \in open
    /\ open' = open \ {s} /\ stored' = stored \ {s}
    /\ left' = [left EXCEPT ![s] = 0]
    /\ target' = [target EXCEPT ![s] = NoTarget]
    /\ owner' = [owner EXCEPT ![s] = None]
    /\ UNCHANGED rs

\* ResultSet(MYSQL_RES*), at the end of query(): the object owns its rows.
TextQuery(r, n) ==
    /\ rs[r].kind = "none"
    /\ rs' = [rs EXCEPT ![r] = [NoResult EXCEPT !.kind = "text", !.rows = n]]
    /\ UNCHANGED <<open, stored, left, target, owner>>

-----------------------------------------------------------------------------
(* next()                                                                  *)

\* A cell is written to a column with a buffer of that size.  The library does
\* not promise a terminator; the one that assign() put at the end is there.
Written(col, cell, size) ==
    IF cell.null THEN [col EXCEPT !.null = TRUE, !.err = FALSE]
    ELSE [col EXCEPT !.null = FALSE, !.len = cell.len, !.err = cell.len > size,
                     !.cell = cell, !.kept = Least(cell.len, size), !.nul = col.size]

\* mysql_stmt_fetch() fills the buffers of whoever was bound last.
Fetched(s, row) ==
    [rs EXCEPT ![target[s].of].cols =
        [i \in Columns |-> Written(@[i], row[i], target[s].size[i])]]

\* It answers MYSQL_DATA_TRUNCATED.
Truncated(s, row) == \E i \in Columns : ~row[i].null /\ row[i].len > target[s].size[i]

\* The columns that the truncation branch visits.
Visited(r, s, row) ==
    IF Truncated(s, row) THEN {i \in Columns : Fetched(s, row)[r].cols[i].err} ELSE {}

\* What it does to a column: assign(actual_length + 1), the new address into the
\* bind, and mysql_stmt_fetch_column().
EnlargedTooLittle(col, cell) ==
    [Written(Fresh(col.len - 1), cell, col.len) EXCEPT !.err = FALSE]
Enlarged(col, cell) ==
    [Written(Fresh(col.len), cell, col.len) EXCEPT !.err = FALSE]

Emptied(col) == [Fresh(col.len) EXCEPT !.len = col.len, !.err = TRUE]

\* fetch_stmt_row() terminates the data.
TerminatorForgotten(col) == col
Terminated(col) ==
    IF col.null THEN col ELSE [col EXCEPT !.nul = Least(col.len, col.size)]

\* The library keeps the old addresses of the columns in S.
Outdated(t, r, S) ==
    IF t.of # r THEN t
    ELSE [t EXCEPT !.size = [i \in Columns |-> IF i \in S THEN Dangling ELSE t.size[i]]]

\* mysql_stmt_bind_result() once all of them are enlarged.
RebindForgotten(t, r, cols, S) == Outdated(t, r, S)
Rebound(t, r, cols, S) == IF S = {} THEN t ELSE Bound(r, cols)

Available(r) == rs[r].kind = "stmt" /\ rs[r].stmt \in stored /\ left[rs[r].stmt] > 0

Advance(s) ==
    /\ left' = [left EXCEPT ![s] = left[s] - 1]
    /\ UNCHANGED <<open, stored, owner>>

\* true: the row fits, or has been made to fit.
NextDelivers(r, row) ==
    /\ Available(r) /\ rs[r].sole /\ Live(rs[r].stmt)
    /\ LET s == rs[r].stmt
           S == Visited(r, s, row)
           after == Fetched(s, row)
           cols == [i \in Columns |->
                       IF i \in S THEN Enlarged(after[r].cols[i], row[i]) ELSE after[r].cols[i]]
       IN  /\ rs' = [after EXCEPT
                        ![r].cols = [i \in Columns |-> Terminated(cols[i])],
                        ![r].hasRow = TRUE, ![r].row = row, ![r].ended = FALSE]
           /\ target' = [target EXCEPT ![s] = Rebound(target[s], r, cols, S)]
           /\ Advance(s)

\* An exception at column j, whose buffer is new and empty; the columns before
\* it are enlarged.  Or mysql_stmt_bind_result() fails after the last one.
NextThrows(r, row) ==
    /\ Available(r) /\ rs[r].sole /\ Live(rs[r].stmt)
    /\ LET s == rs[r].stmt
           S == Visited(r, s, row)
           after == Fetched(s, row)
       IN  \E j \in S, refetched \in BOOLEAN :
             /\ refetched => \A i \in S : i <= j
             /\ rs' = [after EXCEPT
                   ![r].cols = [i \in Columns |->
                      CASE i \in S /\ (i < j \/ (i = j /\ refetched)) -> Enlarged(@[i], row[i])
                        [] i = j /\ ~refetched -> Emptied(@[i])
                        [] OTHER -> @[i]],
                   ![r].threw = TRUE]
             /\ target' = [target EXCEPT ![s] = Outdated(target[s], r, {i \in S : i <= j})]
             /\ Advance(s)

\* Two objects have used the handle: the fetch fills the buffers of the younger
\* one, the branch looks at the flags of the one that is read, and may bind the
\* handle to it.  The model follows the rows, and the buffers no further.
NextOfShared(r) ==
    /\ Available(r) /\ ~rs[r].sole
    /\ \/ rs' = [rs EXCEPT ![r].hasRow = TRUE, ![r].ended = FALSE]
       \/ rs' = [rs EXCEPT ![r].threw = TRUE]
    /\ Advance(rs[r].stmt)
    /\ UNCHANGED target

\* false: no row left, or no stored result, which the code takes for the same.
Answered(r) == [rs EXCEPT ![r].hasRow = FALSE, ![r].ended = TRUE]

NextEnds(r) ==
    /\ rs[r].kind = "stmt" /\ rs[r].stmt \in open /\ ~Available(r)
    /\ rs' = Answered(r)
    /\ UNCHANGED <<open, stored, left, target, owner>>

\* next() of a text result, and of an object that was moved from.
NextOfText(r, row) ==
    /\ rs[r].kind \in {"text", "moved"}
    /\ rs' = IF rs[r].rows = 0 THEN Answered(r)
             ELSE [rs EXCEPT ![r].rows = @ - 1, ![r].hasRow = TRUE, ![r].row = row]
    /\ UNCHANGED <<open, stored, left, target, owner>>

\* A handle that has been closed is used, or buffers that have been given back
\* are written to.
NextIsUndefined(r) ==
    /\ \/ rs[r].kind = "stmt" /\ rs[r].stmt \notin open
       \/ Available(r) /\ ~(rs[r].sole /\ Live(rs[r].stmt))
    /\ rs' = [rs EXCEPT ![r].kind = "lost"]
    /\ owner' = [s \in Stmt |-> IF owner[s] = r THEN None ELSE owner[s]]
    /\ UNCHANGED <<open, stored, left, target>>

-----------------------------------------------------------------------------
(* Moves and the end of an object                                          *)

Objects == {r \in Result : rs[r].kind \in {"stmt", "text", "moved"}}

Handles(r) == IF rs[r].kind = "stmt" THEN {rs[r].stmt} ELSE {}

\* mysql_stmt_free_result() by pointer, whoever the rows are for.
FreeRows(S) ==
    /\ stored' = stored \ S
    /\ left' = [s \in Stmt |-> IF s \in S THEN 0 ELSE left[s]]

MovedFromReadable == [NoResult EXCEPT !.kind = "moved", !.hasRow = TRUE]
MovedFrom == [NoResult EXCEPT !.kind = "moved"]

\* ResultSet(ResultSet&&): the buffers change hands and keep their addresses.
MoveConstruct(r, q) ==
    /\ r \in Objects /\ rs[q].kind = "none"
    /\ rs' = [rs EXCEPT ![q] = rs[r], ![r] = MovedFrom]
    /\ target' = [s \in Stmt |-> IF target[s].of = r THEN [target[s] EXCEPT !.of = q]
                                 ELSE target[s]]
    /\ owner' = [s \in Stmt |-> IF owner[s] = r THEN q ELSE owner[s]]
    /\ UNCHANGED <<open, stored, left>>

\* operator=(ResultSet&&): q frees the rows of the handle it has had, its
\* buffers go, and it takes over from r.
FreedTooLate(q, r) == Handles(r)
FreedFirst(q, r) == Handles(q)

MoveAssign(r, q) ==
    /\ r \in Objects /\ q \in Objects /\ r # q
    /\ Handles(q) \subseteq open
    /\ FreeRows(FreedFirst(q, r))
    /\ rs' = [rs EXCEPT ![q] = rs[r], ![r] = MovedFrom]
    /\ target' = [s \in Stmt |-> CASE target[s].of = q -> NoTarget
                                   [] target[s].of = r -> [target[s] EXCEPT !.of = q]
                                   [] OTHER -> target[s]]
    /\ owner' = [s \in Stmt |-> CASE owner[s] = q -> None
                                  [] owner[s] = r -> q
                                  [] OTHER -> owner[s]]
    /\ UNCHANGED open

\* ~ResultSet().
Drop(r) ==
    /\ r \in Objects /\ Handles(r) \subseteq open
    /\ FreeRows(Handles(r))
    /\ rs' = [rs EXCEPT ![r] = NoResult]
    /\ target' = [s \in Stmt |-> IF target[s].of = r THEN NoTarget ELSE target[s]]
    /\ owner' = [s \in Stmt |-> IF owner[s] = r THEN None ELSE owner[s]]
    /\ UNCHANGED open

-----------------------------------------------------------------------------
(* The getters                                                             *)

\* What check_column_index(), get_field_value() and get_field_length() let a
\* getter see of column i; the bytes of another row read as junk.
Seen(r, i) ==
    LET col == rs[r].cols[i]
    IN  CASE ~rs[r].hasRow -> Blank
          [] rs[r].hasRow /\ rs[r].kind # "stmt" -> rs[r].row[i]
          [] rs[r].hasRow /\ rs[r].kind = "stmt" /\ col.null -> Blank
          [] OTHER -> IF col.kept = col.len /\ col.nul = col.len THEN col.cell
                      ELSE [col.cell EXCEPT !.reads = "junk"]

\* strtoll() stays at the limits; errno is not looked at.
Saturated(n) == IF n > Max64 THEN Max64 ELSE IF n < -Max64 - 1 THEN -Max64 - 1 ELSE n

\* <<>> stands for an exception (or, in the _opt getters, NULL).
GetInt64(r, i) ==
    IF Seen(r, i).null \/ Seen(r, i).reads = "junk" THEN <<>>
    ELSE <<Saturated(Seen(r, i).num)>>

\* The range check of get_int32().
FitsButTheLeast(n) == -Max32 <= n /\ n <= Max32
Fits32(n) == -Max32 - 1 <= n /\ n <= Max32

GetInt32(r, i) ==
    IF GetInt64(r, i) # <<>> /\ Fits32(GetInt64(r, i)[1]) THEN GetInt64(r, i) ELSE <<>>

-----------------------------------------------------------------------------

Connections ==
    \/ \E s \in Stmt, n \in 0 .. MaxRows :
          QueryFails(s, n) \/ \E r \in Result : Query(s, r, n)
    \/ \E s \in Stmt : CloseHandle(s)
    \/ \E r \in Result, n \in 0 .. MaxRows : TextQuery(r, n)

Reading ==
    \/ \E r \in Result, row \in Row :
          NextDelivers(r, row) \/ NextThrows(r, row) \/ NextOfText(r, row)
    \/ \E r \in Result : NextOfShared(r) \/ NextEnds(r) \/ NextIsUndefined(r)

Handling ==
    \/ \E r, q \in Result : MoveConstruct(r, q) \/ MoveAssign(r, q)
    \/ \E r \in Result : Drop(r)

FetchNext == Connections \/ Reading \/ Handling

FetchSpec == FetchInit /\ [][FetchNext]_fetchVars

-----------------------------------------------------------------------------
(* Properties                                                              *)

\* Types; which objects have a handle; and the getters, which go by hasRow, find
\* one or a row of their own whenever it is TRUE.
FetchTypeOK ==
    /\ open \subseteq Stmt /\ stored \subseteq open
    /\ left \in [Stmt -> Nat]
    /\ target \in [Stmt -> [of : Result \cup {None}, size : [Columns -> Nat]]]
    /\ rs \in [Result -> ResultSet]
    /\ owner \in [Stmt -> Result \cup {None}]
    /\ \A r \in Result :
          /\ rs[r].kind = "stmt" => rs[r].stmt \in Stmt
          /\ rs[r].hasRow => rs[r].kind \in {"stmt", "text", "lost"} /\ ~rs[r].ended

\* The current row of a ResultSet is the one that the last next() fetched, whole
\* and terminated, and within its buffers ("走到这里时 buffer 一定能容纳 len+1",
\* result_set.cpp:473): for rows of any lengths in any order, after moves, and
\* also when the statement has been executed again for no result or closed in
\* between.  Not promised when two objects share a handle, or next() has thrown.
RowIsCurrent ==
    \A r \in Result :
       rs[r].kind = "stmt" /\ rs[r].hasRow /\ rs[r].sole /\ ~rs[r].threw =>
          \A i \in Columns :
             LET col == rs[r].cols[i]
                 cell == rs[r].row[i]
             IN  /\ col.null = cell.null
                 /\ ~cell.null => /\ col.cell = cell /\ col.len = cell.len
                                  /\ col.kept = col.len /\ col.nul = col.len
                                  /\ col.len <= col.size

\* The rows stored for a ResultSet would be written into its own buffers as they
\* are now, whatever has been moved, enlarged or destroyed since the binds were
\* copied ("否则下一行 fetch 会写入已释放内存", result_set.cpp:143).  Not promised
\* when two objects share a handle: with what one of them has seen truncated, the
\* next() of the other rebinds the handle to itself; nor when next() has thrown.
RowsReachTheirOwner ==
    \A s \in Stmt : owner[s] # None =>
       /\ Uses(owner[s], s)
       /\ rs[owner[s]].sole /\ ~rs[owner[s]].threw =>
             target[s] = Bound(owner[s], rs[owner[s]].cols)

\* next() of a ResultSet with its handle to itself, not executed again or closed
\* since, returns false after the last stored row only, although false also
\* stands for `no stored result' (result_set.cpp:168-171): no truncated value, no
\* exception, and no move or end of any object, which free rows by pointer, cuts
\* the result short.  Where two objects share a handle the older one's end does
\* free the younger one's rows (result_set.cpp:48, 84), and nothing is promised.
EndMeansEnd ==
    \A s \in Stmt :
       owner[s] # None /\ rs[owner[s]].ended /\ rs[owner[s]].sole =>
          s \in stored /\ left[s] = 0

Int32 == (-Max32 - 1) .. Max32
Int64 == (-Max64 - 1) .. Max64

\* An integer getter returns the number of the cell or throws: never a part of
\* another row, never a number cut to 32 bits.  (A number beyond long long comes
\* back as the largest one, and bytes after an embedded NUL are not noticed.)
IntegersExact ==
    \A r \in Result, i \in Columns :
       rs[r].hasRow /\ (rs[r].kind = "text" \/ (rs[r].sole /\ ~rs[r].threw)) =>
          LET cell == rs[r].row[i]
              isNumber == ~cell.null /\ cell.reads # "junk"
          IN  /\ GetInt32(r, i) = IF isNumber /\ cell.num \in Int32 THEN <<cell.num>> ELSE <<>>
              /\ cell.num \in Int64 \/ ~isNumber =>
                    GetInt64(r, i) = IF isNumber THEN <<cell.num>> ELSE <<>>
=============================================================================
