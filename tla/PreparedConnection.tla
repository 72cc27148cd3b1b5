------------------------- MODULE PreparedConnection -------------------------
(***************************************************************************)
(* One fox::mysql::Connection: its life cycle, its prepared statements and *)
(* the retry after a lost connection (src/src/connection.cpp,              *)
(* src/include/fox-mysql/connection_prepared.hpp), with as much of         *)
(* ResultSet as decides whose rows a statement handle has                  *)
(* (src/src/result_set.cpp).                                               *)
(*                                                                         *)
(* A Connection is used by one thread.  What interleaves with it is the    *)
(* server, which may end the session before, between and after the network *)
(* calls of one execute_prepared() or query_prepared(); each network call  *)
(* is therefore a step.  libmysqlclient is modelled by what it promises    *)
(* the code: a statement handle belongs to one session, keeps at most one  *)
(* stored result, and answers every call with success or an error code.    *)
(*                                                                         *)
(* A statement's text stands for its cache key (database and trimmed SQL). *)
(* An operator that no action uses and that stands right before the one it *)
(* resembles is a plausible slip in that piece of code.                    *)
(***************************************************************************)
EXTENDS Naturals, Sequences, FiniteSets, Functions

CONSTANTS
    Sql,        \* statement texts, up to their cache key
    Stmt,       \* addresses of MYSQL_STMT handles
    Result,     \* ResultSet objects the user may hold at a time
    None,
    Capacity    \* ConnectionConfig::stmt_cache_capacity

\* With capacity 0 get_or_prepare_stmt() takes the front of an empty deque.
ASSUME CapacityAssumption == Capacity \in Nat \ {0}
ASSUME NoneAssumption == None \notin Sql \cup Stmt \cup Result

VARIABLES
    \* the Connection object
    connected,   \* connected_
    handle,      \* mysql_ is not null
    cache,       \* stmt_cache_, least recently used first
    \* libmysqlclient and the server
    link,        \* the session of mysql_: "up" or "down"
    open,        \* MYSQL_STMT handles not closed yet
    known,       \* those the server's present session has prepared
    owner,       \* whose rows each statement handle has stored
    serverTxn,   \* the session has a transaction open
    \* the user
    rs,          \* the statement handle of each ResultSet
    userTxn,     \* the user is inside a transaction that has not failed
    \* the call in progress
    pc, sql, wantsRows, stmt, retried,
    \* history
    effects,     \* how often each attempt made the call's statement take effect
    outcome,     \* how the last call ended
    escaped      \* a statement of the transaction last begun took effect outside it

clientVars == <<connected, handle, cache>>
serverVars == <<link, open, known, owner, serverTxn>>
userVars   == <<rs, userTxn>>
callVars   == <<pc, sql, wantsRows, stmt, retried>>
histVars   == <<effects, outcome, escaped>>
vars       == <<clientVars, serverVars, userVars, callVars, histVars>>

\* "reset", "run" and "store" are the network calls of an attempt; "recover"
\* and "reprepare" those of handle_stmt_error_with_retry().
PC == {"idle", "get", "reset", "run", "store", "recover", "reprepare"}

\* "freed": the error was read from a statement handle already closed.
Outcome == {"none", "ok", "error", "freed"}

Cached == {cache[i].stmt : i \in DOMAIN cache}

NoEffect == [first |-> 0, retry |-> 0]

-----------------------------------------------------------------------------

\* A new session: no statement is known to it, no transaction is open.  The
\* statement handles of the old session stay open, and useless.
Init ==
    /\ connected = TRUE /\ handle = TRUE /\ cache = <<>>
    /\ link = "up" /\ open = {} /\ known = {}
    /\ owner = [s \in Stmt |-> None]
    /\ serverTxn = FALSE
    /\ rs = [r \in Result |-> None] /\ userTxn = FALSE
    /\ pc = "idle" /\ sql = None /\ wantsRows = FALSE /\ stmt = None /\ retried = FALSE
    /\ effects = NoEffect /\ outcome = "none" /\ escaped = FALSE

\* mysql_stmt_close() on the handles in S frees their rows too.
CloseStmts(S) ==
    /\ open' = open \ S
    /\ known' = known \ S
    /\ owner' = [s \in Stmt |-> IF s \in S THEN None ELSE owner[s]]

ClearCache ==
    /\ CloseStmts(Cached)
    /\ cache' = <<>>

\* The call ends; a failure is the end of the user's transaction, too.
End(how) ==
    /\ outcome' = how
    /\ userTxn' = (userTxn /\ how = "ok")
    /\ pc' = "idle" /\ sql' = None /\ wantsRows' = FALSE /\ stmt' = None
    /\ retried' = FALSE

Goto(step) ==
    /\ pc' = step
    /\ UNCHANGED <<sql, wantsRows, stmt, retried, userTxn, outcome>>

-----------------------------------------------------------------------------
(* The life of the connection                                              *)

\* The server or the network ends the session: the server forgets its
\* statements and rolls its transaction back.  The client learns nothing yet.
Lost ==
    /\ link' = "down"
    /\ known' = {}
    /\ serverTxn' = FALSE

SessionEnds ==
    /\ handle /\ link = "up"
    /\ Lost
    /\ UNCHANGED <<clientVars, open, owner, userVars, callVars, histVars>>

\* connect(): nothing to do on a connection believed to be open.  Otherwise the
\* session is new and the statements of the old one are closed.
KeepStmts == UNCHANGED <<cache, open, known, owner>>
ForgetStmts == ClearCache

Connect ==
    /\ pc = "idle" /\ ~connected
    /\ handle' = TRUE
    /\ \/ /\ connected' = TRUE /\ link' = "up" /\ serverTxn' = FALSE
          /\ ForgetStmts
          /\ UNCHANGED <<userVars, outcome>>
       \/ /\ link' = "down"
          /\ userTxn' = FALSE /\ outcome' = "error"
          /\ UNCHANGED <<connected, cache, open, known, owner, serverTxn, rs>>
    /\ UNCHANGED <<callVars, effects, escaped>>

\* close(), and ~Connection(), which does nothing more.
FreeHandleOnly == handle' = FALSE /\ UNCHANGED connected
FreeHandle == handle' = FALSE /\ connected' = FALSE

Close ==
    /\ pc = "idle" /\ handle
    /\ ClearCache
    /\ FreeHandle
    /\ link' = "down" /\ serverTxn' = FALSE
    /\ userTxn' = FALSE
    /\ UNCHANGED <<rs, callVars, histVars>>

\* ping() finds out that the session has ended: it throws, and reconnects not.
PingReconnects ==
    /\ pc = "idle" /\ connected /\ link = "down"
    /\ link' = "up" /\ serverTxn' = FALSE
    /\ ForgetStmts
    /\ outcome' = "ok"
    /\ UNCHANGED <<connected, handle, userVars, callVars, effects, escaped>>
PingThrows ==
    /\ pc = "idle" /\ connected /\ link = "down"
    /\ connected' = FALSE
    /\ userTxn' = FALSE /\ outcome' = "error"
    /\ UNCHANGED <<handle, cache, serverVars, rs, callVars, effects, escaped>>

\* begin_transaction(), commit(), rollback(): one text statement each.  Nothing
\* of a new transaction has taken effect yet.
Transact(begins) ==
    /\ pc = "idle" /\ connected /\ link = "up"
    /\ serverTxn' = begins /\ userTxn' = begins
    /\ outcome' = "ok" /\ escaped' = (escaped /\ ~begins)
    /\ UNCHANGED <<clientVars, link, open, known, owner, rs, callVars, effects>>

\* A text statement that fails: the connection is known to be closed, the session
\* has ended (connected_ stays true), the server refuses the statement, or it
\* has no result set for query().
TextThrows ==
    /\ pc = "idle"
    /\ userTxn' = FALSE /\ outcome' = "error"
    /\ UNCHANGED <<clientVars, serverVars, rs, callVars, effects, escaped>>

-----------------------------------------------------------------------------
(* get_or_prepare_stmt()                                                   *)

\* execute_prepared() or query_prepared() is called.
Call(text, rows) ==
    /\ pc = "idle" /\ connected
    /\ rows => \E r \in Result : rs[r] = None
    /\ pc' = "get" /\ sql' = text /\ wantsRows' = rows
    /\ effects' = NoEffect
    /\ UNCHANGED <<clientVars, serverVars, userVars, stmt, retried, outcome, escaped>>

Hit(i) == cache[i].sql = sql
NoHit == \A i \in DOMAIN cache : ~Hit(i)

Without(i) == SubSeq(cache, 1, i - 1) \o SubSeq(cache, i + 1, Len(cache))

GetHitsInPlace ==
    /\ pc = "get" /\ connected
    /\ \E i \in DOMAIN cache : Hit(i) /\ stmt' = cache[i].stmt
    /\ pc' = "reset"
    /\ UNCHANGED <<clientVars, serverVars, userVars, sql, wantsRows, retried, histVars>>
GetHits ==
    /\ pc = "get" /\ connected
    /\ \E i \in DOMAIN cache :
          /\ Hit(i)
          /\ cache' = Append(Without(i), cache[i])
          /\ stmt' = cache[i].stmt
    /\ pc' = "reset"
    /\ UNCHANGED <<connected, handle, serverVars, userVars, sql, wantsRows, retried, histVars>>

\* The entry used least recently makes room.
FullOffByOne == Len(cache) > Capacity
Full == Len(cache) >= Capacity
VictimsStayOpen == {}
Victims == IF Full THEN {cache[1].stmt} ELSE {}

\* mysql_stmt_init() and mysql_stmt_prepare() have succeeded.
Remember(s) ==
    /\ cache' = Append(IF Full THEN Tail(cache) ELSE cache, [sql |-> sql, stmt |-> s])
    /\ open' = (open \ Victims) \cup {s}
    /\ known' = (known \ Victims) \cup {s}
    /\ owner' = [x \in Stmt |-> IF x \in Victims THEN None ELSE owner[x]]

GetPrepares ==
    /\ pc = "get" /\ connected /\ NoHit /\ link = "up"
    /\ \E s \in Stmt \ open : Remember(s) /\ stmt' = s
    /\ pc' = "reset"
    /\ UNCHANGED <<connected, handle, link, serverTxn, userVars, sql, wantsRows,
                   retried, histVars>>

\* The statement cannot be prepared, or the session has ended: the new handle
\* is closed, then its error is read.  Or mysql_stmt_init() gives no handle.  The
\* loop does not retry this.
GetThrows ==
    /\ pc = "get" /\ connected /\ NoHit
    /\ End("freed") \/ End("error")
    /\ UNCHANGED <<clientVars, serverVars, rs, effects, escaped>>

-----------------------------------------------------------------------------
(* One attempt of the loop in execute_prepared_with, query_prepared_with   *)

\* What the code does with a recoverable error of a network call: the session
\* has ended, or the server wants the statement prepared again.
FailRecoversAlways == Goto("recover")
Fail ==
    IF retried THEN End("error") ELSE Goto("recover")

\* Any other error, a number of parameters that bind_fn() rejects, a statement
\* without rows given to query_prepared(): an exception at once.
AttemptThrows ==
    /\ pc \in {"reset", "run", "store"}
    /\ End("error")
    /\ UNCHANGED <<clientVars, serverVars, rs, effects, escaped>>

\* mysql_stmt_reset() need not ask the server.
ResetSucceeds ==
    /\ pc = "reset"
    /\ Goto("run")
    /\ UNCHANGED <<clientVars, serverVars, rs, effects, escaped>>

ResetFails ==
    /\ pc = "reset"
    /\ Fail
    /\ UNCHANGED <<clientVars, serverVars, rs, effects, escaped>>

\* mysql_stmt_execute() discards the rows that the handle still had.
Discard == owner' = [owner EXCEPT ![stmt] = None]

\* The statement takes effect on the server; outside of any transaction there
\* it is committed at once.
TakesEffectOnce ==
    /\ effects' = IF retried THEN effects ELSE [effects EXCEPT !.first = @ + 1]
    /\ escaped' = (escaped \/ (userTxn /\ ~serverTxn))
TakesEffect ==
    /\ effects' = IF retried THEN [effects EXCEPT !.retry = @ + 1]
                  ELSE [effects EXCEPT !.first = @ + 1]
    /\ escaped' = (escaped \/ (userTxn /\ ~serverTxn))

RunSucceeds ==
    /\ pc = "run" /\ stmt \in known
    /\ Discard
    /\ TakesEffect
    /\ IF wantsRows THEN Goto("store") ELSE End("ok")
    /\ UNCHANGED <<clientVars, link, open, known, serverTxn, rs>>

RunFails ==
    /\ pc = "run"
    /\ Discard
    /\ Fail
    /\ UNCHANGED <<clientVars, link, open, known, serverTxn, rs, effects, escaped>>

\* The session ends after the server has executed the statement and before its
\* answer has arrived: recoverable as well.
RunLosesAnswer ==
    /\ pc = "run" /\ stmt \in known
    /\ Discard
    /\ TakesEffect
    /\ Lost
    /\ Fail
    /\ UNCHANGED <<clientVars, open, rs>>

StoreSucceeds ==
    /\ pc = "store" /\ stmt \in known
    /\ \E r \in Result :
          /\ rs[r] = None
          /\ rs' = [rs EXCEPT ![r] = stmt]
          /\ owner' = [owner EXCEPT ![stmt] = r]
    /\ End("ok")
    /\ UNCHANGED <<clientVars, link, open, known, serverTxn, effects, escaped>>

StoreFails ==
    /\ pc = "store" /\ link = "down"
    /\ Fail
    /\ UNCHANGED <<clientVars, serverVars, rs, effects, escaped>>

-----------------------------------------------------------------------------
(* handle_stmt_error_with_retry()                                          *)

\* The cache is cleared, the failed handle with it.  mysql_ping() answers, or
\* the connection is made anew.
RecoverSucceeds ==
    /\ pc = "recover"
    /\ ClearCache
    /\ \/ link = "up" /\ UNCHANGED <<link, serverTxn>>
       \/ link = "down" /\ link' = "up" /\ serverTxn' = FALSE
    /\ Goto("reprepare")
    /\ UNCHANGED <<connected, handle, rs, effects, escaped>>

\* connect() throws: "the original error" is read from the closed handle.
RecoverThrows ==
    /\ pc = "recover" /\ link = "down"
    /\ ClearCache
    /\ connected' = FALSE
    /\ End("freed")
    /\ UNCHANGED <<handle, link, serverTxn, rs, effects, escaped>>

\* The statement is prepared once more on trial and closed; the loop goes round.
GoRoundForever ==
    /\ pc' = "get" /\ stmt' = None
    /\ UNCHANGED <<sql, wantsRows, retried, userTxn, outcome>>
GoRound ==
    /\ pc' = "get" /\ stmt' = None /\ retried' = TRUE
    /\ UNCHANGED <<sql, wantsRows, userTxn, outcome>>

ReprepareSucceeds ==
    /\ pc = "reprepare" /\ link = "up"
    /\ GoRound
    /\ UNCHANGED <<clientVars, serverVars, rs, effects, escaped>>

ReprepareThrows ==
    /\ pc = "reprepare"
    /\ End("freed")
    /\ UNCHANGED <<clientVars, serverVars, rs, effects, escaped>>

-----------------------------------------------------------------------------
(* The user's ResultSet                                                    *)

\* ~ResultSet() frees the rows of the statement handle, whoever they are for.
\* A handle that has been closed is not to be touched; what then happens is
\* not defined, and the model lets it have no effect.
DropResult(r) ==
    /\ pc = "idle" /\ rs[r] # None
    /\ owner' = IF rs[r] \in open THEN [owner EXCEPT ![rs[r]] = None] ELSE owner
    /\ rs' = [rs EXCEPT ![r] = None]
    /\ UNCHANGED <<clientVars, link, open, known, serverTxn, userTxn, callVars, histVars>>

-----------------------------------------------------------------------------

Get == GetHits \/ GetPrepares \/ GetThrows
Attempt ==
    \/ ResetSucceeds \/ ResetFails
    \/ RunSucceeds \/ RunFails \/ RunLosesAnswer
    \/ StoreSucceeds \/ StoreFails
    \/ AttemptThrows
Recovery == RecoverSucceeds \/ RecoverThrows \/ ReprepareSucceeds \/ ReprepareThrows
InCall == Get \/ Attempt \/ Recovery

Next ==
    \/ SessionEnds \/ Connect \/ Close \/ PingThrows \/ TextThrows
    \/ \E begins \in BOOLEAN : Transact(begins)
    \/ \E text \in Sql, rows \in BOOLEAN : Call(text, rows)
    \/ InCall
    \/ \E r \in Result : DropResult(r)

Spec == Init /\ [][Next]_vars

\* A call in progress goes on: every network call comes back (the options set
\* in connect() include read and write timeouts).
FairSpec == Spec /\ WF_vars(InCall)

-----------------------------------------------------------------------------
(* Properties                                                              *)

\* Types, and what the position in a call says of its locals; a connection
\* that claims to be open has a MYSQL object (is_connected()).
TypeOK ==
    /\ connected \in BOOLEAN /\ handle \in BOOLEAN /\ (connected => handle)
    /\ cache \in Seq([sql : Sql, stmt : Stmt])
    /\ link \in {"up", "down"}
    /\ open \subseteq Stmt /\ known \subseteq Stmt
    /\ owner \in [Stmt -> Result \cup {None}]
    /\ rs \in [Result -> Stmt \cup {None}]
    /\ {serverTxn, userTxn, wantsRows, retried, escaped} \subseteq BOOLEAN
    /\ pc \in PC /\ outcome \in Outcome /\ effects \in [first : Nat, retry : Nat]
    /\ sql \in IF pc = "idle" THEN {None} ELSE Sql
    /\ stmt \in IF pc \in {"idle", "get"} THEN {None} ELSE Stmt

\* The cache holds a text once and a handle once, and never more entries than
\* stmt_cache_capacity: get_or_prepare_stmt() searches, moves, evicts and
\* appends in an order that keeps this so.
CacheIsAMap ==
    /\ Len(cache) <= Capacity
    /\ \A i, j \in DOMAIN cache :
          i # j => cache[i].sql # cache[j].sql /\ cache[i].stmt # cache[j].stmt

\* Between any two steps the open handles are exactly the cached ones: no path
\* through eviction, recovery, close() or an exception leaks a MYSQL_STMT, or
\* leaves one in the cache that has been closed.
StatementsAccounted == open = Cached

\* No statement of an earlier session is in the cache of a connection whose
\* session is alive: "重连后清空预编译语句缓存", connection.cpp.
CacheOfThisSession == connected /\ link = "up" => Cached \subseteq known

\* Neither attempt of a call makes its statement take effect more than once, and
\* the second not before a recovery ("可恢复错误重试一次").
RetriedOnce ==
    /\ effects.first <= 1
    /\ effects.retry <= IF retried \/ pc = "idle" THEN 1 ELSE 0

\* A call that returns normally has run its statement in the attempt that
\* returned, whatever an earlier attempt did, and left it the last one to be
\* evicted.
SuccessIsReal ==
    [][pc # "idle" /\ pc' = "idle" /\ outcome' = "ok"
         => /\ IF retried THEN effects'.retry = 1 ELSE effects'.first = 1
            /\ cache' # <<>> /\ cache'[Len(cache')] = [sql |-> sql, stmt |-> stmt]]_vars

\* The cache is one of StatementCache: every attempt gets the handle of its text,
\* and keeps it open; a full cache gives up the text whose last use is the
\* longest ago, whichever calls succeeded, failed or were retried in between.
Texts == {cache[i].sql : i \in DOMAIN cache}
HandleOf(text) == cache[CHOOSE i \in DOMAIN cache : cache[i].sql = text].stmt
LaterUse ==
    {p \in Texts \X Texts :
        \E i, j \in DOMAIN cache : i < j /\ p = <<cache[j].sql, cache[i].sql>>}

TheCache == INSTANCE StatementCache WITH
    Key <- Sql, Handle <- Stmt, NoHandle <- None,
    entries <- [text \in Texts |-> HandleOf(text)], newer <- LaterUse,
    inUse <- IF pc \in {"reset", "run", "store"} THEN stmt ELSE None

ImplementsCache == TheCache!CacheSpec

\* Every call ends, whatever the server does and however often sessions end.
CallEnds == pc # "idle" ~> pc = "idle"

\* "重试失败，抛出原始错误": the exception of a failed recovery carries the
\* original error (connection.cpp, handle_stmt_error_with_retry()).
ErrorIsOriginal ==
    [][(pc = "recover" \/ pc = "reprepare") /\ pc' = "idle" => outcome' # "freed"]_vars

\* "事务：支持 begin_transaction() → 多次 prepared 执行 → commit/rollback"
\* (specs/spec-prepare.md): the statements of a transaction are part of it.
TransactionIsWhole == ~escaped

\* The call's statement takes effect in this step.
HasEffect == effects'.first > effects.first \/ effects'.retry > effects.retry

\* A retry is the only way out of a transaction: when a statement takes effect
\* outside of the transaction the user is in, that is a retry, or a retry in the
\* same transaction has done so before and reported a success.  No lost session,
\* ping, reconnect or failed call before or within a transaction leads a first
\* attempt out of it.
OnlyRetryEscapes ==
    [][HasEffect /\ userTxn /\ ~serverTxn => retried \/ escaped]_vars

\* "与非 prepared 的 ResultSet 完全一致" (specs/spec-prepare.md): a ResultSet of
\* query_prepared() can be read for as long as it lives, as one of query() can;
\* a later prepared call on the connection does not take its rows away.
RowsStayReadable ==
    [][\A r \in Result :
          pc # "idle" /\ rs[r] # None /\ owner[rs[r]] = r => owner'[rs[r]] = r]_vars
=============================================================================
