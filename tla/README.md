# fox-mysql in TLA+

A verification project for fox-mysql, a C++ client library on top of
libmysqlclient: a connection with prepared statements and a retry after lost
sessions, result sets, and a thread-safe connection pool.

| file | what it is |
| --- | --- |
| `ConnectionPool.tla` | the pool and its handles (`src/src/pool.cpp`) |
| `LeaseDesk.tla` | what a pool promises: the abstract specification |
| `ConnectionPoolProofs.tla` | theorems about the pool, for any number of threads and any options: typing, ownership, counters |
| `PoolServiceProofs.tla` | more of them: the queue, what is handed out, the minimum, the refinement of the desk |
| `MCConnectionPool.tla`, `Pool*.cfg` | the instances TLC checks |
| `PreparedConnection.tla` | one connection: life cycle, statement cache, retry (`src/src/connection.cpp`, `connection_prepared.hpp`) |
| `StatementCache.tla` | what a cache of statements promises: the abstract specification |
| `PreparedConnectionProofs.tla` | theorems about the connection, for any statements and any capacity of the cache |
| `StatementCacheProofs.tla` | the deque of the code implements the cache |
| `ParamBinding.tla` | how arguments reach libmysqlclient (`connection_prepared.hpp`, `connection.cpp`) |
| `PreparedCall.tla` | a connection and its binding of arguments, composed |
| `PreparedCallProofs.tla` | theorems about the composition |
| `MCPreparedCall.tla`, `PreparedCall.cfg`, `PreparedMove.cfg` | the instances of the composition |
| `MCPreparedConnection.tla`, `PreparedError.cfg`, `PreparedTransaction.cfg`, `PreparedRows.cfg` | the instances of the connection alone |
| `ResultFetch.tla` | result sets: `next()`, moves, getters (`src/src/result_set.cpp`) |
| `ResultFetchProofs.tla` | theorems about them, for any columns and rows of any lengths |
| `MCResultFetch.tla`, `ResultFetch.cfg` | the instance TLC checks |
| `PROJECT.json` | components, runs, mutants, source map, findings, hazards, theorems |

In this directory, `tlc -config PoolSafety.cfg MCConnectionPool` checks an
instance, `tlapm ConnectionPoolProofs.tla` (and the same for the other modules
named `...Proofs`) the proofs.


## 1. Inventory

### Components

**ConnectionPool** (`pool.cpp`, `pool.h`).
State: `mutex_`, `condition_`, the FIFO `idle_connections_` of connections with
their `last_used`, the atomics `total_connections_`, `shutdown_` and the
statistics. Operations: constructor with warm-up, `acquire()`,
`release_connection()` (from the handle), destructor, `size()`,
`idle_count()`. Interaction: threads call it concurrently; it calls
`Connection` (connect, ping, close, rollback) with the mutex held, so that a
slow server holds up every thread. Hard: the acquire loop has six ways out and
three ways round; waiters, deadlines and spurious wake-ups; connections that die
in the queue; a creation that fails; a destructor that does not wait for
anybody. Correct when: no connection is in two places or lost, the counters tell
the truth, `max_size` and `min_size` hold, borrowers get usable sessions that
are free of other people's transactions, and every call ends.

**PooledConn** (`pool.cpp`, `pool.h`). State: `conn_`, `pool_`. Operations:
move, `reset()`, destructor. Correct when a connection is returned once, by the
last handle that owned it, to a pool that exists.

**Connection: life cycle** (`connection.cpp`). State: `mysql_`, `connected_`,
`current_database_`, the statement cache. Operations: constructor, moves,
`connect()`, `close()`, `ping()`. `connected_` is what the object believes; the
server may think otherwise at any time. Correct when no statement of an earlier
session is used in a later one.

**Connection: text statements and transactions**. `query()`, `execute()`,
`begin_transaction()`, `commit()`, `rollback()`. No retry, no reconnect.

**Prepared statement cache**. A deque of (key, `MYSQL_STMT`) with a capacity,
the statement used least recently in front. Correct when it is a map, never
exceeds its capacity, and its handles are exactly the open ones.

**Prepared execution and retry** (`connection_prepared.hpp`,
`handle_stmt_error_with_retry()`). get, reset, bind, execute, store; on one of
four error codes: clear the cache, ping or reconnect, prepare on trial, go
round once. Hard: the session may end between any two of these calls, also
after the server has executed the statement. Correct when every call ends, runs
its statement when it says so, and says what went wrong when it does not.

**Parameter binding** (`connection_prepared.hpp`, `connection.cpp`). State:
`param_binds_`, `param_string_buffers_`, `param_scalar_buffers_` of the
connection, and the copy of the binds that libmysqlclient keeps. A bind is a
pointer into a vector that moves when it grows, read later, when the statement
is executed, and once more on a retry. Correct when the server is sent the
caller's arguments, each in its place, by every attempt (which the code does not
achieve for a moved string, section 4).

**ResultSet** (`result_set.cpp`, `result_set.h`). State: the rows of a text
result; or a `MYSQL_STMT` that the cache owns, with buffers, lengths, flags, and
the library's copy of their addresses. Operations: construction, `next()` with
truncation and rebinding, getters that convert, moves, destructor. Hard: three
parties (cache, object, library) refer to one handle by pointer; buffers are
replaced in the middle of a row; an exception in that middle. Correct when the
row that a getter sees is the one last fetched, whole; when the library writes to
buffers that exist; and when `false` means the end.

**Configuration, exceptions** (`types.h`, `exception.h`): data.
**libmysqlclient and the server**: external.
**Examples, tests, build files, documents**: read for what they claim.

### What is hard to test

Listed line by line as `hazards` in `PROJECT.json`. The ones the models are
built around: the gap between the capacity test and the increment; a counter
that wraps; lost, stolen and missing wake-ups; a session that ends between two
network calls; a statement handle used after it was closed; a retry inside a
transaction; a destructor that races with waiters and borrowers; pointers into
vectors that move, on the way to the server and on the way back.


## 2. The pool

### From code to model

| code | model |
| --- | --- |
| `mutex_`, `condition_` | `lock`; threads with `pc` `"asleep"`, `"woken"` |
| `idle_connections_`, `last_used` | `idle`, `age` (time since) |
| `total_connections_` | `total`, in `0..SizeMax`, wrapping |
| `created_total_ - destroyed_total_` | `netCreated` |
| `shutdown_`, construction and destruction | `shutdown`, `life` |
| a local `conn` or `pool_conn` in a call | `hand[t]` |
| the `PooledConn` handles of a thread | `held[t]` |
| the deadline of `acquire()` | `timer[t]` (time left) |
| `Connection` objects; `connected_`, session, transaction | `live`; `sess` |

`acquire()` is split where something can happen although the mutex is held: the
atomic `shutdown_` is raised without it, the server acts during `ping()`,
connect and `rollback()`, and time passes. Everything between two such points is
one action: `Acquire`; then `LoopThrowsShutdown` or `LoopCleans`; then one of
`TakeDropsStale`, `TakeChecks` (then `Check`), `TakeReturns`, `TakeCreates`
(then `Create` or `CreateThrows`), `TakeWaits` (then `DeadlinePasses`,
`SpuriousWake` or a notification; then `WaitReturns` or `WaitTimesOut`).
`release_connection()` is `ReleaseDestroys`, `ReleaseReturns`, or
`ReleaseRollsBack` and then `RollbackSucceeds` or `RollbackFails`; the branch
for `QueryException` has no action, because no path of `rollback()` throws one.
The destructor is `RaiseFlag`, `NotifyAll`, `Drain`; the first two do not take
the mutex, as in the code.

`wait_until()` is modelled as the standard defines it: it may wake at any time,
and once it has the mutex back it compares the clock with the deadline, so that
a thread that was notified can still report a timeout.

What follows the use of a destroyed pool is undefined; the thread is frozen as
`"lost"`, and nothing is claimed about it.

Users may begin and finish transactions, close and reopen connections, hand
handles to other threads and give them back in any order. They destroy the pool
at any time: the C++ object permits it, and the documents say what is to happen.

### Abstractions and bounds

* Time is relative, so that no clock grows: `Tick` ages idle connections and
  shortens deadlines, at any moment. `AgeCap` bounds the ages; it is at least
  both thresholds, hence no comparison of the code sees the bound.
* `Conn` is the heap. A run needs one address more than `MaxSize`, or an excess
  over it could not show.
* `SizeMax` is 3 in most runs: it stands for 2^64 - 1, is above `MaxSize`, and
  wraps within reach.
* Three threads is where a notification can go to the wrong one of two waiters.
  Addresses and threads are symmetric (except under liveness).
* The statistics that nothing reads are left out.

### Runs

| run | instance | shows |
| --- | --- | --- |
| `pool_safety` | 3 threads, sizes 1..2, all options on | `TypeOK`, `HeapIsOwned`, `Exclusive`, `LedgerMatchesHeap`, `CapacityRespected`, `IdleIsOrdered`, `IdleIsClean`, `HandoverIsSound`, `CleanupKeepsMinimum`, `HolderAdvances`, and the refinement `ImplementsDesk` |
| `pool_plain` | 2 threads, sizes 1..3, all options off | the other paths, a cleanup of several connections at once: `LedgerMatchesHeap`, `MinimumKept`, `CleanupIsComplete` |
| `pool_liveness` | 2 threads, 1 connection | `AcquireEnds`, `DestructorEnds` under `FairSpec` |
| `pool_count` | | a failed creation falsifies `size()` (finding) |
| `pool_wakeup` | | a destroyed return wakes nobody (finding) |
| `pool_destroy` | | a handle outlives the pool (finding) |

The weakest assumption that a property needs is part of it: `LedgerMatchesHeap`
and `CapacityRespected` hold until a creation has failed. That is a defect of
the code and not of the model (`pool_count` shows it), and the history variable
`createFailed` says exactly how far the promise goes. `MinimumKept` is about the
options under which nothing but expiry destroys connections; with them on, the
code falls below `min_size` and refills on demand.

`CleanupKeepsMinimum` and `CleanupIsComplete` are about the connections that
exist, while the cleanup goes by the counter. A counter that is too high after
failed creations (it wraps at 0) misleads it into removing the last connection;
with one that is too low it leaves old ones in the queue. Both properties except
just these cases and no others: `createFailed /\ total > Cardinality(live)` is the
first. That they may occur is the finding `pool_count`.

`CleanupIsComplete` is why the cleanup may stop at the first young connection;
it is checked where several connections can expire at once. `HolderAdvances` is
the part of `AcquireEnds` that needs no fairness: it counts the steps a thread
can take before it gives up the mutex, so that only the wait for the mutex and
for the deadline is left to the scheduler.

**Fairness.** A thread that holds the mutex is scheduled and its network calls
return (the options set in `connect()` bound them): WF of its steps. A deadline
that has passed wakes its thread: WF. Time passes: WF. A woken thread, and the
destructor, get a mutex that is free again and again: SF. `std::mutex` promises
no such thing, but without it any program that uses one may starve; with WF in
its place TLC shows exactly that starvation. Nobody is assumed to return a
connection, to stop using the pool, or to destroy it. A spurious wake-up is
never required, and may happen for ever.

### The abstract specification

`LeaseDesk` knows where each item is (absent, on the shelf, with a borrower)
and a capacity that holds until an order fails. Refinement mapping: connections
in the queue, being checked or being rolled back are on the shelf; those in a
thread's handles are leased to it. A step that moved a connection straight from
one thread to another other than by a handed-over handle, that created one out of
turn, or that leaked one, would not be a step of the desk. TLC checks it on the
instance of `pool_safety`, and `PoolIsADesk` proves it.

### What is proved

`ConnectionPoolProofs` and `PoolServiceProofs` prove, for every set of threads,
finite heap, sizes and options allowed by the three assumptions of
`ConnectionPool`:

| theorem | property |
| --- | --- |
| `TypeCorrect`, `TypesAreKept` | typing and mutual exclusion, `TypeOK` |
| `HeapIsAlwaysOwned` | `HeapIsOwned` |
| `ExclusiveOwnership` | `Exclusive` |
| `LedgerAlwaysMatchesHeap` | `LedgerMatchesHeap` |
| `CapacityAlwaysRespected` | `CapacityRespected` |
| `QueueAlwaysOrdered` | `IdleIsOrdered` |
| `QueueAlwaysClean` | `IdleIsClean` |
| `HandoverAlwaysSound` | `HandoverIsSound` |
| `MinimumAlwaysKept` | `MinimumKept` |
| `CleanupAlwaysStops` | `CleanupKeepsMinimum` |
| `CleanupAlwaysCompletes` | `CleanupIsComplete` |
| `HolderAlwaysAdvances` | `HolderAdvances` |
| `PoolIsADesk` | `ImplementsDesk` |

The assumptions are those the constructor enforces (`min_size` at least 1 and
at most `max_size`), that a `size_t` can hold `max_size`, that options are
natural numbers, and that the heap is finite.

The inductive invariant grows in three layers, each proved with the ones before.

1. `TypeInv` is `TypeOK` with `HandInUse` (a call has a connection in a local
   variable exactly while it checks it or rolls it back) and `MutexHeld`
   (`lock = t` exactly while `t` is in a critical section). Without the last one,
   `Leave`, which frees the mutex, could free somebody else's.
2. `OwnInv` adds `Owned` and `Exclusive`. Neither is inductive alone: a removal
   from the queue keeps the heap owned only if the connection was not there
   twice, and a connection given back is in no other handle only because each was
   in one place before. Lemmas say what `Append`, `Tail` and `SubSeq` do to the
   range of an injective sequence.
3. `CountInv` adds the counters, the life cycle (`Phase`: nobody uses a pool that
   is not open; the counter stays below `min_size` during the warm-up; no critical
   section survives the destructor) and `GrowthIsCovered` (the capacity test of a
   thread about to create is still true: only the holder of the mutex changes the
   counter upwards). That last conjunct is why the gap between the test and the
   increment is harmless. The cleanup removes k connections at once and needs
   `PrefixCardinality`: the first k entries of an injective queue are k.

`PoolServiceProofs` starts from there. The lemma `QueueSteps` reduces every
action to what it does to the queue: nothing, a prefix gone, one entry appended
with age 0 (`NoAge`: that of a new connection is 0), one unit of time; the order
survives each of them. `HandoverIsSound`
needs `CheckedIsClean`: a connection under a health check has come out of a clean
queue and has not been in a borrower's hands since. `MinimumInv` says that
without health checks and rollbacks nobody is in the middle of one, so that
expiry is the only way a connection goes, and `CleanupStops` that this one leaves
`min_size` by the counter. `CleanupTakesBoth` carries that over to the heap: a
cleanup takes as many from the one as from the other, so that their difference
stays what it was, which `CountInv` says is nothing until a creation has failed.
`CleanupCompletes` applies the order of the queue to the rest of it:
what is behind a connection that is too young to go is younger still.
`HolderAdvances` follows from the measure `WorkLeft`, four times the length of
the queue and the position in the loop: a round costs a connection of the queue,
and by `MutexHeld` (`HolderIsAlone`) nobody else touches the queue meanwhile.
For the refinement `PlaceOK` says that the desk's map of
places, which is computed from queue, locals and handles, is a function: no
connection has two places (`Exclusive`) and each one that exists has one
(`HeapIsOwned`). The capacity of the desk follows from `CountInv`.

`AcquireEnds` and `DestructorEnds` rest on fairness, which is out of the
prover's reach; they stay with TLC.


## 3. A connection and its prepared statements

### From code to model

| code | model |
| --- | --- |
| `connected_`, `mysql_` | `connected`, `handle` |
| `stmt_cache_` | `cache`, a sequence of text and handle |
| the session | `link`, `known` (its statements), `serverTxn` |
| `MYSQL_STMT` objects | `open`; `owner` tells whose rows one has stored |
| a user's `ResultSet` objects | `rs` (their `stmt_`) |
| a call in progress and its locals | `pc`, `sql`, `wantsRows`, `stmt`, `retried` |

A connection is used by one thread. What interleaves is the server:
`SessionEnds` can happen at every point, and the server may have executed a
statement whose answer gets lost (`RunLosesAnswer`). Each network call of a
prepared call is one action. `execute_prepared_with()` and
`query_prepared_with()` differ in `wantsRows`. Recovery is two actions, one
for the cache with ping and reconnect, one for the trial prepare. `TextThrows` is
any failure of a text statement, refused by the server or not sent; `GetThrows` any
of a prepare, with the error read from the handle that was closed (`"freed"`) or,
when `mysql_stmt_init()` gave none, from the connection (`"error"`).

libmysqlclient is external. It is trusted to do three things: a handle belongs
to one session and keeps one stored result, executing a handle discards the rows
it had, and every call returns. It is not trusted to return success: any call
may fail with a recoverable or an unrecoverable error.

A text stands for its cache key. `current_database_` changes in `connect()`
only, to the same value each time, so the key distinguishes texts and nothing
else; that a `USE` leaves it behind is listed as a hazard.

`TransactionIsWhole` needs to know what the user believes: `userTxn` is true
from `begin_transaction()` until a commit, a rollback or an exception. `escaped`
is true once a statement of the present transaction has taken effect outside of
it; `begin_transaction()` starts it anew. `effects` counts what the call's
statement did on the server, in the first attempt and in the retry apart, so that
`SuccessIsReal` speaks of the attempt that returned: an effect of a first attempt
whose answer was lost does not stand in for one of the retry.

### Runs

| run | shows |
| --- | --- |
| `prepared_call` | `PreparedCall` (section 4) with 3 texts, capacity 2, 3 handles: `TypeOK`, `CacheIsAMap`, `StatementsAccounted`, `CacheOfThisSession`, `RetriedOnce`, `SuccessIsReal`, `OnlyRetryEscapes`, `BindTypeOK`, `ArgumentsArrive`, `CallsAdvance`, the refinement `ImplementsCache`, and `CallEnds` under `FairCallSpec` |
| `prepared_error` | the "original error" is read from a closed handle (finding) |
| `prepared_transaction` | a retry leaves the user's transaction (finding) |
| `prepared_rows` | a second query takes the rows of the first (finding) |

Three texts for two places is the least that tells least-recently-used order
from others; a new handle is prepared before the victim is closed, so three
handles suffice. **Fairness**: a call in progress goes on, its bind_fn included
(weak fairness of the steps of a call);
`connect()` sets read and write timeouts, so network calls return. The server
is free to end every session it gets, and `CallEnds` still holds because there is
one retry only.

`OnlyRetryEscapes` is what remains true of transactions after the finding
`prepared_transaction`: in every transaction a retry is the first way out. After
one that has reported a success the user goes on in a transaction that is no more,
and the following calls run outside of it in their first attempt too; `escaped`
says so in the property. A ping, a reconnect, a failed call or an exception that
brought the user's statements into a session without the transaction would be a
second way.

### The abstract specification

`StatementCache` knows the handle of each text it keeps, which text was used
after which, and the handle that is in use: no deque, no positions, no sessions
and no errors. `Use` and `Add` refresh the text asked for; `Add` gives up the text
whose last use is the longest ago when the cache is full; `Clear` happens only
while no handle is in use. Refinement mapping: a text is kept if an entry has it,
a text is newer than another if it is behind it in the deque, and the handle in
use is `stmt` from the lookup to the end of the attempt. That last part makes
every lookup a visible step: without it a hit that moved nothing would pass for
a stutter, and a handle could be closed under the attempt that uses it. It also
says that eviction is by last use, which `connection.h` does not (section 7).

### What is proved

`PreparedConnectionProofs` proves, for every set of texts, handles and result
sets and every `stmt_cache_capacity` of at least 1:

| theorem | property |
| --- | --- |
| `TypeCorrect` | `TypeOK` |
| `CacheAlwaysAMap` | `CacheIsAMap` |
| `NoStatementLeaks` | `StatementsAccounted` |
| `CacheNeverStale` | `CacheOfThisSession` |
| `AtMostOneRetry` | `RetriedOnce` |
| `SuccessAlwaysReal` | `SuccessIsReal` |
| `FirstAttemptsStayInside` | `OnlyRetryEscapes` |
| `DequeImplementsCache` (in `StatementCacheProofs`) | `ImplementsCache` |

With capacity 0 the code takes the front of an empty deque, hence the assumption
(a hazard of its own).

`TypeOK` is inductive. `CacheInv` joins it with the three properties of the cache,
which need each other: a new handle is none of the cached ones because those are
the open ones, and the victim's handle leaves the cache with its entry because no
other entry has it. `CacheSteps` reduces every step to four: the cache is left
alone, cleared, reordered by a hit, or extended with or without an eviction. The
reordering is `From`, an injection of places (`FromIsInjective`), so distinct
entries stay distinct. `EffectsByStep` strengthens `RetriedOnce` by what each
position in the loop allows: before an attempt has run, it has had no effect, and
while it stores its rows exactly one; `SuccessIsReal` follows from that at the end.
`InHand` says that from the lookup to the end of the attempt the handle is that of
the last entry, which `SuccessIsReal` claims at the end only.

`FirstAttemptsStayInside` needs to know how a transaction can be lost. `TxnInv`
lists the situations in which the user believes to be in one and the server has
none: the session is down, a statement of this transaction has already escaped, or
a recovery of the call in progress has made a new session. `SessionInv` supports it: who is inside a
call or a transaction has not been told of a loss, and a statement known to the
present session, which is what an attempt must execute, keeps a first attempt from
running on any other.

`StatementCacheProofs` treats a hit and an eviction alike: each takes one entry
out and puts one at the back. `DropEntry` and `AddEntry` say what that does to the
three things the abstract cache sees of a deque (`TextsOf`, `HandlesOf`,
`LaterIn`), and `StepKinds` reduces the actions of the connection to them. The
place of a text is unique by `CacheInv`, so that its handle, and its being newer
than another, are read off one position (`HandleAt`, `LaterAt`);
`FirstIsLeastRecent` and `CountTexts` identify the front of a full deque with the
text the abstract cache evicts.

`CallEnds` rests on fairness and stays with TLC. By `CallsAreCalls` (section 4)
all of these hold for the composition too (`ConnectionGuarantees`).


## 4. Arguments of a prepared call

### From code to model

| code | model |
| --- | --- |
| the arguments of a call, what the caller's objects contain now | `given`, `own` |
| `param_string_buffers_`, `param_scalar_buffers_`: elements, capacity | `buffer`, `room` |
| `param_binds_` while it is being filled | `binds`: pointers |
| the copy made by `mysql_stmt_bind_param()` | `handed` |
| position in bind_fn; how often it has begun | `phase`, `rounds` |
| the count check, `clear()` and `reserve()` | `Mismatch`, `StartBinding` |
| one `bind_param()` | `BindScalar`, `BindCopy`, `BindMove`, `BindNull` |
| `bind_parameters()` | `HandOver` |

The variadic and the `vector<Param>` versions differ in the forms their
arguments can have, not in their steps. A vector that grows past its capacity
moves, and every pointer into it becomes `Freed`: `Put` decides that by the
capacity, so that `reserve()` is what keeps the pointers good and the model does
not assume so. `Received` is what the server would be sent: what is found behind
the library's pointers at that moment.

`PreparedCall` puts these steps where the code calls `bind_fn(stmt)`, between the
reset and the execution, in every attempt: `PreparedConnection` says how the call
proceeds, `ParamBinding` what binding does; neither knows of the other.
`MoveConnection` is the move constructor, which moves the statements and leaves
the buffers behind. After a call the vectors keep their elements until the next
one clears them; `Release` empties them at the end of the call, so that a call that
used a leftover would have nothing to send, and would be noticed.

### Runs and findings

`prepared_call` (above) has texts with 0, 2 and 3 parameters and argument lists
of equal and of different forms, so that a shared slot, a reallocation, a list
that does not fit and a retry all occur. `ArgumentsArrive` is an action property:
whenever a statement takes effect, each place has its argument, in the first
attempt and in a retry. In a second binding a `std::string&&` is what moving has
left of it (`Emptied`), every other form still what the caller passed.
`prepared_move` shows that the loop's comment promises more (finding).

`CallsAdvance` gives a call a measure: the stages left of at most two attempts
(`StagesLeft`), and in one stage the arguments left to bind (`BindsLeft`). Each
step of a call lowers it, in that order. It is the part of `CallEnds` that needs
no fairness.

### What is proved

`PreparedCallProofs`, for every set of texts, parameter counts and argument lists:

| theorem | property |
| --- | --- |
| `CallsAreCalls` | `CallSpec => Spec`: the composition implements `PreparedConnection` |
| `BindingTyped` | `BindTypeOK` |
| `ArgumentsAlwaysArrive` | `ArgumentsArrive` |
| `CallsAlwaysAdvance` | `CallsAdvance` |
| `ConnectionGuarantees` | the properties of section 3, of the composition: `TypeOK`, `CacheIsAMap`, `StatementsAccounted`, `CacheOfThisSession`, `RetriedOnce`, `SuccessIsReal`, `OnlyRetryEscapes`, `ImplementsCache` |

The invariant `BindInv` has four parts: `RoomForAll` (both capacities cover all
arguments of this binding, the pay-off of `reserve()`), `BindsLead` (bind i points
to an element that contains what argument i was when it was bound, `Good`, or is
the null pointer of an argument that is NULL), `OwnKept` (nothing has left the
caller but the rvalue strings that a first binding has passed, `BoundOnce`) and
`BindingIsAStage` (there is a binding under way only in an attempt). With
`RoomForAll`, `Put` never moves a vector, hence `BindsLead` survives it.
`ArgumentsFit` keeps what the count check
has found, until the execution. `CallsAdvance` follows step by step from the types
and `EffectsByStep`: a step of the connection lowers `StagesLeft`
(`CallStepAdvances`), a step of the binding keeps the stage and lowers `BindsLeft`
(`BindStepAdvances`).


## 5. Result sets

### From code to model

| code | model |
| --- | --- |
| `stmt_`, `is_stmt_result_`, `has_current_row_` | `rs[r].stmt`, `.kind`, `.hasRow` |
| `result_buffers_[i]`, `lengths_[i]`, `is_nulls_[i]`, `errors_[i]` | `rs[r].cols[i]`: `size` (without the extra byte), `len`, `null`, `err`; the content is `kept` bytes of a `cell` and a terminator at `nul` |
| the library's copy of the binds of a handle | `target[s]`: whose buffers, how long, or `Dangling` |
| the rows stored for a handle | `stored`, `left` |
| `next()` | `NextDelivers`, `NextThrows`, `NextOfShared`, `NextEnds`, `NextOfText`, `NextIsUndefined` |
| moves, destructor | `MoveConstruct`, `MoveAssign`, `Drop` |
| the connection: another query, eviction, close | `Query`, `QueryFails`, `CloseHandle` |
| `get_int32()`, `get_int64()` | `GetInt32`, `GetInt64`, from what `Seen` finds in the column |

A cell has a length and says what `strtoll()` makes of it; its characters do not
matter. A row may be longer than any buffer, in any column, and every row of a
result may differ. `next()` is one action, as nothing else runs in the thread of
the connection; the throw in the middle of the truncation branch is an action of
its own with every column it can happen at. What the connection does to a handle
can happen between any two calls, without regard to who refers to it: that is
the relation of `PreparedConnection` to its result sets, and over-approximates it.

`sole`, `threw`, `ended`, `row` and `owner` are history. What an object does after
it has used a closed handle or freed memory is undefined: it becomes `"lost"`,
and the properties speak of the others. When two objects share a handle the
library fills the buffers of one while the other's flags decide about a refetch;
the model follows the rows there and not the buffers.

### Run

| run | instance | shows |
| --- | --- | --- |
| `result_fetch` | 2 objects, 1 handle, 2 columns declared 1 and 2 long, up to 3 rows of 4 kinds (short, long, NULL; numbers at and beyond the limits of an int of two bits and a long long of three) | `FetchTypeOK`, `RowIsCurrent`, `RowsReachTheirOwner`, `EndMeansEnd`, `IntegersExact` |

One handle is enough for two objects to disturb each other, and the move from one
to the other needs both. Lengths one and two above the declared ones make a
buffer grow twice; a shorter row after a longer one shows a stale terminator.

`RowIsCurrent` and `RowsReachTheirOwner` say in their hypotheses what the code
does not promise: two objects on a handle (finding `prepared_rows`), and an object
whose `next()` has thrown. `EndMeansEnd` is about an object alone with its handle:
`owner` stays with it through every move and through the end of any other object,
so that rows which these freed would be missed. Of two objects on a handle the end
of the one does free the rows of the other, which then reports the end of the data
(`rs = conn.query_prepared(same text)`); nothing is claimed of them. `IntegersExact` says that a number beyond `long long`
comes back as the largest one: `errno` is not looked at.

### What is proved

`ResultFetchProofs`, for every set of objects, handles and columns and rows of any
lengths:

| theorem | property |
| --- | --- |
| `FetchTyped` | `FetchTypeOK` |
| `RowAlwaysCurrent` | `RowIsCurrent` |
| `RowsAlwaysReachOwner` | `RowsReachTheirOwner` |
| `EndAlwaysMeansEnd` | `EndMeansEnd` |
| `IntegersAlwaysExact` | `IntegersExact` |

No property is inductive alone. `FetchInv` joins: `ObjectsOK` (types, and
`RowIsCurrent` of each object by itself), `LibraryOK` (types), `SoleInv` (of two
objects on a handle neither counts as alone), `TargetInv` (a handle with one
object is bound to that object's present buffers, or to nothing) and `OwnerInv`
(the rows of an object alone with its handle are stored, bound, and not yet
answered for).
`RowIsCurrent` after a fetch needs that the library wrote to the buffers of the
reader and knew their sizes, which is `TargetInv`; `TargetInv` after an
enlargement needs the rebind. Two lemmas carry most actions: `OneObject` (an
object changes and the binds stay) and `OneReads` (an object alone with its
handle takes a row); `OneMoves` treats both moves, and needs `SoleInv` to know that
the rows the target of an assignment frees are not those of an object alone. `ColumnFits` is the
arithmetic of a column: written, perhaps enlarged, terminated.

The theorem about integers needs `Max32 < Max64`: were `long long` no wider than
`int`, a saturated number would pass the range check of `get_int32()`.


## 6. Mutants

Next to a definition stands, where there is one, a plausible slip in the code
it models: an unwrapped decrement, a forgotten close, an off-by-one at the
capacity, a flag not set. No action uses it. Replacing the definition by its
slip breaks the property it is listed with in `PROJECT.json`, each under the
run's own configuration, so that every property is known to notice something.


## 7. Where the code and the documents differ

Seven findings have a run each (sections 2, 3 and 4). Met while modelling, and without a
run:

* `ping()` reconnects nothing (`README.md:308`, "检测并重连").
* A session lost before a text is first prepared is not retried
  (`specs/spec-prepare.md:137`).
* Connections are destroyed with the mutex held: `to_destroy` dies before the
  caller's lock does (`specs/spec-pool.md:158`).
* A rollback refused by the server destroys the connection; the handler that
  would ping is unreachable (`specs/spec-pool.md:154`).
* `HealthCheckException` is never thrown; a failed check goes round the loop
  (`specs/spec-pool.md:141`).
* A return never shrinks the pool (`specs/spec-pool.md:156`).
* The cache evicts by last use, `connection.h` and `specs/spec-prepare.md` say
  by age (`ImplementsCache` shows the former).


## 8. Not modelled, and why

* The move assignment of `Connection` (its effects are those of `close()` and of
  the move constructor, one after the other), and a constructor that throws after
  `mysql_init()`: the leaked `MYSQL` structure is not part of the models.
* `get_double()`: rounding is out of reach of TLC, and the control flow is that
  of `get_int64()`. Lookup of columns by name, row maps, `row_count()`: they read
  what is modelled or memory of the library that is not.
* Pending results of multi-statements, `USE`, `escape_string()`,
  `affected_rows()`, `insert_id()`.
* The buffers of two result sets that share a handle (section 5).
* How long the mutex is held: a bound in real time.
* Message texts, error codes beyond recoverable and not, statistics.


## 9. Plan

| step | module | content | state |
| --- | --- | --- | --- |
| 1 | `ConnectionPool`, `LeaseDesk` | the pool, its promise, safety, liveness | done |
| 2 | `ConnectionPoolProofs` | typing, ownership, counters, capacity | done |
| 3 | `PreparedConnection`, `PreparedConnectionProofs` | cache, retry, sessions; all its invariants proved | done |
| 4 | `ParamBinding`, `PreparedCall`, `PreparedCallProofs` | pointers into the buffers, `reserve()`, moved strings, the retry; proved | done |
| 5 | `ResultFetch`, `ResultFetchProofs` | `next()`, truncation, rebinding, moves, integer getters; proved | done |
| 6 | `PoolServiceProofs` | the queue, the hand-over, the minimum, `Spec => ImplementsDesk`; the cleanup, the steps of the holder of the mutex | done |
| 7 | `StatementCache`, `StatementCacheProofs` | the promise of the statement cache and its refinement, proved | done |
| 8 | `PreparedConnectionProofs`, `PreparedCallProofs` | what leaves a transaction; the measure of a call; the composition inherits everything | done |
| 9 | `PreparedConnection` | `USE` and the database in the cache key | open |

Step 9 reopens `PreparedConnectionProofs`: `TypeOK` and `CacheInv` with a database
in the cache key, and a session whose database the object does not know. All
safety and action properties of the passing runs and both refinements are proved;
the liveness properties (`AcquireEnds`, `DestructorEnds`, `CallEnds`) are
model-checked only, and `HolderAdvances` and `CallsAdvance` are their parts that a
proof reaches.
