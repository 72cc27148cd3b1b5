--------------------------- MODULE ConnectionPool ---------------------------
(***************************************************************************)
(* fox::mysql::pool::ConnectionPool and its RAII handle PooledConn         *)
(* (src/src/pool.cpp, src/include/fox-mysql/pool.h).                       *)
(*                                                                         *)
(* Threads call acquire(), use the handle, give it back, or lose it to     *)
(* another thread; the owner may run ~ConnectionPool() at any time.  All   *)
(* of the pool's work happens under one mutex, network traffic included,   *)
(* so the steps of one call are separated here only where another thread, *)
(* the server or the clock can act between them although the mutex is      *)
(* held: after the test of shutdown_, before ping(), before the connect    *)
(* of create_connection() and before rollback().                           *)
(*                                                                         *)
(* Time is relative: age[c] is how long c has been idle and timer[t] what  *)
(* is left of t's deadline, so that no clock grows without bound.  The     *)
(* write-only statistics (acquire_wait_count_, acquire_timeout_count_,     *)
(* reconnect_attempts_, reconnect_failures_) are left out; created_total_  *)
(* and destroyed_total_ are kept as their difference.                      *)
(***************************************************************************)
EXTENDS Integers, Sequences, FiniteSets, Functions

\* An operator that no action uses and that stands right before the one it
\* resembles (DecUnwrapped before Dec, say) is a plausible slip in that piece of
\* code.  README.md says which property notices it.

CONSTANTS
    Client,            \* threads that use the pool
    Conn,              \* addresses of fox::mysql::Connection objects
    Nobody,            \* no thread, no connection
    MinSize, MaxSize,  \* PoolOptions::min_size, max_size
    SizeMax,           \* largest value of a size_t
    AcquireTimeout,    \* PoolOptions::acquire_timeout
    CallTimeouts,      \* values passed as acquire(timeout); 0 is the default
    IdleMaxAge,        \* PoolOptions::idle_max_age
    AssumeStale,       \* PoolOptions::idle_assume_stale; 0 switches it off
    AgeCap,            \* ages are not told apart beyond this bound
    HealthCheck,       \* PoolOptions::health_check_on_acquire
    RollbackOnReturn   \* PoolOptions::rollback_on_return

\* pool.cpp:60-66 rejects any other MinSize and MaxSize.  SizeMax is that of
\* the build; MaxSize is itself a size_t.
ASSUME SizeAssumption ==
    /\ MinSize \in Nat \ {0} /\ MaxSize \in Nat /\ SizeMax \in Nat
    /\ MinSize <= MaxSize /\ MaxSize <= SizeMax

ASSUME OptionAssumption ==
    /\ AcquireTimeout \in Nat /\ IdleMaxAge \in Nat /\ AssumeStale \in Nat
    /\ CallTimeouts \subseteq Nat
    /\ AgeCap \in Nat /\ IdleMaxAge <= AgeCap /\ AssumeStale <= AgeCap
    /\ HealthCheck \in BOOLEAN /\ RollbackOnReturn \in BOOLEAN

ASSUME IdentityAssumption ==
    /\ Nobody \notin Client \cup Conn
    /\ IsFiniteSet(Conn)

VARIABLES
    \* the pool's members
    lock,          \* owner of mutex_, or Nobody
    idle,          \* idle_connections_, front first
    total,         \* total_connections_
    netCreated,    \* created_total_ - destroyed_total_
    shutdown,      \* shutdown_
    life,          \* where the pool object is in its own life
    \* the threads
    pc,            \* where each thread is in the pool's code
    hand,          \* the connection a call in progress has in a local variable
    held,          \* the connections of each thread's PooledConn handles
    timer,         \* time left until the deadline of each thread's acquire()
    \* the heap, the clock and the server
    live,          \* Connection objects that exist
    age,           \* time since PoolConnection::last_used
    sess,          \* what each connection's session is in
    createFailed   \* history: some create_connection() in acquire() has thrown

poolVars   == <<lock, idle, total, netCreated, shutdown, life>>
threadVars == <<pc, hand, held, timer>>
heapVars   == <<live, age, sess, createFailed>>
vars       == <<poolVars, threadVars, heapVars>>

-----------------------------------------------------------------------------
(* State                                                                   *)

\* "ready": connected, no transaction; "txn": a transaction is open; "dead":
\* connected_ is true but the server has dropped the session (and rolled its
\* transaction back); "closed": connected_ is false.
Session == {"ready", "txn", "dead", "closed"}

\* "asleep" is blocked in wait_until; "woken" has been notified or timed out
\* and is getting the mutex back.  "lost" ran into a pool that no longer
\* exists: undefined behaviour, after which nothing is said of that thread.
AcquireStep == {"loop", "take", "check", "create", "asleep", "woken"}
PC == {"out", "rollback", "lost"} \cup AcquireStep

\* "flagged", "notified": the two unlocked statements of the destructor are
\* done; "gone": the destructor has finished; "aborted": the constructor threw.
Life == {"warming", "open", "flagged", "notified", "gone", "aborted"}

Exists == life \in {"open", "flagged", "notified"}

\* Each MC run bounds the heap by Conn; an allocation needs a free address.
Free == Conn \ live

Asleep == {t \in Client : pc[t] = "asleep"}

-----------------------------------------------------------------------------
(* size_t arithmetic: total_connections_ wraps                             *)

Inc(n) == IF n = SizeMax THEN 0 ELSE n + 1
DecUnwrapped(n) == n - 1
Dec(n) == IF n = 0 THEN SizeMax ELSE n - 1

-----------------------------------------------------------------------------
(* The Connection object as the pool uses it                               *)

Healthy(c) == sess[c] \in {"ready", "txn"}

\* A new Connection connects in its constructor; the second connect() in
\* create_connection() then returns at once.
Allocate(c) ==
    /\ live' = live \cup {c}
    /\ sess' = [sess EXCEPT ![c] = "ready"]

\* The destructor of the Connection objects in S closes their sessions.
Delete(S) ==
    /\ live' = live \ S
    /\ sess' = [c \in Conn |-> IF c \in S THEN "closed" ELSE sess[c]]
    /\ age'  = [c \in Conn |-> IF c \in S THEN 0 ELSE age[c]]

\* Where a thread is when the call it made returns or throws.
Leave(t) ==
    /\ pc' = [pc EXCEPT ![t] = "out"]
    /\ lock' = Nobody
    /\ timer' = [timer EXCEPT ![t] = 0]

\* The front of the queue goes into a local variable of t.
PopFront(t) ==
    /\ hand' = [hand EXCEPT ![t] = Head(idle)]
    /\ idle' = Tail(idle)

-----------------------------------------------------------------------------
(* Construction                                                            *)

Init ==
    /\ lock = Nobody /\ idle = <<>> /\ total = 0 /\ netCreated = 0
    /\ shutdown = FALSE /\ life = "warming"
    /\ pc = [t \in Client |-> "out"]
    /\ hand = [t \in Client |-> Nobody]
    /\ held = [t \in Client |-> {}]
    /\ timer = [t \in Client |-> 0]
    /\ live = {} /\ age = [c \in Conn |-> 0]
    /\ sess = [c \in Conn |-> "closed"]
    /\ createFailed = FALSE

\* One round of the loop of warm_up_pool().
WarmUp ==
    /\ life = "warming"
    /\ \E c \in Free :
          /\ Allocate(c)
          /\ idle' = Append(idle, c)
    /\ total' = Inc(total)
    /\ netCreated' = netCreated + 1
    /\ life' = IF Len(idle) + 1 < MinSize THEN "warming" ELSE "open"
    /\ UNCHANGED <<lock, shutdown, threadVars, age, createFailed>>

\* The constructor throws: the members already built are destroyed, the
\* connections in the queue with them, and no pool exists.
WarmUpFails ==
    /\ life = "warming"
    /\ life' = "aborted"
    /\ Delete(Range(idle))
    /\ idle' = <<>>
    /\ total' = 0
    /\ netCreated' = 0
    /\ UNCHANGED <<lock, shutdown, threadVars, createFailed>>

-----------------------------------------------------------------------------
(* acquire()                                                               *)

Deadline(timeout) == IF timeout > 0 THEN timeout ELSE AcquireTimeout

\* The mutex is taken, shutdown_ is tested a first time, the deadline is set.
Acquire(t) ==
    /\ Exists /\ pc[t] = "out" /\ lock = Nobody
    /\ ~shutdown
    /\ \E timeout \in CallTimeouts :
          timer' = [timer EXCEPT ![t] = Deadline(timeout)]
    /\ pc' = [pc EXCEPT ![t] = "loop"]
    /\ lock' = t
    /\ UNCHANGED <<idle, total, netCreated, shutdown, life, hand, held, heapVars>>

\* cleanup_idle_connections(): the i-th connection is removed if all before it
\* were and it is too old while the pool is above its minimum size.
AboveMinimumOffByOne(n) == n >= MinSize
AboveMinimum(n) == n > MinSize
ShouldRemove(i) ==
    /\ AboveMinimum(total - (i - 1))
    /\ age[idle[i]] >= IdleMaxAge

CleanupCountsOnce ==
    \E k \in 0..Len(idle) :
        /\ \A i \in 1..k : ShouldRemove(i)
        /\ k < Len(idle) => ~ShouldRemove(k + 1)
        /\ Delete({idle[i] : i \in 1..k})
        /\ idle' = SubSeq(idle, k + 1, Len(idle))
        /\ total' = IF k > 0 THEN total - 1 ELSE total
        /\ netCreated' = netCreated - k
Cleanup ==
    \E k \in 0..Len(idle) :
        /\ \A i \in 1..k : ShouldRemove(i)
        /\ k < Len(idle) => ~ShouldRemove(k + 1)
        /\ Delete({idle[i] : i \in 1..k})
        /\ idle' = SubSeq(idle, k + 1, Len(idle))
        /\ total' = total - k
        /\ netCreated' = netCreated - k

\* The head of the loop: shutdown_ again, then the cleanup.
LoopThrowsShutdown(t) ==
    /\ pc[t] = "loop" /\ shutdown
    /\ Leave(t)
    /\ UNCHANGED <<idle, total, netCreated, shutdown, life, hand, held, heapVars>>

LoopCleans(t) ==
    /\ pc[t] = "loop" /\ ~shutdown
    /\ Cleanup
    /\ pc' = [pc EXCEPT ![t] = "take"]
    /\ UNCHANGED <<lock, shutdown, life, hand, held, timer, createFailed>>

\* Connections are dropped from a local variable: the counters follow, and the
\* loop goes round again.
DropForgetsTotal(c) ==
    /\ Delete({c})
    /\ netCreated' = netCreated - 1
    /\ UNCHANGED total
Drop(c) ==
    /\ Delete({c})
    /\ total' = Dec(total)
    /\ netCreated' = netCreated - 1

\* The handle is built from the local variable and returned.
HandOver(t, c) ==
    /\ held' = [held EXCEPT ![t] = @ \cup {c}]
    /\ hand' = [hand EXCEPT ![t] = Nobody]
    /\ age' = [age EXCEPT ![c] = 0]
    /\ Leave(t)

AssumedStale(c) == AssumeStale > 0 /\ age[c] >= AssumeStale

TakeDropsStale(t) ==
    /\ pc[t] = "take" /\ idle # <<>> /\ AssumedStale(Head(idle))
    /\ idle' = Tail(idle)
    /\ Drop(Head(idle))
    /\ pc' = [pc EXCEPT ![t] = "loop"]
    /\ UNCHANGED <<lock, shutdown, life, hand, held, timer, createFailed>>

TakeChecks(t) ==
    /\ pc[t] = "take" /\ idle # <<>> /\ ~AssumedStale(Head(idle))
    /\ HealthCheck
    /\ PopFront(t)
    /\ pc' = [pc EXCEPT ![t] = "check"]
    /\ UNCHANGED <<lock, total, netCreated, shutdown, life, held, timer, heapVars>>

TakeReturns(t) ==
    /\ pc[t] = "take" /\ idle # <<>> /\ ~AssumedStale(Head(idle))
    /\ ~HealthCheck
    /\ idle' = Tail(idle)
    /\ HandOver(t, Head(idle))
    /\ UNCHANGED <<total, netCreated, shutdown, life, live, sess, createFailed>>

CanGrowOffByOne == total <= MaxSize
CanGrow == total < MaxSize

TakeCreates(t) ==
    /\ pc[t] = "take" /\ idle = <<>> /\ CanGrow
    /\ pc' = [pc EXCEPT ![t] = "create"]
    /\ UNCHANGED <<poolVars, hand, held, timer, heapVars>>

\* wait_until(): the mutex is released as the thread goes to sleep.
TakeWaits(t) ==
    /\ pc[t] = "take" /\ idle = <<>> /\ ~CanGrow
    /\ pc' = [pc EXCEPT ![t] = "asleep"]
    /\ lock' = Nobody
    /\ UNCHANGED <<idle, total, netCreated, shutdown, life, hand, held, timer, heapVars>>

\* health_check_connection(): a closed connection is not repaired; a failed
\* ping() is followed by one close() and connect().
CheckPasses(t, c) ==
    /\ \/ Healthy(c) /\ UNCHANGED sess
       \/ sess[c] = "dead" /\ sess' = [sess EXCEPT ![c] = "ready"]
    /\ HandOver(t, c)
    /\ UNCHANGED <<idle, total, netCreated, live>>

CheckFailsRequeues(t, c) ==
    /\ sess[c] \in {"dead", "closed"}
    /\ idle' = Append(idle, c)
    /\ hand' = [hand EXCEPT ![t] = Nobody]
    /\ pc' = [pc EXCEPT ![t] = "loop"]
    /\ UNCHANGED <<lock, total, netCreated, held, timer, live, age, sess>>
CheckFails(t, c) ==
    /\ sess[c] \in {"dead", "closed"}
    /\ Drop(c)
    /\ hand' = [hand EXCEPT ![t] = Nobody]
    /\ pc' = [pc EXCEPT ![t] = "loop"]
    /\ UNCHANGED <<lock, idle, held, timer>>

CheckTrustsPing(t, c) ==
    /\ HandOver(t, c)
    /\ UNCHANGED <<idle, total, netCreated, live, sess>>
CheckOutcome(t, c) == CheckPasses(t, c) \/ CheckFails(t, c)

Check(t) ==
    /\ pc[t] = "check"
    /\ CheckOutcome(t, hand[t])
    /\ UNCHANGED <<shutdown, life, createFailed>>

\* The connect of create_connection() comes back, or it throws: the handler
\* decrements total_connections_, which nothing has incremented.
Create(t) ==
    /\ pc[t] = "create"
    /\ \E c \in Free :
          /\ Allocate(c)
          /\ held' = [held EXCEPT ![t] = @ \cup {c}]
    /\ total' = Inc(total)
    /\ netCreated' = netCreated + 1
    /\ Leave(t)
    /\ UNCHANGED <<idle, shutdown, life, hand, age, createFailed>>

CreateThrows(t) ==
    /\ pc[t] = "create"
    /\ total' = Dec(total)
    /\ createFailed' = TRUE
    /\ Leave(t)
    /\ UNCHANGED <<idle, netCreated, shutdown, life, hand, held, live, age, sess>>

\* A sleeper leaves the wait set when its deadline passes, or for no reason.
DeadlinePasses(t) ==
    /\ life # "gone" /\ pc[t] = "asleep" /\ timer[t] = 0
    /\ pc' = [pc EXCEPT ![t] = "woken"]
    /\ UNCHANGED <<poolVars, hand, held, timer, heapVars>>

SpuriousWake(t) ==
    /\ life # "gone" /\ pc[t] = "asleep" /\ timer[t] > 0
    /\ pc' = [pc EXCEPT ![t] = "woken"]
    /\ UNCHANGED <<poolVars, hand, held, timer, heapVars>>

\* wait_until() has the mutex back and compares the clock with the deadline,
\* whatever woke it: it reports a timeout to a thread that was notified too.
DeadlineRenewed(t) == timer' = [timer EXCEPT ![t] = AcquireTimeout]
DeadlineKept(t) == UNCHANGED timer
WaitReturns(t) ==
    /\ life # "gone" /\ pc[t] = "woken" /\ lock = Nobody /\ timer[t] > 0
    /\ pc' = [pc EXCEPT ![t] = "loop"]
    /\ lock' = t
    /\ DeadlineKept(t)
    /\ UNCHANGED <<idle, total, netCreated, shutdown, life, hand, held, heapVars>>

WaitTimesOut(t) ==
    /\ life # "gone" /\ pc[t] = "woken" /\ lock = Nobody /\ timer[t] = 0
    /\ Leave(t)
    /\ UNCHANGED <<idle, total, netCreated, shutdown, life, hand, held, heapVars>>

-----------------------------------------------------------------------------
(* PooledConn::reset() and release_connection()                            *)

\* notify_one() with the mutex held, by a thread that then returns.
LeaveNotifying(t) ==
    /\ \/ Asleep = {} /\ pc' = [pc EXCEPT ![t] = "out"]
       \/ \E w \in Asleep : pc' = [pc EXCEPT ![t] = "out", ![w] = "woken"]
    /\ lock' = Nobody
    /\ timer' = [timer EXCEPT ![t] = 0]

EnqueueAtFront(c) ==
    /\ idle' = <<c>> \o idle
    /\ age' = [age EXCEPT ![c] = 0]
EnqueueForgotten(c) == UNCHANGED <<idle, age>>
Enqueue(c) ==
    /\ idle' = Append(idle, c)
    /\ age' = [age EXCEPT ![c] = 0]

\* The handle forgets its connection as release_connection() takes it over.
HandleKept(t, c) == UNCHANGED held
HandleCleared(t, c) == held' = [held EXCEPT ![t] = @ \ {c}]

ReleaseDestroys(t, c) ==
    /\ Exists /\ pc[t] = "out" /\ lock = Nobody /\ c \in held[t]
    /\ shutdown
    /\ HandleCleared(t, c)
    /\ Drop(c)
    /\ UNCHANGED <<lock, idle, shutdown, life, pc, hand, timer, createFailed>>

ReleaseRollsBack(t, c) ==
    /\ Exists /\ pc[t] = "out" /\ lock = Nobody /\ c \in held[t]
    /\ ~shutdown /\ RollbackOnReturn
    /\ HandleCleared(t, c)
    /\ hand' = [hand EXCEPT ![t] = c]
    /\ pc' = [pc EXCEPT ![t] = "rollback"]
    /\ lock' = t
    /\ UNCHANGED <<idle, total, netCreated, shutdown, life, timer, heapVars>>

ReleaseReturns(t, c) ==
    /\ Exists /\ pc[t] = "out" /\ lock = Nobody /\ c \in held[t]
    /\ ~shutdown /\ ~RollbackOnReturn
    /\ HandleCleared(t, c)
    /\ Enqueue(c)
    /\ LeaveNotifying(t)
    /\ UNCHANGED <<total, netCreated, shutdown, life, hand, live, sess, createFailed>>

\* rollback() succeeds on a live session only.  It throws ConnectionException
\* on a closed connection and the base SQLException in every other case (a
\* server may also refuse it), so that the handler with the second chance, for
\* QueryException, is never entered: every failure destroys the connection.
RollbackSucceeds(t) ==
    /\ pc[t] = "rollback" /\ Healthy(hand[t])
    /\ sess' = [sess EXCEPT ![hand[t]] = "ready"]
    /\ Enqueue(hand[t])
    /\ hand' = [hand EXCEPT ![t] = Nobody]
    /\ LeaveNotifying(t)
    /\ UNCHANGED <<total, netCreated, shutdown, life, held, live, createFailed>>

\* The slot this frees is not announced to the threads that wait for one.
RollbackKeepsConnection(t) ==
    /\ pc[t] = "rollback"
    /\ Enqueue(hand[t])
    /\ hand' = [hand EXCEPT ![t] = Nobody]
    /\ LeaveNotifying(t)
    /\ UNCHANGED <<total, netCreated, shutdown, life, held, live, sess, createFailed>>
RollbackFails(t) ==
    /\ pc[t] = "rollback"
    /\ Drop(hand[t])
    /\ hand' = [hand EXCEPT ![t] = Nobody]
    /\ Leave(t)
    /\ UNCHANGED <<idle, shutdown, life, held, createFailed>>

\* A handle is moved to another thread: the source forgets its connection.
MoveHandle(t, u, c) ==
    /\ pc[t] = "out" /\ pc[u] = "out" /\ t # u /\ c \in held[t]
    /\ held' = [held EXCEPT ![t] = @ \ {c}, ![u] = @ \cup {c}]
    /\ UNCHANGED <<poolVars, pc, hand, timer, heapVars>>

-----------------------------------------------------------------------------
(* ~ConnectionPool()                                                       *)

RaiseFlag ==
    /\ life = "open"
    /\ life' = "flagged"
    /\ shutdown' = TRUE
    /\ UNCHANGED <<lock, idle, total, netCreated, threadVars, heapVars>>

NotifyAll ==
    /\ life = "flagged"
    /\ life' = "notified"
    /\ pc' = [t \in Client |-> IF pc[t] = "asleep" THEN "woken" ELSE pc[t]]
    /\ UNCHANGED <<lock, idle, total, netCreated, shutdown, hand, held, timer, heapVars>>

\* The mutex is taken and the queue emptied; total_connections_ keeps its
\* value.  Threads that still hold a handle or wait are not waited for.
MutexIsFreeAndNoBorrower == lock = Nobody /\ \A t \in Client : held[t] = {}
MutexIsFree == lock = Nobody
Drain ==
    /\ life = "notified" /\ MutexIsFree
    /\ life' = "gone"
    /\ Delete(Range(idle))
    /\ netCreated' = netCreated - Len(idle)
    /\ idle' = <<>>
    /\ UNCHANGED <<lock, total, shutdown, threadVars, createFailed>>

\* A thread uses the mutex of a pool that no longer exists: it was still inside
\* acquire(), or its handle's pool_ dangles as it is given back.
UseAfterDestroy(t) ==
    /\ life = "gone"
    /\ \/ pc[t] \in {"asleep", "woken"}
       \/ pc[t] = "out" /\ held[t] # {}
    /\ pc' = [pc EXCEPT ![t] = "lost"]
    /\ UNCHANGED <<poolVars, hand, held, timer, heapVars>>

-----------------------------------------------------------------------------
(* The environment: what users, the server and the clock do                *)

\* begin_transaction(), then commit() or rollback(), through a handle.
Begin(t, c) ==
    /\ pc[t] = "out" /\ c \in held[t] /\ sess[c] = "ready"
    /\ sess' = [sess EXCEPT ![c] = "txn"]
    /\ UNCHANGED <<poolVars, threadVars, live, age, createFailed>>

Finish(t, c) ==
    /\ pc[t] = "out" /\ c \in held[t] /\ sess[c] = "txn"
    /\ sess' = [sess EXCEPT ![c] = "ready"]
    /\ UNCHANGED <<poolVars, threadVars, live, age, createFailed>>

\* close(), or a ping() that fails; connect() on a connection that is closed.
Close(t, c) ==
    /\ pc[t] = "out" /\ c \in held[t] /\ sess[c] # "closed"
    /\ sess' = [sess EXCEPT ![c] = "closed"]
    /\ UNCHANGED <<poolVars, threadVars, live, age, createFailed>>

Reconnect(t, c) ==
    /\ pc[t] = "out" /\ c \in held[t] /\ sess[c] = "closed"
    /\ sess' = [sess EXCEPT ![c] = "ready"]
    /\ UNCHANGED <<poolVars, threadVars, live, age, createFailed>>

\* wait_timeout, KILL, a restart of the server, a lost network.
ServerDrops(c) ==
    /\ c \in live /\ Healthy(c)
    /\ sess' = [sess EXCEPT ![c] = "dead"]
    /\ UNCHANGED <<poolVars, threadVars, live, age, createFailed>>

Older(n) == IF n < AgeCap THEN n + 1 ELSE AgeCap

Tick ==
    /\ timer' = [t \in Client |-> IF timer[t] > 0 THEN timer[t] - 1 ELSE 0]
    /\ age' = [c \in Conn |-> IF c \in Range(idle) THEN Older(age[c]) ELSE age[c]]
    /\ <<timer, age>>' # <<timer, age>>
    /\ UNCHANGED <<poolVars, pc, hand, held, live, sess, createFailed>>

\* Nothing is left to do once there is no pool.
Over ==
    /\ life \in {"gone", "aborted"}
    /\ \A t \in Client : pc[t] = "lost" \/ (pc[t] = "out" /\ held[t] = {})
    /\ UNCHANGED vars

-----------------------------------------------------------------------------

\* The steps of a thread that has the mutex.
Critical(t) ==
    \/ LoopThrowsShutdown(t) \/ LoopCleans(t)
    \/ TakeDropsStale(t) \/ TakeChecks(t) \/ TakeReturns(t)
    \/ TakeCreates(t) \/ TakeWaits(t)
    \/ Check(t) \/ Create(t) \/ CreateThrows(t)
    \/ RollbackSucceeds(t) \/ RollbackFails(t)

Wakeup(t) == WaitReturns(t) \/ WaitTimesOut(t)

Release(t) ==
    \E c \in held[t] :
        ReleaseDestroys(t, c) \/ ReleaseRollsBack(t, c) \/ ReleaseReturns(t, c)

Use(t) ==
    \E c \in held[t] :
        \/ Begin(t, c) \/ Finish(t, c) \/ Close(t, c) \/ Reconnect(t, c)
        \/ \E u \in Client : MoveHandle(t, u, c)

Thread(t) ==
    \/ Acquire(t) \/ Critical(t) \/ DeadlinePasses(t) \/ SpuriousWake(t)
    \/ Wakeup(t) \/ Release(t) \/ Use(t) \/ UseAfterDestroy(t)

Destroy == RaiseFlag \/ NotifyAll \/ Drain

Next ==
    \/ WarmUp \/ WarmUpFails \/ Destroy
    \/ \E t \in Client : Thread(t)
    \/ \E c \in Conn : ServerDrops(c)
    \/ Tick \/ Over

Spec == Init /\ [][Next]_vars

\* A thread that has the mutex, or whose deadline has passed, goes on; the
\* destructor, once begun, goes on; time passes.  A thread that waits for the
\* mutex gets it if the mutex is free again and again (no starvation).
Fairness ==
    /\ WF_vars(Tick)
    /\ WF_vars(WarmUp \/ WarmUpFails)
    /\ WF_vars(NotifyAll) /\ SF_vars(Drain)
    /\ \A t \in Client :
          /\ WF_vars(Critical(t))
          /\ WF_vars(DeadlinePasses(t))
          /\ SF_vars(Wakeup(t))

FairSpec == Spec /\ Fairness

-----------------------------------------------------------------------------
(* Properties                                                              *)

\* Every variable stays in its domain.
TypeOK ==
    /\ lock \in Client \cup {Nobody}
    /\ idle \in Seq(Conn)
    /\ total \in 0..SizeMax
    /\ netCreated \in Int
    /\ shutdown \in BOOLEAN
    /\ life \in Life
    /\ pc \in [Client -> PC]
    /\ hand \in [Client -> Conn \cup {Nobody}]
    /\ held \in [Client -> SUBSET Conn]
    /\ timer \in [Client -> Nat]
    /\ live \in SUBSET Conn
    /\ age \in [Conn -> 0..AgeCap]
    /\ sess \in [Conn -> Session]
    /\ createFailed \in BOOLEAN

\* Every unique_ptr<Connection>: in the queue, in a handle, in a local variable.
Lent == UNION {held[t] : t \in Client}
InUse == {hand[t] : t \in Client} \ {Nobody}
References == Range(idle) \cup Lent \cup InUse

\* The idle queue, the handles and the calls in progress refer to existing
\* Connection objects only, and no existing object has lost its last reference:
\* no path of acquire(), release_connection(), the constructor or the
\* destructor drops or duplicates a unique_ptr.
HeapIsOwned == live = References

\* A connection is in one place: once in the queue, or in one thread's handle,
\* or in one call's local variable ("not to be used by threads concurrently").
Exclusive ==
    /\ IsInjective(idle)
    /\ \A t \in Client :
          /\ held[t] \cap Range(idle) = {}
          /\ hand[t] \notin Range(idle)
          /\ \A u \in Client :
                /\ hand[t] \notin held[u]
                /\ t # u => held[t] \cap held[u] = {}
                /\ t # u /\ hand[t] = hand[u] => hand[t] = Nobody

\* created_total_ - destroyed_total_ is the number of existing connections, and
\* so is total_connections_ as long as no create_connection() has thrown.
LedgerMatchesHeap ==
    /\ netCreated = Cardinality(live)
    /\ ~createFailed /\ life # "gone" => total = Cardinality(live)

\* Without a failed creation, existing connections, whoever has them, never
\* exceed max_size, although the decision and the connect are separate steps.
CapacityRespected == ~createFailed => Cardinality(live) <= MaxSize

\* The queue is sorted by last_used: the oldest connection is in front, which
\* cleanup_idle_connections() relies on when it stops at the first young one.
IdleIsOrdered ==
    \A i, j \in DOMAIN idle : i < j => age[idle[i]] >= age[idle[j]]

\* With rollback_on_return nobody leaves a transaction, or a connection known
\* to be closed, in the queue.
IdleIsClean ==
    RollbackOnReturn => \A c \in Range(idle) : sess[c] \in {"ready", "dead"}

\* Whoever gets a connection from acquire() gets a usable session when health
\* checks are on, and with rollback_on_return never somebody else's transaction.
HandoverIsSound ==
    [][ \A t \in Client : \A c \in held'[t] \ Lent :
          /\ HealthCheck => sess'[c] \in {"ready", "txn"}
          /\ RollbackOnReturn => sess'[c] # "txn" ]_vars

\* Expiry by age leaves min_size connections in existence, whoever has them
\* ("never shrinks below min_size", spec-pool.md:166), until a failed creation has
\* made total_connections_ exceed them: the cleanup believes the counter, which
\* Dec() wraps to the largest size_t, and then removes the last one, too.  Nothing
\* else that happens to the pool between two cleanups misleads it.
CleanupKeepsMinimum ==
    [][ \A t \in Client :
          pc[t] = "loop" /\ pc'[t] = "take" /\ idle' # idle =>
             \/ Cardinality(live') >= MinSize
             \/ createFailed /\ total > Cardinality(live) ]_vars

\* Expiry by age is complete: the cleanup stops at the first connection that is
\* not to be removed, and what it leaves behind that one is young enough too, or
\* the pool is down to min_size (after a failed creation: total_connections_ says
\* so).  Returns by any threads in any order must keep the queue such that it may
\* stop there.
CleanupIsComplete ==
    [][ \A t \in Client :
          pc[t] = "loop" /\ pc'[t] = "take" =>
             \/ Cardinality(live') <= MinSize
             \/ createFailed /\ total' <= MinSize
             \/ \A c \in Range(idle') : age[c] < IdleMaxAge ]_vars

\* When nothing but expiry by age destroys connections, the open pool never
\* falls below min_size ("never shrinks below min_size", spec-pool.md:166).
MinimumKept ==
    /\ ~HealthCheck /\ ~RollbackOnReturn /\ AssumeStale = 0
    /\ life = "open" /\ ~createFailed
    => Cardinality(live) >= MinSize

\* A thread that has the mutex comes nearer to releasing it with every step it
\* takes: whichever way the loop goes round, a connection has left the queue, and
\* nobody puts one in meanwhile.  No sequence of dead connections, failing checks
\* and raised flags keeps the mutex for ever.
Position == [create |-> 0, rollback |-> 0, take |-> 1, loop |-> 2, check |-> 3]
WorkLeft(t) == 4 * Len(idle) + Position[pc[t]]

HolderAdvances ==
    [][ \A t \in Client :
          lock = t /\ lock' = t /\ <<idle, pc[t]>>' # <<idle, pc[t]>>
             => WorkLeft(t)' < WorkLeft(t) ]_vars

\* Every acquire() returns or throws, whatever the other threads and the server
\* do, unless the pool is destroyed under it.
AcquireEnds ==
    \A t \in Client : pc[t] \in AcquireStep ~> (pc[t] = "out" \/ life = "gone")

\* The destructor returns, whoever holds connections or waits for one.
DestructorEnds == life = "flagged" ~> life = "gone"

\* The pool implements the lending desk.  Connections in the queue, and those a
\* call is checking or rolling back, lie on the shelf.
Place(c) ==
    IF c \notin live THEN "absent"
    ELSE IF \E t \in Client : c \in held[t]
         THEN CHOOSE t \in Client : c \in held[t]
         ELSE "shelf"

Desk == INSTANCE LeaseDesk WITH
    Borrower <- Client, Item <- Conn, Absent <- "absent", Shelf <- "shelf",
    Capacity <- MaxSize,
    lease <- [c \in Conn |-> Place(c)], promised <- ~createFailed

ImplementsDesk == Desk!DeskSpec

(* What the documents say and the code does not do.                        *)

\* README.md: size() is the number of connections, in use and idle.
TotalCountsConnections == life # "gone" => total = Cardinality(live)

\* spec-pool.md: a thread that waits at full load is woken by a return.  No
\* thread sleeps on while it could be served and nobody is about to look.
ReturnWakesWaiter ==
    life = "open" /\ lock = Nobody /\ (\A t \in Client : pc[t] # "woken")
      => Asleep = {} \/ (idle = <<>> /\ ~CanGrow)

\* spec-pool.md: connections still lent when the pool is closed are destroyed
\* as they are returned, so a return must not need the destroyed pool.
NoUseAfterDestroy == \A t \in Client : pc[t] # "lost"

=============================================================================
