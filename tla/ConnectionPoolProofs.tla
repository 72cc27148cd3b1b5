------------------------ MODULE ConnectionPoolProofs ------------------------
(***************************************************************************)
(* What ConnectionPool guarantees for any number of threads, connections   *)
(* and any option values.                                                  *)
(***************************************************************************)
EXTENDS ConnectionPool, FiniteSetTheorems, TLAPS

-----------------------------------------------------------------------------
(* Typing, and who may be where                                            *)

\* A call in progress has a connection in a local variable exactly while it
\* checks one or rolls one back.
HandInUse ==
    \A t \in Client : hand[t] # Nobody <=> pc[t] \in {"check", "rollback"}

\* The mutex belongs to the thread that is in a critical section, and to none
\* when nobody is: the critical sections exclude each other.
Inside == {"loop", "take", "check", "create", "rollback"}
MutexHeld == \A t \in Client : lock = t <=> pc[t] \in Inside

TypeInv == TypeOK /\ HandInUse /\ MutexHeld

USE SizeAssumption, OptionAssumption, IdentityAssumption
    DEF SizeAssumption, OptionAssumption, IdentityAssumption

LEMMA TypeInit == Init => TypeInv
<1> SUFFICES ASSUME Init PROVE TypeInv
  OBVIOUS
<1>1. TypeOK
  <2>1. idle \in Seq(Conn) /\ held \in [Client -> SUBSET Conn] /\ live \in SUBSET Conn
    BY DEF Init
  <2>2. age \in [Conn -> 0..AgeCap] /\ timer \in [Client -> Nat]
    BY DEF Init
  <2>3. pc \in [Client -> PC] /\ sess \in [Conn -> Session] /\ life \in Life
    BY DEF Init, PC, Session, Life
  <2>4. shutdown \in BOOLEAN /\ createFailed \in BOOLEAN
    BY Zenon DEF Init
  <2>5. lock \in Client \cup {Nobody} /\ hand \in [Client -> Conn \cup {Nobody}]
    BY DEF Init
  <2>6. total \in 0..SizeMax /\ netCreated \in Int
    BY DEF Init
  <2>7. QED
    BY <2>1, <2>2, <2>3, <2>4, <2>5, <2>6 DEF TypeOK
<1>2. HandInUse /\ MutexHeld
  BY DEF Init, HandInUse, MutexHeld, Inside
<1>3. QED
  BY <1>1, <1>2 DEF TypeInv

\* What notify_one() does to the threads: the caller is out of the pool, at
\* most one sleeper is woken, and nobody else moves.
LEMMA NotifyOne ==
  ASSUME TypeInv, NEW t \in Client, pc[t] # "asleep", LeaveNotifying(t)
  PROVE  /\ pc' \in [Client -> PC]
         /\ timer' \in [Client -> Nat]
         /\ lock' = Nobody
         /\ pc'[t] = "out"
         /\ \A u \in Client : u # t =>
               pc'[u] = pc[u] \/ (pc[u] = "asleep" /\ pc'[u] = "woken")
  BY DEF LeaveNotifying, Asleep, TypeInv, TypeOK, PC, AcquireStep

\* The typing step is taken action by action, in the order of Next.
LEMMA TypeStep == TypeInv /\ [Next]_vars => TypeInv'
<1> SUFFICES ASSUME TypeInv, [Next]_vars PROVE TypeInv'
  OBVIOUS
<1> USE DEF TypeInv, TypeOK, HandInUse, MutexHeld, Life, PC, AcquireStep, Session, Inside,
            poolVars, threadVars, heapVars, vars, Exists, Free
<1>1. CASE WarmUp
  BY <1>1 DEF WarmUp, Allocate, Inc
<1>2. CASE WarmUpFails
  BY <1>2 DEF WarmUpFails, Delete
<1>3. CASE RaiseFlag
  BY <1>3 DEF RaiseFlag
<1>4. CASE NotifyAll
  BY <1>4 DEF NotifyAll
<1>5. CASE Drain
  BY <1>5 DEF Drain, Delete
<1>6. ASSUME NEW t \in Client, Thread(t) PROVE TypeInv'
  <2>1. CASE Acquire(t)
    BY <2>1 DEF Acquire, Deadline
  <2>2. CASE LoopThrowsShutdown(t)
    BY <2>2 DEF LoopThrowsShutdown, Leave
  <2>3. CASE LoopCleans(t)
    BY <2>3 DEF LoopCleans, Cleanup, Delete, ShouldRemove, AboveMinimum
  <2>4. CASE TakeDropsStale(t)
    BY <2>4 DEF TakeDropsStale, Drop, Delete, Dec
  <2>5. CASE TakeChecks(t)
    BY <2>5 DEF TakeChecks, PopFront
  <2>6. CASE TakeReturns(t)
    BY <2>6 DEF TakeReturns, HandOver, Leave
  <2>7. CASE TakeCreates(t)
    BY <2>7 DEF TakeCreates
  <2>8. CASE TakeWaits(t)
    BY <2>8 DEF TakeWaits
  <2>9. CASE Check(t)
    <3>1. CASE CheckPasses(t, hand[t])
      <4>1. hand[t] \in Conn
        BY <2>9 DEF Check
      <4>2. sess' \in [Conn -> Session]
        <5>1. sess' = sess \/ sess' = [sess EXCEPT ![hand[t]] = "ready"]
          BY <3>1 DEF CheckPasses
        <5>2. QED
          BY <5>1, <4>1
      <4>3. /\ HandOver(t, hand[t]) /\ pc[t] = "check"
            /\ UNCHANGED <<idle, total, netCreated, live, shutdown, life, createFailed>>
        BY <2>9, <3>1 DEF Check, CheckPasses
      <4>4. QED
        BY <4>1, <4>2, <4>3 DEF HandOver, Leave
    <3>2. CASE CheckFails(t, hand[t])
      BY <2>9, <3>2 DEF Check, CheckFails, Drop, Delete, Dec
    <3>3. QED BY <2>9, <3>1, <3>2 DEF Check, CheckOutcome
  <2>10. CASE Create(t)
    BY <2>10 DEF Create, Allocate, Inc, Leave
  <2>11. CASE CreateThrows(t)
    BY <2>11 DEF CreateThrows, Dec, Leave
  <2>12. CASE RollbackSucceeds(t)
    <3>1. LeaveNotifying(t) /\ pc[t] = "rollback" /\ hand[t] \in Conn
      BY <2>12 DEF RollbackSucceeds
    <3>2. idle' \in Seq(Conn) /\ age' \in [Conn -> 0..AgeCap] /\ sess' \in [Conn -> Session]
      BY <2>12, <3>1 DEF RollbackSucceeds, Enqueue
    <3>3. /\ pc' \in [Client -> PC] /\ timer' \in [Client -> Nat]
          /\ lock' = Nobody /\ pc'[t] = "out"
          /\ \A u \in Client : u # t =>
                pc'[u] = pc[u] \/ (pc[u] = "asleep" /\ pc'[u] = "woken")
      BY <3>1, NotifyOne
    <3>4. TypeOK'
      BY <2>12, <3>1, <3>2, <3>3 DEF RollbackSucceeds
    <3>5. HandInUse'
      BY <2>12, <3>1, <3>3 DEF RollbackSucceeds
    <3>6. MutexHeld'
      BY <2>12, <3>1, <3>3 DEF RollbackSucceeds
    <3>7. QED
      BY <3>4, <3>5, <3>6
  <2>13. CASE RollbackFails(t)
    BY <2>13 DEF RollbackFails, Drop, Delete, Dec, Leave
  <2>14. CASE DeadlinePasses(t)
    BY <2>14 DEF DeadlinePasses
  <2>15. CASE SpuriousWake(t)
    BY <2>15 DEF SpuriousWake
  <2>16. CASE WaitReturns(t)
    BY <2>16 DEF WaitReturns, DeadlineKept
  <2>17. CASE WaitTimesOut(t)
    BY <2>17 DEF WaitTimesOut, Leave
  <2>18. ASSUME NEW c \in held[t], ReleaseDestroys(t, c) PROVE TypeInv'
    BY <2>18 DEF ReleaseDestroys, HandleCleared, Drop, Delete, Dec
  <2>19. ASSUME NEW c \in held[t], ReleaseRollsBack(t, c) PROVE TypeInv'
    BY <2>19 DEF ReleaseRollsBack, HandleCleared
  <2>20. ASSUME NEW c \in held[t], ReleaseReturns(t, c) PROVE TypeInv'
    <3>1. LeaveNotifying(t) /\ pc[t] = "out" /\ lock = Nobody /\ c \in Conn
      BY <2>20 DEF ReleaseReturns
    <3>2. idle' \in Seq(Conn) /\ age' \in [Conn -> 0..AgeCap]
      BY <2>20, <3>1 DEF ReleaseReturns, Enqueue
    <3>3. /\ pc' \in [Client -> PC] /\ timer' \in [Client -> Nat]
          /\ lock' = Nobody /\ pc'[t] = "out"
          /\ \A u \in Client : u # t =>
                pc'[u] = pc[u] \/ (pc[u] = "asleep" /\ pc'[u] = "woken")
      BY <3>1, NotifyOne
    <3>4. TypeOK'
      BY <2>20, <3>1, <3>2, <3>3 DEF ReleaseReturns, HandleCleared
    <3>5. HandInUse'
      BY <2>20, <3>1, <3>3 DEF ReleaseReturns, HandleCleared
    <3>6. MutexHeld'
      BY <2>20, <3>1, <3>3 DEF ReleaseReturns, HandleCleared
    <3>7. QED
      BY <3>4, <3>5, <3>6
  <2>21. CASE Use(t)
    <3>1. ASSUME NEW c \in held[t],
                 Begin(t, c) \/ Finish(t, c) \/ Close(t, c) \/ Reconnect(t, c)
          PROVE  TypeInv'
      BY <3>1 DEF Begin, Finish, Close, Reconnect
    <3>2. ASSUME NEW c \in held[t], NEW u \in Client, MoveHandle(t, u, c)
          PROVE  TypeInv'
      <4>1. c \in Conn
        OBVIOUS
      <4>2. held' \in [Client -> SUBSET Conn]
        BY <3>2, <4>1 DEF MoveHandle
      <4>3. QED
        BY <3>2, <4>2 DEF MoveHandle
    <3>3. QED
      BY <2>21, <3>1, <3>2 DEF Use
  <2>22. CASE UseAfterDestroy(t)
    BY <2>22 DEF UseAfterDestroy
  <2>23. QED
    BY <1>6, <2>1, <2>2, <2>3, <2>4, <2>5, <2>6, <2>7, <2>8, <2>9, <2>10, <2>11, <2>12,
       <2>13, <2>14, <2>15, <2>16, <2>17, <2>18, <2>19, <2>20, <2>21, <2>22
       DEF Thread, Critical, Wakeup, Release
<1>7. ASSUME NEW c \in Conn, ServerDrops(c) PROVE TypeInv'
  BY <1>7 DEF ServerDrops
<1>8. CASE Tick
  BY <1>8 DEF Tick, Older
<1>9. CASE Over
  BY <1>9 DEF Over
<1>10. CASE UNCHANGED vars
  BY <1>10
<1>11. QED
  BY <1>1, <1>2, <1>3, <1>4, <1>5, <1>6, <1>7, <1>8, <1>9, <1>10 DEF Next, Destroy

\* Every variable stays in its domain, critical sections exclude each other,
\* and a call holds a connection in a local variable only where it says so.
THEOREM TypeCorrect == Spec => []TypeInv
<1>1. Init => TypeInv
  BY TypeInit
<1>2. TypeInv /\ [Next]_vars => TypeInv'
  BY TypeStep
<1>3. QED
  BY <1>1, <1>2, PTL DEF Spec

\* In particular total_connections_ never leaves the range of a size_t, and
\* every step finds the variables in their domains.
THEOREM TypesAreKept == Spec => []TypeOK
<1>1. TypeInv => TypeOK
  BY DEF TypeInv
<1>2. QED
  BY <1>1, TypeCorrect, PTL

-----------------------------------------------------------------------------
(* The idle queue as a set                                                 *)

LEMMA RangeOfAppend ==
  ASSUME NEW S, NEW s \in Seq(S), NEW c \in S
  PROVE  /\ Range(Append(s, c)) = Range(s) \cup {c}
         /\ IsInjective(s) /\ c \notin Range(s) => IsInjective(Append(s, c))
<1> DEFINE a == Append(s, c)
<1>1. /\ DOMAIN s = 1..Len(s) /\ DOMAIN a = 1..(Len(s) + 1) /\ Len(s) \in Nat
      /\ a[Len(s) + 1] = c
      /\ \A i \in 1..Len(s) : a[i] = s[i]
  OBVIOUS
<1>2. Range(a) = Range(s) \cup {c}
  BY <1>1 DEF Range
<1>3. IsInjective(s) /\ c \notin Range(s) => IsInjective(a)
  BY <1>1 DEF Range, IsInjective
<1>4. QED
  BY <1>2, <1>3

LEMMA RangeOfTail ==
  ASSUME NEW S, NEW s \in Seq(S), s # <<>>, IsInjective(s)
  PROVE  /\ Head(s) \in Range(s)
         /\ Range(Tail(s)) = Range(s) \ {Head(s)}
         /\ IsInjective(Tail(s))
<1>1. /\ DOMAIN s = 1..Len(s) /\ Len(s) \in Nat \ {0}
      /\ Head(s) = s[1]
      /\ DOMAIN Tail(s) = 1..(Len(s) - 1)
      /\ \A i \in 1..(Len(s) - 1) : Tail(s)[i] = s[i + 1]
  OBVIOUS
<1>2. Head(s) \in Range(s)
  BY <1>1 DEF Range
<1>3. Range(Tail(s)) \subseteq Range(s) \ {Head(s)}
  BY <1>1 DEF Range, IsInjective
<1>4. ASSUME NEW x \in Range(s), x # Head(s) PROVE x \in Range(Tail(s))
  <2>1. PICK i \in 1..Len(s) : x = s[i]
    BY <1>1 DEF Range
  <2>2. i # 1 /\ i - 1 \in 1..(Len(s) - 1) /\ Tail(s)[i - 1] = x
    BY <1>1, <1>4, <2>1
  <2>3. QED
    BY <1>1, <2>2 DEF Range
<1>5. IsInjective(Tail(s))
  <2> SUFFICES ASSUME NEW i \in 1..(Len(s) - 1), NEW j \in 1..(Len(s) - 1),
                      Tail(s)[i] = Tail(s)[j]
               PROVE  i = j
    BY <1>1 DEF IsInjective
  <2>1. s[i + 1] = s[j + 1] /\ i + 1 \in DOMAIN s /\ j + 1 \in DOMAIN s
    BY <1>1
  <2>2. QED
    BY <2>1 DEF IsInjective
<1>6. QED
  BY <1>2, <1>3, <1>4, <1>5

\* The queue after cleanup_idle_connections() has taken k off its front.
LEMMA RangeOfRest ==
  ASSUME NEW S, NEW s \in Seq(S), NEW k \in 0..Len(s), IsInjective(s)
  PROVE  /\ Range(SubSeq(s, k + 1, Len(s))) = Range(s) \ {s[i] : i \in 1..k}
         /\ IsInjective(SubSeq(s, k + 1, Len(s)))
<1> DEFINE r == SubSeq(s, k + 1, Len(s))
<1>1. /\ DOMAIN s = 1..Len(s) /\ Len(s) \in Nat /\ k \in Nat /\ k <= Len(s)
      /\ DOMAIN r = 1..(Len(s) - k)
      /\ \A i \in 1..(Len(s) - k) : r[i] = s[i + k]
  OBVIOUS
<1>2. Range(r) \subseteq Range(s)
  BY <1>1 DEF Range
<1>3. ASSUME NEW x \in Range(r) PROVE x \notin {s[i] : i \in 1..k}
  <2>1. PICK j \in 1..(Len(s) - k) : x = s[j + k]
    BY <1>1 DEF Range
  <2>2. j + k \in DOMAIN s /\ j + k > k /\ \A i \in 1..k : i \in DOMAIN s /\ i < j + k
    BY <1>1
  <2>3. \A i \in 1..k : s[i] # s[j + k]
    BY <2>2 DEF IsInjective
  <2>4. QED
    BY <2>1, <2>3
<1>4. ASSUME NEW x \in Range(s), x \notin {s[i] : i \in 1..k} PROVE x \in Range(r)
  <2>1. PICK i \in 1..Len(s) : x = s[i]
    BY <1>1 DEF Range
  <2>2. i - k \in 1..(Len(s) - k) /\ r[i - k] = x
    BY <1>1, <1>4, <2>1
  <2>3. QED
    BY <1>1, <2>2 DEF Range
<1>5. IsInjective(r)
  <2> SUFFICES ASSUME NEW i \in 1..(Len(s) - k), NEW j \in 1..(Len(s) - k), r[i] = r[j]
               PROVE  i = j
    BY <1>1 DEF IsInjective
  <2>1. s[i + k] = s[j + k]
    BY <1>1
  <2>2. i + k \in 1..Len(s) /\ j + k \in 1..Len(s)
    BY <1>1
  <2>3. i + k = j + k
    BY <1>1, <2>1, <2>2 DEF IsInjective
  <2>4. QED
    BY <1>1, <2>3
<1>6. QED
  BY <1>2, <1>3, <1>4, <1>5

-----------------------------------------------------------------------------
(* Ownership                                                               *)

\* HeapIsOwned, connection by connection.
HasOwner(c) ==
    c \in Range(idle) \/ \E t \in Client : c \in held[t] \/ hand[t] = c
Owned == \A c \in Conn : c \in live <=> HasOwner(c)

LEMMA OwnedIsHeapIsOwned == TypeInv => (Owned <=> HeapIsOwned)
<1> SUFFICES ASSUME TypeInv PROVE Owned <=> HeapIsOwned
  OBVIOUS
<1>1. Range(idle) \subseteq Conn
  BY DEF TypeInv, TypeOK, Range
<1>2. \A t \in Client : held[t] \subseteq Conn /\ hand[t] \in Conn \cup {Nobody}
  BY DEF TypeInv, TypeOK
<1>3. live \subseteq Conn
  BY DEF TypeInv, TypeOK
<1>4. \A c : c \in Lent <=> \E t \in Client : c \in held[t]
  BY DEF Lent
<1>5. \A c : c \in InUse <=> c # Nobody /\ \E t \in Client : c = hand[t]
  BY DEF InUse
<1>6. References \subseteq Conn /\ \A c \in Conn : c \in References <=> HasOwner(c)
  BY <1>1, <1>2, <1>4, <1>5 DEF HasOwner, References
<1>7. (live = References) <=> \A c \in Conn : c \in live <=> c \in References
  BY <1>3, <1>6
<1>8. QED
  BY <1>6, <1>7 DEF Owned, HeapIsOwned

OwnInv == TypeInv /\ Owned /\ Exclusive

LEMMA OwnInit == Init => OwnInv
<1> SUFFICES ASSUME Init PROVE OwnInv
  OBVIOUS
<1>1. Range(idle) = {}
  BY DEF Init, Range
<1>2. Owned
  BY <1>1 DEF Init, Owned, HasOwner
<1>3. Exclusive
  BY <1>1 DEF Init, Exclusive, IsInjective
<1>4. QED
  BY <1>2, <1>3, TypeInit DEF OwnInv

\* A step that leaves the references alone keeps their invariant.
LEMMA OwnStutter ==
  ASSUME OwnInv, UNCHANGED <<idle, held, hand, live>>
  PROVE  (Owned /\ Exclusive)'
  BY DEF OwnInv, Owned, HasOwner, Exclusive, Range

\* In each step the set of queued connections is computed first; what remains
\* is a matter of sets.
LEMMA OwnStep == OwnInv /\ [Next]_vars => (Owned /\ Exclusive)'
<1> SUFFICES ASSUME OwnInv, [Next]_vars PROVE (Owned /\ Exclusive)'
  OBVIOUS
<1> USE DEF OwnInv
<1>0. /\ TypeInv /\ idle \in Seq(Conn) /\ IsInjective(idle) /\ Range(idle) \subseteq Conn
      /\ held \in [Client -> SUBSET Conn] /\ hand \in [Client -> Conn \cup {Nobody}]
      /\ live \subseteq Conn
  BY DEF TypeInv, TypeOK, Exclusive, IsInjective, Range
<1>1. CASE WarmUp
  <2>1. PICK c \in Free : Allocate(c) /\ idle' = Append(idle, c)
    BY <1>1 DEF WarmUp
  <2>2. /\ c \in Conn \ live /\ live' = live \cup {c}
        /\ UNCHANGED <<hand, held>>
    BY <1>1, <2>1 DEF WarmUp, Allocate, Free, threadVars
  <2>3. ~HasOwner(c)
    BY <2>2 DEF Owned
  <2>4. Range(idle') = Range(idle) \cup {c} /\ IsInjective(idle')
    BY <1>0, <2>1, <2>2, <2>3, RangeOfAppend DEF HasOwner
  <2>5. Owned'
    BY <2>2, <2>4 DEF Owned, HasOwner
  <2>6. Exclusive'
    BY <1>0, <2>2, <2>3, <2>4 DEF Exclusive, HasOwner, IsInjective
  <2>7. QED
    BY <2>5, <2>6
<1>2. CASE WarmUpFails \/ Drain
  <2>1. /\ idle' = <<>> /\ live' = live \ Range(idle) /\ UNCHANGED <<hand, held>>
    BY <1>2 DEF WarmUpFails, Drain, Delete, threadVars
  <2>2. Range(idle') = {} /\ IsInjective(idle')
    BY <2>1 DEF Range, IsInjective
  <2>3. Owned'
    BY <1>0, <2>1, <2>2 DEF Owned, HasOwner, Exclusive
  <2>4. Exclusive'
    BY <2>1, <2>2 DEF Exclusive, IsInjective
  <2>5. QED
    BY <2>3, <2>4
<1>3. ASSUME NEW t \in Client, Thread(t) PROVE (Owned /\ Exclusive)'
  <2>1. CASE LoopCleans(t)
    <3>1. UNCHANGED <<hand, held>> /\ Cleanup
      BY <2>1 DEF LoopCleans
    <3>2. PICK k \in 0..Len(idle) :
             /\ live' = live \ {idle[i] : i \in 1..k}
             /\ idle' = SubSeq(idle, k + 1, Len(idle))
      BY <3>1 DEF Cleanup, Delete
    <3>3. Range(idle') = Range(idle) \ {idle[i] : i \in 1..k} /\ IsInjective(idle')
      <4>1. \A n \in 0..Len(idle) :
               /\ Range(SubSeq(idle, n + 1, Len(idle))) = Range(idle) \ {idle[i] : i \in 1..n}
               /\ IsInjective(SubSeq(idle, n + 1, Len(idle)))
        BY <1>0, RangeOfRest
      <4>2. QED
        BY <3>2, <4>1
    <3>4. {idle[i] : i \in 1..k} \subseteq Range(idle)
      BY <1>0 DEF Range
    <3>5. Owned'
      BY <1>0, <3>1, <3>2, <3>3, <3>4 DEF Owned, HasOwner, Exclusive
    <3>6. Exclusive'
      BY <3>1, <3>3 DEF Exclusive, IsInjective
    <3>7. QED
      BY <3>5, <3>6
  <2>2. CASE TakeDropsStale(t)
    <3>1. /\ idle # <<>> /\ idle' = Tail(idle) /\ live' = live \ {Head(idle)}
          /\ UNCHANGED <<hand, held>>
      BY <2>2 DEF TakeDropsStale, Drop, Delete
    <3>2. /\ Head(idle) \in Range(idle) /\ Range(idle') = Range(idle) \ {Head(idle)}
          /\ IsInjective(idle')
      BY <1>0, <3>1, RangeOfTail
    <3>3. Owned'
      BY <1>0, <3>1, <3>2 DEF Owned, HasOwner, Exclusive
    <3>4. Exclusive'
      BY <3>1, <3>2 DEF Exclusive, IsInjective
    <3>5. QED
      BY <3>3, <3>4
  <2>3. CASE TakeChecks(t)
    <3>1. /\ idle # <<>> /\ idle' = Tail(idle)
          /\ hand' = [hand EXCEPT ![t] = Head(idle)] /\ UNCHANGED <<live, held>>
      BY <2>3 DEF TakeChecks, PopFront, heapVars
    <3>2. /\ Head(idle) \in Range(idle) /\ Range(idle') = Range(idle) \ {Head(idle)}
          /\ IsInjective(idle')
      BY <1>0, <3>1, RangeOfTail
    <3>3. hand[t] = Nobody
      BY <2>3 DEF TakeChecks, TypeInv, HandInUse
    <3>4. Owned'
      BY <1>0, <3>1, <3>2, <3>3 DEF Owned, HasOwner
    <3>5. Exclusive'
      BY <1>0, <3>1, <3>2, <3>3 DEF Exclusive, IsInjective
    <3>6. QED
      BY <3>4, <3>5
  <2>4. CASE TakeReturns(t)
    <3>1. /\ idle # <<>> /\ idle' = Tail(idle)
          /\ held' = [held EXCEPT ![t] = @ \cup {Head(idle)}]
          /\ hand' = [hand EXCEPT ![t] = Nobody] /\ UNCHANGED live
      BY <2>4 DEF TakeReturns, HandOver
    <3>2. /\ Head(idle) \in Range(idle) /\ Range(idle') = Range(idle) \ {Head(idle)}
          /\ IsInjective(idle')
      BY <1>0, <3>1, RangeOfTail
    <3>3. hand' = hand
      BY <1>0, <2>4, <3>1 DEF TakeReturns, TypeInv, HandInUse
    <3>4. Owned'
      BY <1>0, <3>1, <3>2, <3>3 DEF Owned, HasOwner
    <3>5. Exclusive'
      BY <1>0, <3>1, <3>2, <3>3 DEF Exclusive, IsInjective
    <3>6. QED
      BY <3>4, <3>5
  <2>5. CASE Check(t) \/ RollbackSucceeds(t) \/ RollbackFails(t)
    <3>1. hand[t] \in Conn /\ hand[t] \in live /\ hand[t] \notin Range(idle)
      BY <1>0, <2>5 DEF Check, RollbackSucceeds, RollbackFails, TypeInv, HandInUse,
                        Owned, HasOwner, Exclusive
    <3>2. hand' = [hand EXCEPT ![t] = Nobody]
      BY <2>5 DEF Check, CheckOutcome, CheckPasses, CheckFails, HandOver,
                  RollbackSucceeds, RollbackFails
    <3>3. CASE Check(t) /\ CheckPasses(t, hand[t])
      <4>1. /\ held' = [held EXCEPT ![t] = @ \cup {hand[t]}] /\ UNCHANGED <<idle, live>>
        BY <3>3 DEF CheckPasses, HandOver
      <4>2. Owned'
        BY <1>0, <3>1, <3>2, <4>1 DEF Owned, HasOwner
      <4>3. Exclusive'
        BY <1>0, <3>1, <3>2, <4>1 DEF Exclusive
      <4>4. QED
        BY <4>2, <4>3
    <3>4. CASE (Check(t) /\ CheckFails(t, hand[t])) \/ RollbackFails(t)
      <4>1. live' = live \ {hand[t]} /\ UNCHANGED <<idle, held>>
        BY <3>4 DEF CheckFails, RollbackFails, Drop, Delete
      <4>2. Owned'
        BY <1>0, <3>1, <3>2, <4>1 DEF Owned, HasOwner, Exclusive
      <4>3. Exclusive'
        BY <1>0, <3>1, <3>2, <4>1 DEF Exclusive
      <4>4. QED
        BY <4>2, <4>3
    <3>5. CASE RollbackSucceeds(t)
      <4>1. idle' = Append(idle, hand[t]) /\ UNCHANGED <<live, held>>
        BY <3>5 DEF RollbackSucceeds, Enqueue
      <4>2. Range(idle') = Range(idle) \cup {hand[t]} /\ IsInjective(idle')
        BY <1>0, <3>1, <4>1, RangeOfAppend
      <4>3. Owned'
        BY <1>0, <3>1, <3>2, <4>1, <4>2 DEF Owned, HasOwner
      <4>4. Exclusive'
        BY <1>0, <3>1, <3>2, <4>1, <4>2 DEF Exclusive, IsInjective
      <4>5. QED
        BY <4>3, <4>4
    <3>6. QED
      BY <2>5, <3>3, <3>4, <3>5 DEF Check, CheckOutcome
  <2>6. CASE Create(t)
    <3>1. PICK c \in Free : Allocate(c) /\ held' = [held EXCEPT ![t] = @ \cup {c}]
      BY <2>6 DEF Create
    <3>2. c \in Conn \ live /\ live' = live \cup {c} /\ UNCHANGED <<hand, idle>>
      BY <2>6, <3>1 DEF Create, Allocate, Free
    <3>3. ~HasOwner(c)
      BY <3>2 DEF Owned
    <3>4. Owned'
      BY <1>0, <3>1, <3>2 DEF Owned, HasOwner
    <3>5. Exclusive'
      BY <1>0, <3>1, <3>2, <3>3 DEF Exclusive, HasOwner
    <3>6. QED
      BY <3>4, <3>5
  <2>7. ASSUME NEW c \in held[t], ReleaseDestroys(t, c) PROVE (Owned /\ Exclusive)'
    <3>1. /\ held' = [held EXCEPT ![t] = @ \ {c}] /\ live' = live \ {c}
          /\ UNCHANGED <<hand, idle>>
      BY <2>7 DEF ReleaseDestroys, HandleCleared, Drop, Delete
    <3>2. Owned'
      BY <1>0, <3>1 DEF Owned, HasOwner, Exclusive
    <3>3. Exclusive'
      BY <1>0, <3>1 DEF Exclusive
    <3>4. QED
      BY <3>2, <3>3
  <2>8. ASSUME NEW c \in held[t], ReleaseRollsBack(t, c) PROVE (Owned /\ Exclusive)'
    <3>1. /\ held' = [held EXCEPT ![t] = @ \ {c}] /\ hand' = [hand EXCEPT ![t] = c]
          /\ UNCHANGED <<live, idle>>
      BY <2>8 DEF ReleaseRollsBack, HandleCleared, heapVars
    <3>2. hand[t] = Nobody
      BY <2>8 DEF ReleaseRollsBack, TypeInv, HandInUse
    <3>3. Owned'
      BY <1>0, <3>1, <3>2 DEF Owned, HasOwner
    <3>4. Exclusive'
      BY <1>0, <3>1, <3>2 DEF Exclusive
    <3>5. QED
      BY <3>3, <3>4
  <2>9. ASSUME NEW c \in held[t], ReleaseReturns(t, c) PROVE (Owned /\ Exclusive)'
    <3>1. /\ held' = [held EXCEPT ![t] = @ \ {c}] /\ idle' = Append(idle, c)
          /\ UNCHANGED <<live, hand>>
      BY <2>9 DEF ReleaseReturns, HandleCleared, Enqueue
    <3>2. c \in Conn /\ c \notin Range(idle)
      BY <1>0 DEF Exclusive
    <3>3. Range(idle') = Range(idle) \cup {c} /\ IsInjective(idle')
      BY <1>0, <3>1, <3>2, RangeOfAppend
    <3>4. Owned'
      BY <1>0, <3>1, <3>2, <3>3 DEF Owned, HasOwner
    <3>5. Exclusive'
      BY <1>0, <3>1, <3>2, <3>3 DEF Exclusive, IsInjective
    <3>6. QED
      BY <3>4, <3>5
  <2>10. ASSUME NEW c \in held[t], NEW u \in Client, MoveHandle(t, u, c)
         PROVE  (Owned /\ Exclusive)'
    <3>1. /\ t # u /\ held' = [held EXCEPT ![t] = @ \ {c}, ![u] = @ \cup {c}]
          /\ UNCHANGED <<idle, live, hand>>
      BY <2>10 DEF MoveHandle, poolVars, heapVars
    <3>2. Owned'
      BY <1>0, <3>1 DEF Owned, HasOwner
    <3>3. Exclusive'
      BY <1>0, <3>1 DEF Exclusive
    <3>4. QED
      BY <3>2, <3>3
  <2>11. CASE Acquire(t) \/ LoopThrowsShutdown(t) \/ TakeCreates(t) \/ TakeWaits(t)
               \/ CreateThrows(t) \/ DeadlinePasses(t) \/ SpuriousWake(t)
               \/ WaitReturns(t) \/ WaitTimesOut(t) \/ UseAfterDestroy(t)
    BY <2>11, OwnStutter
       DEF Acquire, LoopThrowsShutdown, TakeCreates, TakeWaits, CreateThrows,
           DeadlinePasses, SpuriousWake, WaitReturns, WaitTimesOut, UseAfterDestroy,
           poolVars, heapVars
  <2>12. ASSUME NEW c \in held[t],
                Begin(t, c) \/ Finish(t, c) \/ Close(t, c) \/ Reconnect(t, c)
         PROVE  (Owned /\ Exclusive)'
    BY <2>12, OwnStutter DEF Begin, Finish, Close, Reconnect, poolVars, threadVars
  <2>13. QED
    BY <1>3, <2>1, <2>2, <2>3, <2>4, <2>5, <2>6, <2>7, <2>8, <2>9, <2>10, <2>11, <2>12
       DEF Thread, Critical, Wakeup, Release, Use
<1>4. ASSUME NEW c \in Conn, ServerDrops(c) PROVE (Owned /\ Exclusive)'
  BY <1>4, OwnStutter DEF ServerDrops, poolVars, threadVars
<1>5. CASE RaiseFlag \/ NotifyAll \/ Tick \/ Over \/ UNCHANGED vars
  BY <1>5, OwnStutter
     DEF RaiseFlag, NotifyAll, Tick, Over, vars, poolVars, threadVars, heapVars
<1>6. QED
  BY <1>1, <1>2, <1>3, <1>4, <1>5 DEF Next, Destroy

LEMMA OwnInvariant == Spec => []OwnInv
<1>1. OwnInv /\ [Next]_vars => OwnInv'
  BY TypeStep, OwnStep DEF OwnInv
<1>2. QED
  BY <1>1, OwnInit, PTL DEF Spec

\* No connection is ever leaked, used after its deletion or returned twice.
THEOREM HeapIsAlwaysOwned == Spec => []HeapIsOwned
<1>1. OwnInv => HeapIsOwned
  BY OwnedIsHeapIsOwned DEF OwnInv
<1>2. QED
  BY <1>1, OwnInvariant, PTL

\* No two threads, and no thread and the queue, have one connection.
THEOREM ExclusiveOwnership == Spec => []Exclusive
<1>1. OwnInv => Exclusive
  BY DEF OwnInv
<1>2. QED
  BY <1>1, OwnInvariant, PTL

-----------------------------------------------------------------------------
(* The counters                                                            *)

LEMMA PrefixCardinality ==
  ASSUME NEW S, NEW s \in Seq(S), NEW k \in 0..Len(s), IsInjective(s)
  PROVE  /\ IsFiniteSet({s[i] : i \in 1..k})
         /\ Cardinality({s[i] : i \in 1..k}) = k
<1> DEFINE P == {s[i] : i \in 1..k}
           f == [i \in 1..k |-> s[i]]
<1>1. k \in Nat /\ Len(s) \in Nat /\ 1..k \subseteq DOMAIN s
  OBVIOUS
<1>2. f \in [1..k -> P]
  OBVIOUS
<1>3. \A i, j \in 1..k : f[i] = f[j] => i = j
  BY <1>1 DEF IsInjective
<1>4. \A x \in P : \E i \in 1..k : f[i] = x
  OBVIOUS
<1>5. f \in Bijection(1..k, P)
  BY <1>2, <1>3, <1>4 DEF Bijection, Injection, Surjection, IsInjective
<1>6. ExistsBijection(1..k, P)
  BY <1>5 DEF ExistsBijection
<1>7. IsFiniteSet(1..k) /\ Cardinality(1..k) = k
  BY <1>1, FS_Interval
<1>8. QED
  BY <1>6, <1>7, FS_Bijection

\* The life of the pool as the counters see it: nobody uses a pool that is not
\* open yet, total_connections_ stays below min_size until the warm-up is over,
\* and no critical section survives the destructor.
Phase ==
    /\ life \in {"warming", "aborted"} =>
          \A t \in Client : pc[t] = "out" /\ held[t] = {}
    /\ life = "warming" => total = Len(idle) /\ total < MinSize
    /\ life = "gone" => lock = Nobody

\* The capacity test is still true when the new connection arrives.
GrowthIsCovered == \A t \in Client : pc[t] = "create" => CanGrow

CountInv == OwnInv /\ Phase /\ GrowthIsCovered /\ LedgerMatchesHeap /\ CapacityRespected

LEMMA CountInit == Init => CountInv
<1> SUFFICES ASSUME Init PROVE CountInv
  OBVIOUS
<1>1. Phase /\ GrowthIsCovered
  BY DEF Init, Phase, GrowthIsCovered
<1>2. LedgerMatchesHeap /\ CapacityRespected
  BY FS_EmptySet DEF Init, LedgerMatchesHeap, CapacityRespected
<1>3. QED
  BY <1>1, <1>2, OwnInit DEF CountInv

\* A connection is created where there was room for it.
LEMMA CountAdd ==
  ASSUME CountInv, NEW c \in Conn \ live, life # "gone", CanGrow,
         live' = live \cup {c}, total' = Inc(total), netCreated' = netCreated + 1,
         UNCHANGED createFailed
  PROVE  (LedgerMatchesHeap /\ CapacityRespected)'
<1> USE DEF CountInv, OwnInv, TypeInv, TypeOK
<1>1. IsFiniteSet(live) /\ Cardinality(live) \in Nat
  BY FS_Subset, FS_CardinalityType
<1>2. Cardinality(live') = Cardinality(live) + 1
  BY <1>1, FS_AddElement
<1>3. ~createFailed => total' = total + 1 /\ total = Cardinality(live)
  BY DEF CanGrow, Inc, LedgerMatchesHeap
<1>4. QED
  BY <1>1, <1>2, <1>3 DEF LedgerMatchesHeap, CapacityRespected, CanGrow

\* A connection is destroyed and counted.
LEMMA CountRemove ==
  ASSUME CountInv, NEW c \in live, live' = live \ {c}, total' = Dec(total),
         netCreated' = netCreated - 1, UNCHANGED <<createFailed, life>>
  PROVE  (LedgerMatchesHeap /\ CapacityRespected)'
<1> USE DEF CountInv, OwnInv, TypeInv, TypeOK
<1>1. IsFiniteSet(live) /\ Cardinality(live) \in Nat
  BY FS_Subset, FS_CardinalityType
<1>2. Cardinality(live') = Cardinality(live) - 1 /\ Cardinality(live) # 0
  BY <1>1, FS_RemoveElement, FS_EmptySet
<1>3. ~createFailed /\ life # "gone" => total' = total - 1
  BY <1>1, <1>2 DEF Dec, LedgerMatchesHeap
<1>4. QED
  BY <1>1, <1>2, <1>3 DEF LedgerMatchesHeap, CapacityRespected

\* k connections are taken off the front of the queue and counted.
LEMMA CountRemovePrefix ==
  ASSUME CountInv, NEW k \in 0..Len(idle), live' = live \ {idle[i] : i \in 1..k},
         netCreated' = netCreated - k, UNCHANGED createFailed,
         life' = "gone" \/ (total' = total - k /\ UNCHANGED life)
  PROVE  (LedgerMatchesHeap /\ CapacityRespected)'
<1> DEFINE P == {idle[i] : i \in 1..k}
<1>1. IsFiniteSet(live) /\ Cardinality(live) \in Nat
  BY FS_Subset, FS_CardinalityType DEF CountInv, OwnInv, TypeInv, TypeOK
<1>2. idle \in Seq(Conn) /\ IsInjective(idle)
  BY DEF CountInv, OwnInv, TypeInv, TypeOK, Exclusive, IsInjective
<1>3. P \subseteq live
  BY <1>2 DEF CountInv, OwnInv, Owned, HasOwner, Range
<1>4. IsFiniteSet(P) /\ Cardinality(P) = k
  BY <1>2, PrefixCardinality
<1>5. live \cap P = P
  BY <1>3
<1>6. Cardinality(live') = Cardinality(live) - k
  <2>1. Cardinality(live \ P) = Cardinality(live) - Cardinality(live \cap P)
    BY <1>1, FS_Difference
  <2>2. QED
    BY <1>4, <1>5, <2>1
<1>7. QED
  BY <1>1, <1>6 DEF CountInv, OwnInv, TypeInv, TypeOK, LedgerMatchesHeap, CapacityRespected

\* Phase and GrowthIsCovered, action by action: total_connections_ changes only
\* in the thread that has the mutex, so a capacity test stays true.
LEMMA PhaseStep == CountInv /\ [Next]_vars => (Phase /\ GrowthIsCovered)'
<1> SUFFICES ASSUME CountInv, [Next]_vars PROVE (Phase /\ GrowthIsCovered)'
  OBVIOUS
<1>0. /\ TypeOK /\ HandInUse /\ MutexHeld /\ Phase /\ GrowthIsCovered
      /\ total \in 0..SizeMax
  BY DEF CountInv, OwnInv, TypeInv, TypeOK
<1> USE DEF Phase, GrowthIsCovered, CanGrow, MutexHeld, Inside, Exists,
            poolVars, threadVars, heapVars, vars
<1>1. CASE WarmUp
  <2>1. PICK c \in Free : idle' = Append(idle, c)
    BY <1>1 DEF WarmUp
  <2>2. c \in Conn /\ Len(idle) \in Nat /\ Len(idle') = Len(idle) + 1
    BY <1>0, <2>1 DEF Free, TypeOK
  <2>3. total' = total + 1
    BY <1>0, <1>1, <2>2 DEF WarmUp, Inc
  <2>4. QED
    BY <1>0, <1>1, <2>2, <2>3 DEF WarmUp
<1>2. CASE WarmUpFails
  BY <1>0, <1>2 DEF WarmUpFails
<1>3. CASE RaiseFlag
  BY <1>0, <1>3 DEF RaiseFlag
<1>4. CASE NotifyAll
  BY <1>0, <1>4 DEF NotifyAll, TypeOK
<1>5. CASE Drain
  BY <1>0, <1>5 DEF Drain, MutexIsFree
<1>6. ASSUME NEW t \in Client, Thread(t) PROVE (Phase /\ GrowthIsCovered)'
  <2>0. life \in {"warming", "aborted"} => pc[t] = "out" /\ held[t] = {}
    BY <1>0
  <2>1. CASE Acquire(t)
    BY <1>0, <2>1 DEF Acquire, TypeOK
  <2>2. CASE LoopThrowsShutdown(t) \/ CreateThrows(t) \/ WaitTimesOut(t)
    BY <1>0, <2>0, <2>2 DEF LoopThrowsShutdown, CreateThrows, WaitTimesOut, Leave, TypeOK
  <2>3. CASE LoopCleans(t)
    BY <1>0, <2>0, <2>3 DEF LoopCleans, TypeOK
  <2>4. CASE TakeDropsStale(t) \/ TakeChecks(t)
    BY <1>0, <2>0, <2>4 DEF TakeDropsStale, TakeChecks, TypeOK
  <2>5. CASE TakeReturns(t)
    BY <1>0, <2>0, <2>5 DEF TakeReturns, HandOver, Leave, TypeOK
  <2>6. CASE TakeCreates(t)
    BY <1>0, <2>0, <2>6 DEF TakeCreates, TypeOK
  <2>7. CASE TakeWaits(t)
    BY <1>0, <2>0, <2>7 DEF TakeWaits, TypeOK
  <2>8. CASE Check(t)
    BY <1>0, <2>0, <2>8 DEF Check, CheckOutcome, CheckPasses, CheckFails, HandOver, Leave, TypeOK
  <2>9. CASE Create(t)
    BY <1>0, <2>0, <2>9 DEF Create, Leave, TypeOK
  <2>10. CASE RollbackFails(t)
    BY <1>0, <2>0, <2>10 DEF RollbackFails, Leave, TypeOK
  <2>11. CASE RollbackSucceeds(t)
    <3>1. LeaveNotifying(t) /\ pc[t] = "rollback" /\ UNCHANGED <<total, life, held>>
      BY <2>11 DEF RollbackSucceeds
    <3>2. /\ lock' = Nobody /\ pc'[t] = "out"
          /\ \A u \in Client : u # t =>
                pc'[u] = pc[u] \/ (pc[u] = "asleep" /\ pc'[u] = "woken")
      BY <3>1, NotifyOne DEF CountInv, OwnInv
    <3>3. QED
      BY <1>0, <2>0, <3>1, <3>2
  <2>12. CASE DeadlinePasses(t) \/ SpuriousWake(t) \/ UseAfterDestroy(t)
    BY <1>0, <2>0, <2>12 DEF DeadlinePasses, SpuriousWake, UseAfterDestroy, TypeOK
  <2>13. CASE WaitReturns(t)
    BY <1>0, <2>0, <2>13 DEF WaitReturns, TypeOK
  <2>14. ASSUME NEW c \in held[t], ReleaseDestroys(t, c)
         PROVE  (Phase /\ GrowthIsCovered)'
    BY <1>0, <2>14 DEF ReleaseDestroys
  <2>15. ASSUME NEW c \in held[t], ReleaseRollsBack(t, c)
         PROVE  (Phase /\ GrowthIsCovered)'
    BY <1>0, <2>15 DEF ReleaseRollsBack, TypeOK
  <2>16. ASSUME NEW c \in held[t], ReleaseReturns(t, c)
         PROVE  (Phase /\ GrowthIsCovered)'
    <3>1. LeaveNotifying(t) /\ pc[t] = "out" /\ Exists /\ UNCHANGED <<total, life>>
      BY <2>16 DEF ReleaseReturns
    <3>2. /\ lock' = Nobody /\ pc'[t] = "out"
          /\ \A u \in Client : u # t =>
                pc'[u] = pc[u] \/ (pc[u] = "asleep" /\ pc'[u] = "woken")
      BY <3>1, NotifyOne DEF CountInv, OwnInv
    <3>3. QED
      BY <1>0, <3>1, <3>2
  <2>17. CASE Use(t)
    BY <1>0, <2>0, <2>17 DEF Use, Begin, Finish, Close, Reconnect, MoveHandle
  <2>18. QED
    BY <1>6, <2>1, <2>2, <2>3, <2>4, <2>5, <2>6, <2>7, <2>8, <2>9, <2>10, <2>11, <2>12,
       <2>13, <2>14, <2>15, <2>16, <2>17
       DEF Thread, Critical, Wakeup, Release
<1>7. ASSUME NEW c \in Conn, ServerDrops(c) PROVE (Phase /\ GrowthIsCovered)'
  BY <1>0, <1>7 DEF ServerDrops
<1>8. CASE Tick \/ Over \/ UNCHANGED vars
  BY <1>0, <1>8 DEF Tick, Over
<1>9. QED
  BY <1>1, <1>2, <1>3, <1>4, <1>5, <1>6, <1>7, <1>8 DEF Next, Destroy

LEMMA CountStep == CountInv /\ [Next]_vars => (LedgerMatchesHeap /\ CapacityRespected)'
<1> SUFFICES ASSUME CountInv, [Next]_vars
             PROVE  (LedgerMatchesHeap /\ CapacityRespected)'
  OBVIOUS
<1>0. /\ TypeOK /\ HandInUse /\ MutexHeld /\ Phase /\ GrowthIsCovered /\ Owned /\ Exclusive
      /\ LedgerMatchesHeap /\ CapacityRespected
      /\ idle \in Seq(Conn) /\ held \in [Client -> SUBSET Conn] /\ live \subseteq Conn
  BY DEF CountInv, OwnInv, TypeInv, TypeOK
<1>1. CASE WarmUp
  <2>1. PICK c \in Free : Allocate(c)
    BY <1>1 DEF WarmUp
  <2>2. CanGrow
    BY <1>0, <1>1 DEF WarmUp, Phase, CanGrow, TypeOK
  <2>3. QED
    BY <1>1, <2>1, <2>2, CountAdd DEF WarmUp, Allocate, Free
<1>2. CASE WarmUpFails
  <2>1. live \subseteq Range(idle)
    BY <1>0, <1>2 DEF WarmUpFails, Phase, Owned, HasOwner, HandInUse
  <2>2. live' = {} /\ netCreated' = 0 /\ total' = 0
    BY <1>2, <2>1 DEF WarmUpFails, Delete
  <2>3. QED
    BY <2>2, FS_EmptySet DEF LedgerMatchesHeap, CapacityRespected
<1>3. CASE Drain
  <2>1. Range(idle) = {idle[i] : i \in 1..Len(idle)} /\ Len(idle) \in Nat
    BY <1>0 DEF Range
  <2>2. live' = live \ {idle[i] : i \in 1..Len(idle)}
    BY <1>3, <2>1 DEF Drain, Delete
  <2>3. QED
    BY <1>3, <2>1, <2>2, CountRemovePrefix DEF Drain
<1>4. ASSUME NEW t \in Client, Thread(t) PROVE (LedgerMatchesHeap /\ CapacityRespected)'
  <2>1. CASE LoopCleans(t)
    <3>1. PICK k \in 0..Len(idle) :
             /\ live' = live \ {idle[i] : i \in 1..k}
             /\ total' = total - k /\ netCreated' = netCreated - k
      BY <2>1 DEF LoopCleans, Cleanup, Delete
    <3>2. QED
      BY <2>1, <3>1, CountRemovePrefix DEF LoopCleans
  <2>2. CASE TakeDropsStale(t)
    <3>1. Head(idle) \in live
      BY <1>0, <2>2, RangeOfTail DEF TakeDropsStale, Owned, HasOwner, Exclusive
    <3>2. QED
      BY <2>2, <3>1, CountRemove DEF TakeDropsStale, Drop, Delete
  <2>3. CASE Create(t)
    <3>1. PICK c \in Free : Allocate(c)
      BY <2>3 DEF Create
    <3>2. CanGrow
      BY <1>0, <2>3 DEF Create, GrowthIsCovered
    <3>3. life # "gone"
      BY <1>0, <2>3 DEF Create, Phase, MutexHeld, Inside
    <3>4. QED
      BY <2>3, <3>1, <3>2, <3>3, CountAdd DEF Create, Allocate, Free
  <2>4. CASE RollbackFails(t) \/ (Check(t) /\ CheckFails(t, hand[t]))
    <3>1. hand[t] \in live
      BY <1>0, <2>4 DEF RollbackFails, Check, HandInUse, Owned, HasOwner, TypeOK
    <3>2. QED
      BY <2>4, <3>1, CountRemove DEF RollbackFails, Check, CheckFails, Drop, Delete
  <2>5. ASSUME NEW c \in held[t], ReleaseDestroys(t, c)
        PROVE  (LedgerMatchesHeap /\ CapacityRespected)'
    <3>1. c \in live
      BY <1>0 DEF Owned, HasOwner
    <3>2. QED
      BY <2>5, <3>1, CountRemove DEF ReleaseDestroys, Drop, Delete
  <2>6. CASE CreateThrows(t)
    BY <1>0, <2>6 DEF CreateThrows, LedgerMatchesHeap, CapacityRespected
  <2>7. CASE UNCHANGED <<live, total, netCreated, createFailed, life>>
    BY <1>0, <2>7 DEF LedgerMatchesHeap, CapacityRespected
  <2>8. CASE Acquire(t) \/ LoopThrowsShutdown(t) \/ TakeChecks(t) \/ TakeReturns(t)
               \/ TakeCreates(t) \/ TakeWaits(t) \/ (Check(t) /\ CheckPasses(t, hand[t]))
               \/ RollbackSucceeds(t) \/ DeadlinePasses(t) \/ SpuriousWake(t)
               \/ WaitReturns(t) \/ WaitTimesOut(t) \/ UseAfterDestroy(t)
    BY <2>7, <2>8
       DEF Acquire, LoopThrowsShutdown, TakeChecks, TakeReturns, TakeCreates, TakeWaits,
           Check, CheckPasses, RollbackSucceeds, DeadlinePasses, SpuriousWake, WaitReturns,
           WaitTimesOut, UseAfterDestroy, poolVars, heapVars
  <2>9. ASSUME NEW c \in held[t], ReleaseRollsBack(t, c) \/ ReleaseReturns(t, c)
        PROVE  (LedgerMatchesHeap /\ CapacityRespected)'
    BY <2>7, <2>9 DEF ReleaseRollsBack, ReleaseReturns, heapVars
  <2>10. CASE Use(t)
    BY <2>7, <2>10 DEF Use, Begin, Finish, Close, Reconnect, MoveHandle, poolVars, heapVars
  <2>11. QED
    BY <1>4, <2>1, <2>2, <2>3, <2>4, <2>5, <2>6, <2>8, <2>9, <2>10
       DEF Thread, Critical, Wakeup, Release, Check, CheckOutcome
<1>5. ASSUME NEW c \in Conn, ServerDrops(c) PROVE (LedgerMatchesHeap /\ CapacityRespected)'
  BY <1>0, <1>5 DEF ServerDrops, poolVars, LedgerMatchesHeap, CapacityRespected
<1>6. CASE RaiseFlag \/ NotifyAll
  BY <1>0, <1>6
     DEF RaiseFlag, NotifyAll, heapVars, LedgerMatchesHeap, CapacityRespected
<1>7. CASE Tick \/ Over \/ UNCHANGED vars
  BY <1>0, <1>7
     DEF Tick, Over, vars, poolVars, heapVars, LedgerMatchesHeap, CapacityRespected
<1>8. QED
  BY <1>1, <1>2, <1>3, <1>4, <1>5, <1>6, <1>7 DEF Next, Destroy

LEMMA CountInvariant == Spec => []CountInv
<1>1. CountInv /\ [Next]_vars => CountInv'
  BY TypeStep, OwnStep, PhaseStep, CountStep DEF CountInv, OwnInv
<1>2. QED
  BY <1>1, CountInit, PTL DEF Spec

\* created_total_ - destroyed_total_ always, and total_connections_ until a
\* creation fails, count exactly the connections that exist.
THEOREM LedgerAlwaysMatchesHeap == Spec => []LedgerMatchesHeap
<1>1. CountInv => LedgerMatchesHeap
  BY DEF CountInv
<1>2. QED
  BY <1>1, CountInvariant, PTL

\* Until a creation fails, there are never more than max_size connections.
THEOREM CapacityAlwaysRespected == Spec => []CapacityRespected
<1>1. CountInv => CapacityRespected
  BY DEF CountInv
<1>2. QED
  BY <1>1, CountInvariant, PTL
=============================================================================
