------------------------- MODULE PoolServiceProofs -------------------------
(***************************************************************************)
(* What the borrowers of a pool may rely on, for any number of threads,    *)
(* connections and any option values: the order and the contents of the    *)
(* queue, the connection that acquire() hands out, the minimum size, and   *)
(* that the whole pool is a lending desk (LeaseDesk).                      *)
(*                                                                         *)
(* All of it rests on the ownership and the counters proved in             *)
(* ConnectionPoolProofs: the invariant CountInv.                           *)
(***************************************************************************)
EXTENDS ConnectionPoolProofs

USE SizeAssumption, OptionAssumption, IdentityAssumption
    DEF SizeAssumption, OptionAssumption, IdentityAssumption

-----------------------------------------------------------------------------
(* What a step does to the queue                                           *)

\* Nothing, or a connection comes in at the back, or some go from the front.
QueueStep ==
    \/ idle' = idle
    \/ \E k \in 0..Len(idle) : idle' = SubSeq(idle, k + 1, Len(idle))
    \/ \E c \in Conn \ Range(idle) :
          /\ idle' = Append(idle, c)
          /\ age'[c] = 0
          /\ RollbackOnReturn => sess'[c] = "ready"

\* Those that stay lose their session at worst, and all of them grow older, or
\* none does.
StayingKept ==
    \A c \in Range(idle) \cap Range(idle') : age'[c] = age[c] /\ sess'[c] \in {sess[c], "dead"}

QueueAges == idle' = idle /\ sess' = sess /\ \A c \in Range(idle) : age'[c] = Older(age[c])

\* A connection that does not exist has no age.
NoAge == \A c \in Conn \ live : age[c] = 0

LEMMA TailIsRest ==
  ASSUME NEW S, NEW s \in Seq(S), s # <<>>
  PROVE  1 \in 0..Len(s) /\ Tail(s) = SubSeq(s, 1 + 1, Len(s))
<1>1. Len(s) \in Nat \ {0}
  OBVIOUS
<1>2. Tail(s) = SubSeq(s, 2, Len(s))
  OBVIOUS
<1>3. QED
  BY <1>1, <1>2

LEMMA EmptyIsRest ==
  ASSUME NEW S, NEW s \in Seq(S)
  PROVE  Len(s) \in 0..Len(s) /\ <<>> = SubSeq(s, Len(s) + 1, Len(s))
<1>1. Len(s) \in Nat
  OBVIOUS
<1>2. Len(SubSeq(s, Len(s) + 1, Len(s))) = 0 /\ SubSeq(s, Len(s) + 1, Len(s)) \in Seq(S)
  BY <1>1
<1>3. QED
  BY <1>1, <1>2

LEMMA QueueStutter ==
  ASSUME UNCHANGED <<idle, live, age>>, \A c \in Range(idle) : sess'[c] \in {sess[c], "dead"}, NoAge
  PROVE  QueueStep /\ (StayingKept \/ QueueAges) /\ NoAge'
  BY DEF QueueStep, StayingKept, NoAge

LEMMA QueueSteps ==
  ASSUME OwnInv, NoAge, [Next]_vars
  PROVE  QueueStep /\ (StayingKept \/ QueueAges) /\ NoAge'
<1>0. /\ idle \in Seq(Conn) /\ IsInjective(idle) /\ Range(idle) \subseteq live
      /\ live \subseteq Conn /\ TypeOK
      /\ \A t \in Client : held[t] \subseteq Conn /\ held[t] \cap Range(idle) = {}
      /\ \A t \in Client : hand[t] \notin Range(idle)
      /\ \A t \in Client : hand[t] \in Conn \cup {Nobody}
      /\ \A t \in Client : hand[t] # Nobody => hand[t] \in live
      /\ \A t \in Client : held[t] \subseteq live
      /\ age \in [Conn -> 0..AgeCap] /\ sess \in [Conn -> Session]
  BY DEF OwnInv, TypeInv, TypeOK, Exclusive, IsInjective, Owned, HasOwner, Range
<1> DEFINE Goal == QueueStep /\ (StayingKept \/ QueueAges) /\ NoAge'
<1>1. CASE WarmUp
  <2>1. PICK c \in Free : Allocate(c) /\ idle' = Append(idle, c)
    BY <1>1 DEF WarmUp
  <2>2. c \in Conn \ live /\ age' = age /\ sess' = [sess EXCEPT ![c] = "ready"]
        /\ live' = live \cup {c}
    BY <1>1, <2>1 DEF WarmUp, Allocate, Free
  <2>3. c \in Conn \ Range(idle) /\ age'[c] = 0 /\ sess'[c] = "ready"
    BY <1>0, <2>2 DEF NoAge
  <2>4. QueueStep
    BY <2>1, <2>3 DEF QueueStep
  <2>5. StayingKept
    BY <1>0, <2>2, <2>3 DEF StayingKept
  <2>6. NoAge'
    BY <2>2 DEF NoAge
  <2>7. QED
    BY <2>4, <2>5, <2>6
<1>2. CASE WarmUpFails \/ Drain
  <2>1. idle' = <<>> /\ Delete(Range(idle))
    BY <1>2 DEF WarmUpFails, Drain
  <2>2. QueueStep
    BY <1>0, <2>1, EmptyIsRest DEF QueueStep
  <2>3. Range(idle') = {}
    BY <2>1 DEF Range
  <2>4. NoAge'
    BY <2>1 DEF Delete, NoAge
  <2>5. QED
    BY <2>2, <2>3, <2>4 DEF StayingKept
<1>3. CASE Tick
  <2>1. idle' = idle /\ sess' = sess /\ live' = live
        /\ age' = [c \in Conn |-> IF c \in Range(idle) THEN Older(age[c]) ELSE age[c]]
    BY <1>3 DEF Tick, poolVars
  <2>2. QED
    BY <1>0, <2>1 DEF QueueStep, QueueAges, NoAge
<1>4. ASSUME NEW t \in Client, Thread(t) PROVE Goal
  <2>1. CASE LoopCleans(t)
    <3>1. PICK k \in 0..Len(idle) :
             Delete({idle[i] : i \in 1..k}) /\ idle' = SubSeq(idle, k + 1, Len(idle))
      BY <2>1 DEF LoopCleans, Cleanup
    <3>2. Range(idle') = Range(idle) \ {idle[i] : i \in 1..k}
      <4>1. \A n \in 0..Len(idle) :
               Range(SubSeq(idle, n + 1, Len(idle))) = Range(idle) \ {idle[i] : i \in 1..n}
        BY <1>0, RangeOfRest
      <4>2. QED
        BY <3>1, <4>1
    <3>3. QueueStep
      BY <3>1 DEF QueueStep
    <3>4. StayingKept
      BY <1>0, <3>1, <3>2 DEF Delete, StayingKept
    <3>5. NoAge'
      BY <3>1 DEF Delete, NoAge
    <3>6. QED
      BY <3>3, <3>4, <3>5
  <2>2. CASE TakeDropsStale(t)
    <3>1. idle # <<>> /\ idle' = Tail(idle) /\ Delete({Head(idle)})
      BY <2>2 DEF TakeDropsStale, Drop
    <3>2. Range(idle') = Range(idle) \ {Head(idle)}
      BY <1>0, <3>1, RangeOfTail
    <3>3. QueueStep
      BY <1>0, <3>1, TailIsRest DEF QueueStep
    <3>4. StayingKept
      BY <1>0, <3>1, <3>2 DEF Delete, StayingKept
    <3>5. NoAge'
      BY <3>1 DEF Delete, NoAge
    <3>6. QED
      BY <3>3, <3>4, <3>5
  <2>3. CASE TakeChecks(t)
    <3>1. idle # <<>> /\ idle' = Tail(idle) /\ UNCHANGED <<age, sess, live>>
      BY <2>3 DEF TakeChecks, PopFront, heapVars
    <3>2. QueueStep
      BY <1>0, <3>1, TailIsRest DEF QueueStep
    <3>3. QED
      BY <3>1, <3>2 DEF StayingKept, NoAge
  <2>4. CASE TakeReturns(t)
    <3>1. idle # <<>> /\ idle' = Tail(idle) /\ age' = [age EXCEPT ![Head(idle)] = 0]
          /\ UNCHANGED <<sess, live>>
      BY <2>4 DEF TakeReturns, HandOver
    <3>2. Range(idle') = Range(idle) \ {Head(idle)} /\ Head(idle) \in live
      BY <1>0, <3>1, RangeOfTail
    <3>3. QueueStep
      BY <1>0, <3>1, TailIsRest DEF QueueStep
    <3>4. StayingKept /\ NoAge'
      BY <1>0, <3>1, <3>2 DEF StayingKept, NoAge
    <3>5. QED
      BY <3>3, <3>4
  <2>5. CASE Check(t)
    <3>1. hand[t] \in live /\ hand[t] \notin Range(idle)
      BY <1>0, <2>5 DEF Check, OwnInv, TypeInv, HandInUse
    <3>2. CASE CheckPasses(t, hand[t])
      <4>1. idle' = idle /\ live' = live /\ age' = [age EXCEPT ![hand[t]] = 0]
            /\ (sess' = sess \/ sess' = [sess EXCEPT ![hand[t]] = "ready"])
        BY <3>2 DEF CheckPasses, HandOver
      <4>2. QED
        BY <1>0, <3>1, <4>1 DEF QueueStep, StayingKept, NoAge
    <3>3. CASE CheckFails(t, hand[t])
      <4>1. idle' = idle /\ Delete({hand[t]})
        BY <3>3 DEF CheckFails, Drop
      <4>2. QED
        BY <1>0, <3>1, <4>1 DEF Delete, QueueStep, StayingKept, NoAge
    <3>4. QED
      BY <2>5, <3>2, <3>3 DEF Check, CheckOutcome
  <2>6. CASE Create(t)
    <3>1. PICK c \in Free : Allocate(c)
      BY <2>6 DEF Create
    <3>2. idle' = idle /\ age' = age /\ live' = live \cup {c} /\ c \notin Range(idle)
          /\ sess' = [sess EXCEPT ![c] = "ready"]
      BY <1>0, <2>6, <3>1 DEF Create, Allocate, Free
    <3>3. QED
      BY <1>0, <3>2 DEF QueueStep, StayingKept, NoAge
  <2>7. CASE RollbackFails(t)
    <3>1. hand[t] \notin Range(idle) /\ idle' = idle /\ Delete({hand[t]})
      BY <1>0, <2>7 DEF RollbackFails, Drop
    <3>2. QED
      BY <1>0, <3>1 DEF Delete, QueueStep, StayingKept, NoAge
  <2>8. CASE RollbackSucceeds(t)
    <3>1. hand[t] \in Conn \ Range(idle) /\ hand[t] \in live /\ live' = live
          /\ idle' = Append(idle, hand[t]) /\ age' = [age EXCEPT ![hand[t]] = 0]
          /\ sess' = [sess EXCEPT ![hand[t]] = "ready"]
      BY <1>0, <2>8 DEF RollbackSucceeds, Enqueue, OwnInv, TypeInv, HandInUse
    <3>2. age'[hand[t]] = 0 /\ sess'[hand[t]] = "ready"
      BY <1>0, <3>1
    <3>3. QueueStep
      BY <3>1, <3>2 DEF QueueStep
    <3>4. StayingKept /\ NoAge'
      BY <1>0, <3>1 DEF StayingKept, NoAge
    <3>5. QED
      BY <3>3, <3>4
  <2>9. ASSUME NEW c \in held[t], ReleaseDestroys(t, c) PROVE Goal
    <3>1. c \notin Range(idle) /\ idle' = idle /\ Delete({c})
      BY <1>0, <2>9 DEF ReleaseDestroys, Drop
    <3>2. QED
      BY <1>0, <3>1 DEF Delete, QueueStep, StayingKept, NoAge
  <2>10. ASSUME NEW c \in held[t], ReleaseReturns(t, c) PROVE Goal
    <3>1. c \in Conn \ Range(idle) /\ idle' = Append(idle, c) /\ age' = [age EXCEPT ![c] = 0]
          /\ UNCHANGED <<sess, live>> /\ ~RollbackOnReturn
      BY <1>0, <2>10 DEF ReleaseReturns, Enqueue
    <3>2. age'[c] = 0
      BY <1>0, <3>1
    <3>3. QueueStep
      BY <3>1, <3>2 DEF QueueStep
    <3>4. StayingKept /\ NoAge'
      BY <1>0, <3>1 DEF StayingKept, NoAge
    <3>5. QED
      BY <3>3, <3>4
  <2>11. ASSUME NEW c \in held[t],
                Begin(t, c) \/ Finish(t, c) \/ Close(t, c) \/ Reconnect(t, c)
         PROVE  Goal
    <3>1. UNCHANGED <<idle, live, age>> /\ \E s : sess' = [sess EXCEPT ![c] = s]
      BY <2>11 DEF Begin, Finish, Close, Reconnect, poolVars
    <3>2. c \in Conn \ Range(idle)
      BY <1>0
    <3>3. \A x \in Range(idle) : sess'[x] = sess[x]
      BY <1>0, <3>1, <3>2
    <3>4. QED
      BY <3>1, <3>3, QueueStutter
  <2>12. CASE UNCHANGED <<idle, live, age, sess>>
    BY <2>12, QueueStutter
  <2>13. CASE Acquire(t) \/ LoopThrowsShutdown(t) \/ TakeCreates(t) \/ TakeWaits(t)
                \/ CreateThrows(t) \/ DeadlinePasses(t) \/ SpuriousWake(t)
                \/ WaitReturns(t) \/ WaitTimesOut(t) \/ UseAfterDestroy(t)
    BY <2>12, <2>13
       DEF Acquire, LoopThrowsShutdown, TakeCreates, TakeWaits, CreateThrows, DeadlinePasses,
           SpuriousWake, WaitReturns, WaitTimesOut, UseAfterDestroy, poolVars, heapVars
  <2>14. ASSUME NEW c \in held[t], ReleaseRollsBack(t, c) PROVE Goal
    BY <2>12, <2>14 DEF ReleaseRollsBack, heapVars
  <2>15. ASSUME NEW c \in held[t], NEW u \in Client, MoveHandle(t, u, c) PROVE Goal
    BY <2>12, <2>15 DEF MoveHandle, poolVars, heapVars
  <2>16. QED
    BY <1>4, <2>1, <2>2, <2>3, <2>4, <2>5, <2>6, <2>7, <2>8, <2>9, <2>10, <2>11, <2>13,
       <2>14, <2>15 DEF Thread, Critical, Wakeup, Release, Use
<1>5. ASSUME NEW c \in Conn, ServerDrops(c) PROVE Goal
  <2>1. UNCHANGED <<idle, live, age>> /\ sess' = [sess EXCEPT ![c] = "dead"]
    BY <1>5 DEF ServerDrops, poolVars
  <2>2. \A x \in Range(idle) : sess'[x] \in {sess[x], "dead"}
    BY <1>0, <2>1
  <2>3. QED
    BY <2>1, <2>2, QueueStutter
<1>6. CASE RaiseFlag \/ NotifyAll \/ Over \/ UNCHANGED vars
  <2>1. UNCHANGED <<idle, live, age, sess>>
    BY <1>6 DEF RaiseFlag, NotifyAll, Over, vars, poolVars, heapVars
  <2>2. QED
    BY <2>1, QueueStutter
<1>7. QED
  BY <1>1, <1>2, <1>3, <1>4, <1>5, <1>6 DEF Next, Destroy
-----------------------------------------------------------------------------
(* The order of the queue                                                  *)

Ordered(q, a) == \A i, j \in DOMAIN q : i < j => a[q[i]] >= a[q[j]]

LEMMA OrderedAtBack ==
  ASSUME NEW q \in Seq(Conn), NEW a \in [Conn -> Nat], NEW b \in [Conn -> Nat],
         NEW c \in Conn, Ordered(q, a), \A x \in Range(q) : b[x] = a[x], b[c] = 0
  PROVE  Ordered(Append(q, c), b)
<1>1. PICK n \in Nat : n = Len(q) /\ DOMAIN q = 1..n
  OBVIOUS
<1>2. /\ DOMAIN Append(q, c) = 1..(n + 1) /\ Append(q, c)[n + 1] = c
      /\ \A i \in 1..n : Append(q, c)[i] = q[i]
  BY <1>1
<1>3. \A i \in 1..n : q[i] \in Conn /\ q[i] \in Range(q)
  BY <1>1 DEF Range
<1>4. ASSUME NEW i \in 1..(n + 1), NEW j \in 1..(n + 1), i < j
      PROVE  b[Append(q, c)[i]] >= b[Append(q, c)[j]]
  <2>1. i \in 1..n /\ Append(q, c)[i] = q[i]
    BY <1>2, <1>4
  <2>2. CASE j = n + 1
    BY <1>2, <1>3, <2>1, <2>2
  <2>3. CASE j \in 1..n
    <3>1. a[q[i]] >= a[q[j]]
      BY <1>1, <1>4, <2>1, <2>3 DEF Ordered
    <3>2. QED
      BY <1>2, <1>3, <2>1, <2>3, <3>1
  <2>4. j = n + 1 \/ j \in 1..n
    BY <1>1
  <2>5. QED
    BY <2>2, <2>3, <2>4
<1>5. QED
  BY <1>2, <1>4 DEF Ordered

LEMMA OrderedRest ==
  ASSUME NEW q \in Seq(Conn), NEW k \in 0..Len(q), NEW a, Ordered(q, a)
  PROVE  Ordered(SubSeq(q, k + 1, Len(q)), a)
<1> DEFINE r == SubSeq(q, k + 1, Len(q))
<1>1. /\ DOMAIN q = 1..Len(q) /\ Len(q) \in Nat /\ k \in Nat
      /\ DOMAIN r = 1..(Len(q) - k)
      /\ \A i \in 1..(Len(q) - k) : r[i] = q[i + k]
  OBVIOUS
<1> HIDE DEF r
<1>2. ASSUME NEW i \in 1..(Len(q) - k), NEW j \in 1..(Len(q) - k), i < j
      PROVE  a[r[i]] >= a[r[j]]
  <2>1. i + k \in DOMAIN q /\ j + k \in DOMAIN q /\ i + k < j + k
    BY <1>1, <1>2
  <2>2. a[q[i + k]] >= a[q[j + k]]
    BY <2>1 DEF Ordered
  <2>3. QED
    BY <1>1, <2>2
<1>3. QED
  BY <1>1, <1>2 DEF Ordered, r

LEMMA OrderedSame ==
  ASSUME NEW q, NEW a, NEW b, Ordered(q, a), \A x \in Range(q) : b[x] = a[x]
  PROVE  Ordered(q, b)
<1>1. \A i \in DOMAIN q : q[i] \in Range(q)
  BY DEF Range
<1>2. QED
  BY <1>1 DEF Ordered

LEMMA OlderIsMonotone ==
  ASSUME NEW m \in 0..AgeCap, NEW n \in 0..AgeCap, m >= n
  PROVE  Older(m) >= Older(n)
  BY DEF Older

OrderInv == NoAge /\ IdleIsOrdered

LEMMA OrderInit == Init => OrderInv
<1> SUFFICES ASSUME Init PROVE OrderInv
  OBVIOUS
<1>1. DOMAIN idle = {}
  BY DEF Init
<1>2. QED
  BY <1>1 DEF Init, OrderInv, NoAge, IdleIsOrdered

LEMMA OrderStep == OwnInv /\ OrderInv /\ [Next]_vars => OrderInv'
<1> SUFFICES ASSUME OwnInv, OrderInv, [Next]_vars PROVE OrderInv'
  OBVIOUS
<1>1. QueueStep /\ (StayingKept \/ QueueAges) /\ NoAge'
  BY QueueSteps DEF OrderInv
<1>2. /\ idle \in Seq(Conn) /\ Range(idle) \subseteq Conn /\ Ordered(idle, age)
      /\ age \in [Conn -> 0..AgeCap] /\ age \in [Conn -> Nat]
  BY DEF OwnInv, TypeInv, TypeOK, OrderInv, IdleIsOrdered, Ordered, Range
<1>3. age' \in [Conn -> Nat]
  <2>1. TypeInv'
    BY TypeStep DEF OwnInv
  <2>2. QED
    BY <2>1 DEF TypeInv, TypeOK
<1>4. CASE QueueAges
  <2>1. idle' = idle /\ \A c \in Range(idle) : age'[c] = Older(age[c])
    BY <1>4 DEF QueueAges
  <2>2. ASSUME NEW i \in DOMAIN idle, NEW j \in DOMAIN idle, i < j
        PROVE  age'[idle[i]] >= age'[idle[j]]
    <3>1. idle[i] \in Range(idle) /\ idle[j] \in Range(idle)
      BY DEF Range
    <3>2. age[idle[i]] \in 0..AgeCap /\ age[idle[j]] \in 0..AgeCap
      BY <1>2, <3>1
    <3>3. age[idle[i]] >= age[idle[j]]
      BY <1>2, <2>2 DEF Ordered
    <3>4. QED
      BY <2>1, <3>1, <3>2, <3>3, OlderIsMonotone
  <2>3. QED
    BY <1>1, <2>1, <2>2 DEF OrderInv, IdleIsOrdered
<1>5. CASE StayingKept
  <2>1. CASE idle' = idle
    <3>1. Ordered(idle', age')
      BY <1>2, <1>5, <2>1, OrderedSame DEF StayingKept
    <3>2. QED
      BY <1>1, <3>1 DEF OrderInv, IdleIsOrdered, Ordered
  <2>2. ASSUME NEW k \in 0..Len(idle), idle' = SubSeq(idle, k + 1, Len(idle))
        PROVE  OrderInv'
    <3>1. Ordered(idle', age)
      BY <1>2, <2>2, OrderedRest
    <3>2. Range(idle') \subseteq Range(idle)
      BY <1>2, <2>2, RangeOfRest DEF OwnInv, Exclusive, IsInjective
    <3>3. \A x \in Range(idle') : age'[x] = age[x]
      BY <1>5, <3>2 DEF StayingKept
    <3>4. Ordered(idle', age')
      BY <3>1, <3>3, OrderedSame
    <3>5. QED
      BY <1>1, <3>4 DEF OrderInv, IdleIsOrdered, Ordered
  <2>3. ASSUME NEW c \in Conn \ Range(idle), idle' = Append(idle, c), age'[c] = 0
        PROVE  OrderInv'
    <3>1. Range(idle') = Range(idle) \cup {c}
      BY <1>2, <2>3, RangeOfAppend
    <3>2. \A x \in Range(idle) : age'[x] = age[x]
      BY <1>5, <3>1 DEF StayingKept
    <3>3. Ordered(idle', age')
      BY <1>2, <1>3, <2>3, <3>2, OrderedAtBack
    <3>4. QED
      BY <1>1, <3>3 DEF OrderInv, IdleIsOrdered, Ordered
  <2>4. QED
    BY <1>1, <2>1, <2>2, <2>3 DEF QueueStep
<1>6. QED
  BY <1>1, <1>4, <1>5

LEMMA OrderInvariant == Spec => []OrderInv
<1>1. QED
  BY OrderInit, OrderStep, OwnInvariant, PTL DEF Spec

\* The connection idle for the longest is in front at any time, so that the
\* loop of cleanup_idle_connections(), which stops at the first one that is too
\* young, has missed none.
THEOREM QueueAlwaysOrdered == Spec => []IdleIsOrdered
<1>1. OrderInv => IdleIsOrdered
  BY DEF OrderInv
<1>2. QED
  BY <1>1, OrderInvariant, PTL

-----------------------------------------------------------------------------
(* What the queue contains                                                 *)

LEMMA CleanInit == Init => IdleIsClean
<1> SUFFICES ASSUME Init PROVE IdleIsClean
  OBVIOUS
<1>1. Range(idle) = {}
  BY DEF Init, Range
<1>2. QED
  BY <1>1 DEF IdleIsClean

LEMMA CleanStep == OwnInv /\ OrderInv /\ IdleIsClean /\ [Next]_vars => IdleIsClean'
<1> SUFFICES ASSUME OwnInv, OrderInv, IdleIsClean, [Next]_vars, RollbackOnReturn,
                    NEW c \in Range(idle')
             PROVE  sess'[c] \in {"ready", "dead"}
  BY DEF IdleIsClean
<1>1. QueueStep /\ (StayingKept \/ QueueAges)
  BY QueueSteps DEF OrderInv
<1>2. idle \in Seq(Conn) /\ IsInjective(idle) /\ Range(idle) \subseteq Conn
  BY DEF OwnInv, TypeInv, TypeOK, Exclusive, IsInjective, Range
<1>3. CASE c \in Range(idle)
  <2>1. sess[c] \in {"ready", "dead"} /\ sess'[c] \in {sess[c], "dead"}
    BY <1>1, <1>3 DEF IdleIsClean, StayingKept, QueueAges
  <2>2. QED
    BY <2>1
<1>4. CASE c \notin Range(idle)
  <2>1. idle' # idle
    BY <1>4
  <2>2. ASSUME NEW k \in 0..Len(idle), idle' = SubSeq(idle, k + 1, Len(idle)) PROVE FALSE
    BY <1>2, <1>4, <2>2, RangeOfRest
  <2>3. PICK x \in Conn \ Range(idle) : idle' = Append(idle, x) /\ sess'[x] = "ready"
    BY <1>1, <2>1, <2>2 DEF QueueStep
  <2>4. c = x
    BY <1>2, <1>4, <2>3, RangeOfAppend
  <2>5. QED
    BY <2>3, <2>4
<1>5. QED
  BY <1>3, <1>4

\* With rollback_on_return no transaction is left behind in the queue, and no
\* connection that is known to be closed.
THEOREM QueueAlwaysClean == Spec => []IdleIsClean
<1>1. QED
  BY CleanInit, CleanStep, OrderInvariant, OwnInvariant, PTL DEF Spec
-----------------------------------------------------------------------------
(* What acquire() hands out                                                *)

\* The connection that a call is checking has come from a clean queue.
CheckedIsClean ==
    RollbackOnReturn =>
      \A t \in Client : pc[t] = "check" => sess[hand[t]] \in {"ready", "dead"}

LEMMA CheckedStep ==
  OwnInv /\ IdleIsClean /\ CheckedIsClean /\ [Next]_vars => CheckedIsClean'
<1> SUFFICES ASSUME OwnInv, IdleIsClean, CheckedIsClean, [Next]_vars, RollbackOnReturn,
                    NEW u \in Client, pc'[u] = "check"
             PROVE  sess'[hand'[u]] \in {"ready", "dead"}
  BY DEF CheckedIsClean
<1>0. /\ idle \in Seq(Conn) /\ Range(idle) \subseteq live /\ live \subseteq Conn
      /\ pc \in [Client -> PC] /\ hand \in [Client -> Conn \cup {Nobody}]
      /\ sess \in [Conn -> Session] /\ held \in [Client -> SUBSET Conn]
      /\ HandInUse /\ MutexHeld /\ TypeInv
      /\ \A t \in Client : hand[t] # Nobody => hand[t] \in live
      /\ \A t, v \in Client : hand[t] \notin held[v]
      /\ \A t, v \in Client : t # v /\ hand[t] = hand[v] => hand[t] = Nobody
      /\ \A t \in Client : hand[t] \notin Range(idle)
  BY DEF OwnInv, TypeInv, TypeOK, Exclusive, Owned, HasOwner, Range
<1> USE DEF poolVars, threadVars, heapVars, vars
<1>1. CASE /\ pc[u] = "check" /\ hand'[u] = hand[u]
           /\ sess'[hand[u]] \in {sess[hand[u]], "dead"}
  <2>1. sess[hand[u]] \in {"ready", "dead"}
    BY <1>1 DEF CheckedIsClean
  <2>2. QED
    BY <1>1, <2>1
<1>2. pc[u] = "check" => hand[u] \in Conn /\ hand[u] \in live
  BY <1>0 DEF HandInUse
<1>3. CASE WarmUp
  <2>1. PICK c \in Free : Allocate(c)
    BY <1>3 DEF WarmUp
  <2>2. QED
    BY <1>0, <1>1, <1>2, <1>3, <2>1 DEF WarmUp, Allocate, Free
<1>4. CASE WarmUpFails \/ Drain
  BY <1>0, <1>1, <1>2, <1>4 DEF WarmUpFails, Drain, Delete
<1>5. ASSUME NEW t \in Client, Thread(t) PROVE sess'[hand'[u]] \in {"ready", "dead"}
  <2>1. CASE TakeChecks(t)
    <3>1. idle # <<>> /\ hand' = [hand EXCEPT ![t] = Head(idle)] /\ sess' = sess
          /\ pc' = [pc EXCEPT ![t] = "check"]
      BY <2>1 DEF TakeChecks, PopFront
    <3>2. Head(idle) \in Range(idle)
      BY <1>0, <3>1, RangeOfTail DEF OwnInv, Exclusive, IsInjective
    <3>3. CASE u = t
      BY <1>0, <3>1, <3>2, <3>3 DEF IdleIsClean
    <3>4. CASE u # t
      BY <1>0, <1>1, <3>1, <3>4
    <3>5. QED
      BY <3>3, <3>4
  <2>2. CASE LoopCleans(t)
    <3>1. PICK k \in 0..Len(idle) : Delete({idle[i] : i \in 1..k})
      BY <2>2 DEF LoopCleans, Cleanup
    <3>2. {idle[i] : i \in 1..k} \subseteq Range(idle)
      BY <1>0 DEF Range
    <3>3. hand[u] \notin {idle[i] : i \in 1..k}
      BY <1>0, <3>2
    <3>4. pc[u] = "check" /\ hand' = hand
      BY <1>0, <2>2 DEF LoopCleans
    <3>5. sess'[hand[u]] = sess[hand[u]]
      BY <1>2, <3>1, <3>3, <3>4 DEF Delete
    <3>6. QED
      BY <1>1, <3>4, <3>5
  <2>3. CASE TakeDropsStale(t)
    <3>1. idle # <<>> /\ Delete({Head(idle)}) /\ hand' = hand /\ pc' = [pc EXCEPT ![t] = "loop"]
      BY <2>3 DEF TakeDropsStale, Drop
    <3>2. Head(idle) \in Range(idle)
      BY <1>0, <3>1, RangeOfTail DEF OwnInv, Exclusive, IsInjective
    <3>3. QED
      BY <1>0, <1>1, <1>2, <3>1, <3>2 DEF Delete
  <2>4. CASE Check(t) \/ RollbackFails(t)
    <3>1. u # t /\ pc[u] = "check" /\ hand'[u] = hand[u]
      BY <1>0, <2>4 DEF Check, CheckOutcome, CheckPasses, CheckFails, HandOver, RollbackFails, Leave
    <3>2. hand[t] \in Conn /\ hand[u] # hand[t]
      BY <1>0, <1>2, <2>4, <3>1 DEF Check, RollbackFails, HandInUse
    <3>3. sess'[hand[u]] = sess[hand[u]]
      BY <1>0, <1>2, <2>4, <3>1, <3>2
         DEF Check, CheckOutcome, CheckPasses, CheckFails, RollbackFails, Drop, Delete
    <3>4. QED
      BY <1>1, <3>1, <3>3
  <2>5. CASE RollbackSucceeds(t)
    <3>1. pc[t] = "rollback" /\ LeaveNotifying(t) /\ hand' = [hand EXCEPT ![t] = Nobody]
          /\ sess' = [sess EXCEPT ![hand[t]] = "ready"]
      BY <2>5 DEF RollbackSucceeds
    <3>2. u # t /\ pc[u] = "check"
      BY <1>0, <3>1, NotifyOne
    <3>3. hand'[u] = hand[u] /\ hand[u] # hand[t] /\ hand[t] \in Conn
      BY <1>0, <1>2, <3>1, <3>2 DEF HandInUse
    <3>4. QED
      BY <1>0, <1>1, <1>2, <3>1, <3>2, <3>3
  <2>6. CASE Create(t)
    <3>1. PICK c \in Free : Allocate(c)
      BY <2>6 DEF Create
    <3>2. QED
      BY <1>0, <1>1, <1>2, <2>6, <3>1 DEF Create, Allocate, Free, Leave
  <2>7. ASSUME NEW c \in held[t], ReleaseDestroys(t, c)
        PROVE  sess'[hand'[u]] \in {"ready", "dead"}
    BY <1>0, <1>1, <1>2, <2>7 DEF ReleaseDestroys, Drop, Delete
  <2>8. ASSUME NEW c \in held[t], ReleaseRollsBack(t, c)
        PROVE  sess'[hand'[u]] \in {"ready", "dead"}
    BY <1>0, <1>1, <2>8 DEF ReleaseRollsBack
  <2>9. ASSUME NEW c \in held[t], ReleaseReturns(t, c)
        PROVE  sess'[hand'[u]] \in {"ready", "dead"}
    <3>1. LeaveNotifying(t) /\ pc[t] = "out" /\ UNCHANGED <<hand, sess>>
      BY <2>9 DEF ReleaseReturns
    <3>2. pc[u] = "check"
      BY <1>0, <3>1, NotifyOne
    <3>3. QED
      BY <1>1, <3>1, <3>2
  <2>10. CASE Use(t)
    <3>1. ASSUME NEW c \in held[t],
                 Begin(t, c) \/ Finish(t, c) \/ Close(t, c) \/ Reconnect(t, c)
          PROVE  sess'[hand'[u]] \in {"ready", "dead"}
      <4>1. UNCHANGED <<pc, hand>> /\ \E s : sess' = [sess EXCEPT ![c] = s]
        BY <3>1 DEF Begin, Finish, Close, Reconnect
      <4>2. c \in Conn /\ hand[u] # c
        BY <1>0
      <4>3. QED
        BY <1>0, <1>1, <1>2, <4>1, <4>2
    <3>2. ASSUME NEW c \in held[t], NEW v \in Client, MoveHandle(t, v, c)
          PROVE  sess'[hand'[u]] \in {"ready", "dead"}
      BY <1>1, <3>2 DEF MoveHandle
    <3>3. QED
      BY <2>10, <3>1, <3>2 DEF Use
  <2>11. CASE Acquire(t) \/ LoopThrowsShutdown(t) \/ TakeCreates(t) \/ TakeWaits(t)
                \/ CreateThrows(t) \/ DeadlinePasses(t) \/ SpuriousWake(t)
                \/ WaitReturns(t) \/ WaitTimesOut(t) \/ UseAfterDestroy(t) \/ TakeReturns(t)
    BY <1>0, <1>1, <2>11
       DEF Acquire, LoopThrowsShutdown, TakeCreates, TakeWaits, CreateThrows, DeadlinePasses,
           SpuriousWake, WaitReturns, WaitTimesOut, UseAfterDestroy, TakeReturns, HandOver, Leave
  <2>12. QED
    BY <1>5, <2>1, <2>2, <2>3, <2>4, <2>5, <2>6, <2>7, <2>8, <2>9, <2>10, <2>11
       DEF Thread, Critical, Wakeup, Release
<1>6. ASSUME NEW c \in Conn, ServerDrops(c) PROVE sess'[hand'[u]] \in {"ready", "dead"}
  BY <1>0, <1>1, <1>2, <1>6 DEF ServerDrops
<1>7. CASE RaiseFlag \/ NotifyAll \/ Tick \/ Over \/ UNCHANGED vars
  BY <1>0, <1>1, <1>7 DEF RaiseFlag, NotifyAll, Tick, Over
<1>8. QED
  BY <1>3, <1>4, <1>5, <1>6, <1>7 DEF Next, Destroy
LEMMA CheckedInit == Init => CheckedIsClean
  BY DEF Init, CheckedIsClean

\* Only where acquire() returns does a thread get what no thread had.
LEMMA HandoverStep ==
  ASSUME OwnInv, IdleIsClean, CheckedIsClean, [Next]_vars,
         NEW u \in Client, NEW c \in held'[u], c \notin Lent
  PROVE  /\ HealthCheck => sess'[c] \in {"ready", "txn"}
         /\ RollbackOnReturn => sess'[c] # "txn"
<1>0. /\ idle \in Seq(Conn) /\ live \subseteq Conn /\ Range(idle) \subseteq Conn
      /\ hand \in [Client -> Conn \cup {Nobody}] /\ sess \in [Conn -> Session]
      /\ held \in [Client -> SUBSET Conn] /\ HandInUse
  BY DEF OwnInv, TypeInv, TypeOK, Range
<1>1. \A t \in Client : c \notin held[t]
  BY DEF Lent
<1> DEFINE Goal == /\ HealthCheck => sess'[c] \in {"ready", "txn"}
                   /\ RollbackOnReturn => sess'[c] # "txn"
<1> USE DEF threadVars, vars
<1>2. CASE UNCHANGED held
  BY <1>1, <1>2
<1>3. ASSUME NEW t \in Client, Thread(t) PROVE Goal
  <2>1. CASE TakeReturns(t)
    <3>1. idle # <<>> /\ held' = [held EXCEPT ![t] = @ \cup {Head(idle)}]
          /\ sess' = sess /\ ~HealthCheck
      BY <2>1 DEF TakeReturns, HandOver
    <3>2. c = Head(idle)
      BY <1>0, <1>1, <3>1
    <3>3. c \in Range(idle)
      BY <1>0, <3>1, <3>2, RangeOfTail DEF OwnInv, Exclusive, IsInjective
    <3>4. QED
      BY <3>1, <3>3 DEF IdleIsClean
  <2>2. CASE Check(t)
    <3>1. CASE CheckPasses(t, hand[t])
      <4>1. held' = [held EXCEPT ![t] = @ \cup {hand[t]}] /\ pc[t] = "check"
            /\ \/ Healthy(hand[t]) /\ sess' = sess
               \/ sess[hand[t]] = "dead" /\ sess' = [sess EXCEPT ![hand[t]] = "ready"]
        BY <2>2, <3>1 DEF Check, CheckPasses, HandOver
      <4>2. c = hand[t]
        BY <1>0, <1>1, <4>1
      <4>3. hand[t] \in Conn
        BY <1>0, <4>1 DEF HandInUse
      <4>4. RollbackOnReturn => sess[c] \in {"ready", "dead"}
        BY <4>1, <4>2 DEF CheckedIsClean
      <4>5. QED
        BY <1>0, <4>1, <4>2, <4>3, <4>4 DEF Healthy
    <3>2. CASE CheckFails(t, hand[t])
      BY <1>2, <3>2 DEF CheckFails
    <3>3. QED
      BY <2>2, <3>1, <3>2 DEF Check, CheckOutcome
  <2>3. CASE Create(t)
    <3>1. PICK x \in Free : Allocate(x) /\ held' = [held EXCEPT ![t] = @ \cup {x}]
      BY <2>3 DEF Create
    <3>2. c = x /\ sess' = [sess EXCEPT ![x] = "ready"] /\ x \in Conn
      BY <1>0, <1>1, <3>1 DEF Allocate, Free
    <3>3. QED
      BY <1>0, <3>2
  <2>4. CASE Release(t)
    <3>1. held'[u] \subseteq held[u]
      BY <1>0, <2>4
         DEF Release, ReleaseDestroys, ReleaseRollsBack, ReleaseReturns, HandleCleared
    <3>2. QED
      BY <1>1, <3>1
  <2>5. CASE Use(t)
    <3>1. held' = held \/ \E x \in held[t], v \in Client :
                             held' = [held EXCEPT ![t] = @ \ {x}, ![v] = @ \cup {x}]
      BY <2>5 DEF Use, Begin, Finish, Close, Reconnect, MoveHandle
    <3>2. ASSUME NEW x \in held[t], NEW v \in Client,
                 held' = [held EXCEPT ![t] = @ \ {x}, ![v] = @ \cup {x}]
          PROVE  FALSE
      <4>1. c # x
        BY <1>1
      <4>2. c \in held[u]
        BY <1>0, <3>2, <4>1
      <4>3. QED
        BY <1>1, <4>2
    <3>3. QED
      BY <1>2, <3>1, <3>2
  <2>6. CASE Acquire(t) \/ LoopThrowsShutdown(t) \/ LoopCleans(t) \/ TakeDropsStale(t)
               \/ TakeChecks(t) \/ TakeCreates(t) \/ TakeWaits(t) \/ CreateThrows(t)
               \/ RollbackSucceeds(t) \/ RollbackFails(t) \/ DeadlinePasses(t)
               \/ SpuriousWake(t) \/ WaitReturns(t) \/ WaitTimesOut(t) \/ UseAfterDestroy(t)
    BY <1>2, <2>6
       DEF Acquire, LoopThrowsShutdown, LoopCleans, TakeDropsStale, TakeChecks, TakeCreates,
           TakeWaits, CreateThrows, RollbackSucceeds, RollbackFails, DeadlinePasses,
           SpuriousWake, WaitReturns, WaitTimesOut, UseAfterDestroy
  <2>7. QED
    BY <1>3, <2>1, <2>2, <2>3, <2>4, <2>5, <2>6 DEF Thread, Critical, Wakeup
<1>4. CASE \/ WarmUp \/ WarmUpFails \/ Destroy \/ Tick \/ Over \/ UNCHANGED vars
           \/ \E x \in Conn : ServerDrops(x)
  BY <1>2, <1>4
     DEF WarmUp, WarmUpFails, Destroy, RaiseFlag, NotifyAll, Drain, Tick, Over, ServerDrops
<1>5. QED
  BY <1>3, <1>4 DEF Next

\* The connection that acquire() returns is usable when health checks are on,
\* and never in another borrower's transaction with rollback_on_return: the
\* server may have ended its session in the queue, between its return and its
\* check, or while the check was waiting for the ping.
THEOREM HandoverAlwaysSound == Spec => HandoverIsSound
<1>1. OwnInv /\ IdleIsClean /\ CheckedIsClean /\ [Next]_vars
        => [ \A t \in Client : \A c \in held'[t] \ Lent :
               /\ HealthCheck => sess'[c] \in {"ready", "txn"}
               /\ RollbackOnReturn => sess'[c] # "txn" ]_vars
  BY HandoverStep
<1>2. Spec => []CheckedIsClean
  BY CheckedInit, CheckedStep, QueueAlwaysClean, OwnInvariant, PTL DEF Spec
<1>3. QED
  BY <1>1, <1>2, QueueAlwaysClean, OwnInvariant, PTL DEF Spec, HandoverIsSound

-----------------------------------------------------------------------------
(* The minimum size                                                        *)

\* In an open pool whose options let nothing but expiry destroy connections.
OnlyExpiry == ~HealthCheck /\ ~RollbackOnReturn /\ AssumeStale = 0

MinimumInv ==
    /\ life \in {"warming", "open"} => ~shutdown
    /\ ~HealthCheck => \A t \in Client : pc[t] # "check"
    /\ ~RollbackOnReturn => \A t \in Client : pc[t] # "rollback"
    /\ OnlyExpiry /\ life = "open" /\ ~createFailed => total >= MinSize

LEMMA MinimumInit == Init => MinimumInv
  BY DEF Init, MinimumInv

\* A cleanup that removes the k-th connection found total_connections_ above
\* min_size with k - 1 removed.
LEMMA CleanupStops ==
  ASSUME TypeOK, Cleanup
  PROVE  UNCHANGED <<idle, total>> \/ total' >= MinSize
<1>1. PICK k \in 0..Len(idle) :
         (\A i \in 1..k : ShouldRemove(i)) /\ total' = total - k
         /\ idle' = SubSeq(idle, k + 1, Len(idle))
  BY DEF Cleanup
<1>2. total \in Nat /\ MinSize \in Nat /\ Len(idle) \in Nat /\ idle \in Seq(Conn)
  BY DEF TypeOK
<1>3. CASE k = 0
  <2>1. SubSeq(idle, 0 + 1, Len(idle)) = idle
    BY <1>2
  <2>2. QED
    BY <1>1, <1>2, <1>3, <2>1
<1>4. CASE k # 0
  <2>1. k \in 1..k /\ k \in Nat
    BY <1>4
  <2>2. total - (k - 1) > MinSize
    BY <1>1, <2>1 DEF ShouldRemove, AboveMinimum
  <2>3. QED
    BY <1>1, <1>2, <2>1, <2>2
<1>5. QED
  BY <1>3, <1>4

LEMMA MinimumStep == CountInv /\ MinimumInv /\ [Next]_vars => MinimumInv'
<1> SUFFICES ASSUME CountInv, MinimumInv, [Next]_vars PROVE MinimumInv'
  OBVIOUS
<1>0. /\ TypeOK /\ TypeInv /\ Phase /\ GrowthIsCovered /\ MutexHeld /\ total \in 0..SizeMax
      /\ pc \in [Client -> PC] /\ Len(idle) \in Nat
  BY DEF CountInv, OwnInv, TypeInv, TypeOK
<1> USE DEF MinimumInv, poolVars, threadVars, heapVars, vars
<1>1. CASE WarmUp
  <2>1. life = "warming" /\ total' = Inc(total) /\ UNCHANGED <<shutdown, pc>>
        /\ life' = IF Len(idle) + 1 < MinSize THEN "warming" ELSE "open"
    BY <1>1 DEF WarmUp
  <2>2. total = Len(idle) /\ total < MinSize
    BY <1>0, <2>1 DEF Phase
  <2>3. total' = total + 1
    BY <1>0, <2>1, <2>2 DEF Inc
  <2>4. QED
    BY <1>0, <2>1, <2>2, <2>3
<1>2. CASE WarmUpFails \/ RaiseFlag \/ Drain
  BY <1>0, <1>2 DEF WarmUpFails, RaiseFlag, Drain
<1>3. CASE NotifyAll
  <2>1. life' = "notified" /\ pc' = [t \in Client |-> IF pc[t] = "asleep" THEN "woken" ELSE pc[t]]
    BY <1>3 DEF NotifyAll
  <2>2. \A t \in Client : pc'[t] = pc[t] \/ pc'[t] = "woken"
    BY <2>1
  <2>3. QED
    BY <2>1, <2>2
<1>4. ASSUME NEW t \in Client, Thread(t) PROVE MinimumInv'
  <2>1. CASE LoopCleans(t)
    <3>1. total' = total \/ total' >= MinSize
      BY <1>0, <2>1, CleanupStops DEF LoopCleans
    <3>2. pc' = [pc EXCEPT ![t] = "take"] /\ UNCHANGED <<shutdown, life, createFailed>>
      BY <2>1 DEF LoopCleans
    <3>3. QED
      BY <1>0, <3>1, <3>2
  <2>2. CASE TakeDropsStale(t)
    <3>1. AssumeStale # 0 /\ pc' = [pc EXCEPT ![t] = "loop"] /\ UNCHANGED <<shutdown, life>>
      BY <2>2 DEF TakeDropsStale, AssumedStale
    <3>2. QED
      BY <1>0, <3>1 DEF OnlyExpiry
  <2>3. CASE TakeChecks(t)
    BY <1>0, <2>3 DEF TakeChecks
  <2>4. CASE Check(t)
    <3>1. pc[t] = "check" /\ UNCHANGED <<shutdown, life>>
          /\ (pc' = [pc EXCEPT ![t] = "out"] \/ pc' = [pc EXCEPT ![t] = "loop"])
      BY <2>4 DEF Check, CheckOutcome, CheckPasses, CheckFails, HandOver, Leave
    <3>2. QED
      BY <1>0, <3>1 DEF OnlyExpiry
  <2>5. CASE Create(t)
    <3>1. total' = Inc(total) /\ pc' = [pc EXCEPT ![t] = "out"]
          /\ UNCHANGED <<shutdown, life, createFailed>>
      BY <2>5 DEF Create, Leave
    <3>2. total < MaxSize
      BY <1>0, <2>5 DEF Create, GrowthIsCovered, CanGrow
    <3>3. total' = total + 1
      BY <1>0, <3>1, <3>2 DEF Inc
    <3>4. QED
      BY <1>0, <3>1, <3>3
  <2>6. CASE CreateThrows(t)
    BY <1>0, <2>6 DEF CreateThrows, Leave
  <2>7. CASE RollbackFails(t)
    BY <1>0, <2>7 DEF RollbackFails, Leave, OnlyExpiry
  <2>8. CASE RollbackSucceeds(t)
    <3>1. LeaveNotifying(t) /\ pc[t] = "rollback" /\ UNCHANGED <<total, life, shutdown, createFailed>>
      BY <2>8 DEF RollbackSucceeds
    <3>2. \A v \in Client : pc'[v] \in {pc[v], "out", "woken"}
      BY <1>0, <3>1, NotifyOne
    <3>3. QED
      BY <3>1, <3>2
  <2>9. ASSUME NEW c \in held[t], ReleaseDestroys(t, c) PROVE MinimumInv'
    BY <2>9 DEF ReleaseDestroys
  <2>10. ASSUME NEW c \in held[t], ReleaseRollsBack(t, c) PROVE MinimumInv'
    BY <1>0, <2>10 DEF ReleaseRollsBack
  <2>11. ASSUME NEW c \in held[t], ReleaseReturns(t, c) PROVE MinimumInv'
    <3>1. LeaveNotifying(t) /\ pc[t] = "out" /\ UNCHANGED <<total, life, shutdown, createFailed>>
      BY <2>11 DEF ReleaseReturns
    <3>2. \A v \in Client : pc'[v] \in {pc[v], "out", "woken"}
      BY <1>0, <3>1, NotifyOne
    <3>3. QED
      BY <3>1, <3>2
  <2>12. CASE Use(t)
    BY <2>12 DEF Use, Begin, Finish, Close, Reconnect, MoveHandle
  <2>13. CASE Acquire(t) \/ LoopThrowsShutdown(t) \/ TakeReturns(t) \/ TakeCreates(t)
                \/ TakeWaits(t) \/ DeadlinePasses(t) \/ SpuriousWake(t)
                \/ WaitReturns(t) \/ WaitTimesOut(t) \/ UseAfterDestroy(t)
    <3>1. UNCHANGED <<total, life, shutdown, createFailed>>
      BY <2>13
         DEF Acquire, LoopThrowsShutdown, TakeReturns, TakeCreates, TakeWaits, DeadlinePasses,
             SpuriousWake, WaitReturns, WaitTimesOut, UseAfterDestroy
    <3>2. \E s \in {"loop", "out", "create", "asleep", "woken", "lost"} :
             pc' = [pc EXCEPT ![t] = s]
      BY <2>13
         DEF Acquire, LoopThrowsShutdown, TakeReturns, TakeCreates, TakeWaits, DeadlinePasses,
             SpuriousWake, WaitReturns, WaitTimesOut, UseAfterDestroy, HandOver, Leave
    <3>3. \A v \in Client : pc'[v] = pc[v] \/ pc'[v] \notin {"check", "rollback"}
      BY <1>0, <3>2
    <3>4. QED
      BY <3>1, <3>3
  <2>14. QED
    BY <1>4, <2>1, <2>2, <2>3, <2>4, <2>5, <2>6, <2>7, <2>8, <2>9, <2>10, <2>11, <2>12, <2>13
       DEF Thread, Critical, Wakeup, Release
<1>5. CASE Tick \/ Over \/ UNCHANGED vars \/ \E x \in Conn : ServerDrops(x)
  BY <1>5 DEF Tick, Over, ServerDrops
<1>6. QED
  BY <1>1, <1>2, <1>3, <1>4, <1>5 DEF Next, Destroy

\* "never shrinks below min_size" (specs/spec-pool.md:166): with expiry alone,
\* and no failed creation, an open pool keeps min_size connections.
THEOREM MinimumAlwaysKept == Spec => []MinimumKept
<1>1. CountInv /\ MinimumInv => MinimumKept
  BY DEF MinimumInv, OnlyExpiry, MinimumKept, CountInv, LedgerMatchesHeap
<1>2. QED
  BY <1>1, MinimumInit, MinimumStep, CountInvariant, PTL DEF Spec

\* From the head of the loop to the queue: the cleanup is on the way.
LEMMA LoopToTake ==
  ASSUME TypeInv, [Next]_vars, NEW t \in Client, pc[t] = "loop", pc'[t] = "take"
  PROVE  Cleanup
<1>0. TypeOK /\ pc \in [Client -> PC]
  BY DEF TypeInv, TypeOK
<1> USE DEF poolVars, threadVars, vars
<1>1. ASSUME NEW u \in Client, Thread(u) PROVE Cleanup
  <2>1. CASE LoopCleans(u)
    BY <2>1 DEF LoopCleans
  <2>2. CASE TakeDropsStale(u) \/ TakeChecks(u) \/ TakeReturns(u)
    BY <1>0, <2>2 DEF TakeDropsStale, TakeChecks, TakeReturns, HandOver, Leave
  <2>3. CASE RollbackSucceeds(u)
    BY <2>3, NotifyOne DEF RollbackSucceeds
  <2>4. ASSUME NEW c \in held[u], ReleaseReturns(u, c) PROVE FALSE
    BY <2>4, NotifyOne DEF ReleaseReturns
  <2>5. CASE Acquire(u) \/ LoopThrowsShutdown(u) \/ TakeCreates(u) \/ TakeWaits(u) \/ Check(u)
             \/ Create(u) \/ CreateThrows(u) \/ RollbackFails(u) \/ DeadlinePasses(u)
             \/ SpuriousWake(u) \/ WaitReturns(u) \/ WaitTimesOut(u) \/ UseAfterDestroy(u)
    BY <1>0, <2>5
       DEF Acquire, LoopThrowsShutdown, TakeCreates, TakeWaits, Check, CheckOutcome,
           CheckPasses, CheckFails, Create, CreateThrows, RollbackFails, DeadlinePasses,
           SpuriousWake, WaitReturns, WaitTimesOut, UseAfterDestroy, HandOver, Leave
  <2>6. ASSUME NEW c \in held[u], ReleaseDestroys(u, c) \/ ReleaseRollsBack(u, c) PROVE FALSE
    BY <1>0, <2>6 DEF ReleaseDestroys, ReleaseRollsBack
  <2>7. CASE Use(u)
    BY <2>7 DEF Use, Begin, Finish, Close, Reconnect, MoveHandle
  <2>8. QED
    BY <1>1, <2>1, <2>2, <2>3, <2>4, <2>5, <2>6, <2>7 DEF Thread, Critical, Wakeup, Release
<1>2. CASE \/ WarmUp \/ WarmUpFails \/ Drain \/ RaiseFlag \/ Tick \/ Over \/ UNCHANGED vars
           \/ \E x \in Conn : ServerDrops(x)
  BY <1>2 DEF WarmUp, WarmUpFails, Drain, RaiseFlag, Tick, Over, ServerDrops
<1>3. CASE NotifyAll
  BY <1>3 DEF NotifyAll
<1>4. QED
  BY <1>1, <1>2, <1>3 DEF Next, Destroy

\* A cleanup takes from the counter what it takes from the heap: the difference of
\* the two is what it was, and it was nothing until a creation has failed.
LEMMA CleanupTakesBoth ==
  ASSUME CountInv, CountInv', Cleanup, NEW t \in Client, pc[t] = "loop"
  PROVE  /\ total \in Int /\ total' \in Int /\ MinSize \in Int
         /\ Cardinality(live) \in Int /\ Cardinality(live') \in Int
         /\ Cardinality(live') - total' = Cardinality(live) - total
         /\ createFailed \/ total = Cardinality(live)
<1>1. PICK k \in 0..Len(idle) : total' = total - k /\ netCreated' = netCreated - k
  BY DEF Cleanup
<1>2. /\ netCreated = Cardinality(live) /\ netCreated' = Cardinality(live')
      /\ ~createFailed /\ life # "gone" => total = Cardinality(live)
  BY DEF CountInv, LedgerMatchesHeap
<1>3. total \in Int /\ netCreated \in Int /\ k \in Int /\ MinSize \in Int
  BY DEF CountInv, OwnInv, TypeInv, TypeOK
<1>4. lock = t
  BY DEF CountInv, OwnInv, TypeInv, MutexHeld, Inside
<1>5. life # "gone"
  BY <1>4 DEF CountInv, Phase
<1>6. QED
  BY <1>1, <1>2, <1>3, <1>5

LEMMA CleanupLeavesMinimum ==
  ASSUME CountInv, CountInv', [Next]_vars, NEW t \in Client,
         pc[t] = "loop", pc'[t] = "take", idle' # idle
  PROVE  \/ Cardinality(live') >= MinSize
         \/ createFailed /\ total > Cardinality(live)
<1>1. TypeOK /\ TypeInv
  BY DEF CountInv, OwnInv, TypeInv
<1>2. Cleanup
  BY <1>1, LoopToTake
<1>3. total' >= MinSize
  BY <1>1, <1>2, CleanupStops
<1>4. /\ total \in Int /\ total' \in Int /\ MinSize \in Int
      /\ Cardinality(live) \in Int /\ Cardinality(live') \in Int
      /\ Cardinality(live') - total' = Cardinality(live) - total
      /\ createFailed \/ total = Cardinality(live)
  BY <1>2, CleanupTakesBoth
<1>5. QED
  BY <1>3, <1>4

\* A cleanup that removes something leaves min_size connections or more in
\* existence, for every history of the pool except one in which a failed creation
\* has made the counter exceed the connections.
THEOREM CleanupAlwaysStops == Spec => CleanupKeepsMinimum
<1>1. CountInv /\ CountInv' /\ [Next]_vars
        => [ \A t \in Client :
               pc[t] = "loop" /\ pc'[t] = "take" /\ idle' # idle =>
                  \/ Cardinality(live') >= MinSize
                  \/ createFailed /\ total > Cardinality(live) ]_vars
  BY CleanupLeavesMinimum
<1>2. QED
  BY <1>1, CountInvariant, PTL DEF Spec, CleanupKeepsMinimum

\* The first connection that stays is young enough, and so are all behind it,
\* which have been returned later; or the counter is down to min_size.
LEMMA CleanupCompletes ==
  ASSUME TypeOK, IdleIsOrdered, Cleanup
  PROVE  total' <= MinSize \/ \A c \in Range(idle') : age[c] < IdleMaxAge
<1>1. PICK k \in 0..Len(idle) :
         /\ k < Len(idle) => ~ShouldRemove(k + 1)
         /\ total' = total - k
         /\ idle' = SubSeq(idle, k + 1, Len(idle))
  BY DEF Cleanup
<1>2. PICK n \in Nat : n = Len(idle) /\ DOMAIN idle = 1..n /\ idle \in Seq(Conn)
  BY DEF TypeOK
<1>3. /\ DOMAIN idle' = 1..(n - k)
      /\ \A j \in 1..(n - k) : idle'[j] = idle[j + k]
  BY <1>1, <1>2
<1>4. k \in Nat /\ k <= n /\ total \in Nat /\ \A i \in 1..n : age[idle[i]] \in Nat
  BY <1>1, <1>2 DEF TypeOK
<1>5. CASE k = n
  <2>1. DOMAIN idle' = {}
    BY <1>3, <1>4, <1>5
  <2>2. QED
    BY <2>1 DEF Range
<1>6. CASE k < n
  <2>1. ~(total - k > MinSize) \/ age[idle[k + 1]] < IdleMaxAge
    <3>1. ~(total - ((k + 1) - 1) > MinSize /\ age[idle[k + 1]] >= IdleMaxAge)
      BY <1>1, <1>2, <1>6 DEF ShouldRemove, AboveMinimum
    <3>2. (k + 1) - 1 = k /\ k + 1 \in 1..n
      BY <1>4, <1>6
    <3>3. QED
      BY <1>4, <3>1, <3>2
  <2>2. ASSUME age[idle[k + 1]] < IdleMaxAge, NEW j \in 1..(n - k)
        PROVE  age[idle'[j]] < IdleMaxAge
    <3>1. j + k \in 1..n /\ k + 1 \in 1..n /\ idle'[j] = idle[j + k]
      BY <1>3, <1>4, <1>6
    <3>2. j + k = k + 1 \/ k + 1 < j + k
      BY <1>4
    <3>3. age[idle[k + 1]] >= age[idle[j + k]]
      BY <1>2, <1>4, <3>1, <3>2 DEF IdleIsOrdered
    <3>4. QED
      BY <1>4, <2>2, <3>1, <3>3
  <2>3. CASE age[idle[k + 1]] < IdleMaxAge
    <3>1. \A j \in DOMAIN idle' : age[idle'[j]] < IdleMaxAge
      BY <1>3, <2>2, <2>3
    <3>2. QED
      BY <3>1 DEF Range
  <2>4. CASE ~(total - k > MinSize)
    BY <1>1, <1>4, <2>4
  <2>5. QED
    BY <2>1, <2>3, <2>4
<1>7. QED
  BY <1>1, <1>4, <1>5, <1>6

\* The cleanup looks at the front only, and misses nothing: the order that all
\* returns keep makes stopping at the first young connection right.
THEOREM CleanupAlwaysCompletes == Spec => CleanupIsComplete
<1>1. ASSUME CountInv, CountInv', OrderInv, [Next]_vars,
             NEW t \in Client, pc[t] = "loop", pc'[t] = "take"
      PROVE  \/ Cardinality(live') <= MinSize
             \/ createFailed /\ total' <= MinSize
             \/ \A c \in Range(idle') : age[c] < IdleMaxAge
  <2>1. TypeOK /\ TypeInv /\ IdleIsOrdered
    BY <1>1 DEF CountInv, OwnInv, TypeInv, OrderInv
  <2>2. Cleanup
    BY <1>1, <2>1, LoopToTake
  <2>3. total' <= MinSize \/ \A c \in Range(idle') : age[c] < IdleMaxAge
    BY <2>1, <2>2, CleanupCompletes
  <2>4. createFailed \/ total' = Cardinality(live')
    BY <1>1, <2>2, CleanupTakesBoth
  <2>5. QED
    BY <2>3, <2>4
<1>2. CountInv /\ CountInv' /\ OrderInv /\ [Next]_vars
        => [ \A t \in Client :
               pc[t] = "loop" /\ pc'[t] = "take" =>
                  \/ Cardinality(live') <= MinSize
                  \/ createFailed /\ total' <= MinSize
                  \/ \A c \in Range(idle') : age[c] < IdleMaxAge ]_vars
  BY <1>1
<1>3. QED
  BY <1>2, CountInvariant, OrderInvariant, PTL DEF Spec, CleanupIsComplete

-----------------------------------------------------------------------------
(* The holder of the mutex                                                 *)

LEMMA PositionRanks ==
  /\ Position["create"] = 0 /\ Position["rollback"] = 0 /\ Position["take"] = 1
  /\ Position["loop"] = 2 /\ Position["check"] = 3
  BY DEF Position

\* While a thread has the mutex, nobody else reaches the queue or moves it.
LEMMA HolderIsAlone ==
  ASSUME TypeInv, Phase, [Next]_vars, NEW t \in Client, lock = t
  PROVE  Critical(t) \/ UNCHANGED <<idle, pc[t]>>
<1>0. TypeOK /\ pc \in [Client -> PC] /\ pc[t] \in Inside /\ lock # Nobody
  BY DEF TypeInv, TypeOK, MutexHeld
<1>1. ASSUME NEW u \in Client, Thread(u) PROVE Critical(t) \/ UNCHANGED <<idle, pc[t]>>
  <2>1. CASE Critical(u)
    <3>1. pc[u] \in Inside
      BY <2>1 DEF Critical, LoopThrowsShutdown, LoopCleans, TakeDropsStale, TakeChecks,
                  TakeReturns, TakeCreates, TakeWaits, Check, Create, CreateThrows,
                  RollbackSucceeds, RollbackFails, Inside
    <3>2. u = t
      BY <3>1 DEF TypeInv, MutexHeld
    <3>3. QED
      BY <2>1, <3>2
  <2>2. CASE Acquire(u) \/ Wakeup(u) \/ Release(u)
    BY <1>0, <2>2 DEF Acquire, Wakeup, WaitReturns, WaitTimesOut, Release, ReleaseDestroys,
                      ReleaseRollsBack, ReleaseReturns
  <2>3. CASE DeadlinePasses(u) \/ SpuriousWake(u) \/ UseAfterDestroy(u)
    <3>1. idle' = idle /\ pc[u] \notin Inside
      BY <2>3 DEF DeadlinePasses, SpuriousWake, UseAfterDestroy, poolVars, Inside
    <3>2. \E s \in PC : pc' = [pc EXCEPT ![u] = s]
      BY <2>3 DEF DeadlinePasses, SpuriousWake, UseAfterDestroy, PC, AcquireStep
    <3>3. QED
      BY <1>0, <3>1, <3>2
  <2>4. CASE Use(u)
    BY <2>4 DEF Use, Begin, Finish, Close, Reconnect, MoveHandle, poolVars, threadVars
  <2>5. QED
    BY <1>1, <2>1, <2>2, <2>3, <2>4 DEF Thread
<1>2. CASE WarmUp \/ WarmUpFails \/ Drain
  <2>1. life \notin {"warming", "aborted"}
    BY <1>0 DEF Phase, Inside
  <2>2. QED
    BY <1>0, <1>2, <2>1 DEF WarmUp, WarmUpFails, Drain, MutexIsFree
<1>3. CASE NotifyAll
  BY <1>0, <1>3 DEF NotifyAll, Inside
<1>4. CASE RaiseFlag \/ Tick \/ Over \/ UNCHANGED vars \/ \E x \in Conn : ServerDrops(x)
  BY <1>4 DEF RaiseFlag, Tick, Over, ServerDrops, vars, poolVars, threadVars
<1>5. QED
  BY <1>1, <1>2, <1>3, <1>4 DEF Next, Destroy

\* A step in the critical section that stays in it has less to do afterwards.
LEMMA HolderStep ==
  ASSUME TypeInv, NEW t \in Client, Critical(t), lock' = t
  PROVE  WorkLeft(t)' < WorkLeft(t)
<1>0. TypeOK /\ pc \in [Client -> PC] /\ t # Nobody /\ idle \in Seq(Conn)
  BY DEF TypeInv, TypeOK
<1>1. PICK n \in Nat : n = Len(idle)
  BY <1>0
<1>2. CASE LoopCleans(t)
  <2>1. PICK k \in 0..Len(idle) : idle' = SubSeq(idle, k + 1, Len(idle))
    BY <1>2 DEF LoopCleans, Cleanup
  <2>2. Len(idle') \in Nat /\ Len(idle') <= n
    BY <1>0, <1>1, <2>1
  <2>3. pc[t] = "loop" /\ pc'[t] = "take"
    BY <1>0, <1>2 DEF LoopCleans
  <2>4. QED
    BY <1>1, <2>2, <2>3, PositionRanks DEF WorkLeft
<1>3. CASE TakeDropsStale(t) \/ TakeChecks(t)
  <2>1. idle # <<>> /\ idle' = Tail(idle)
    BY <1>3 DEF TakeDropsStale, TakeChecks, PopFront
  <2>2. n > 0 /\ Len(idle') = n - 1
    BY <1>0, <1>1, <2>1
  <2>3. pc[t] = "take" /\ pc'[t] \in {"loop", "check"}
    BY <1>0, <1>3 DEF TakeDropsStale, TakeChecks
  <2>4. QED
    BY <1>1, <2>2, <2>3, PositionRanks DEF WorkLeft
<1>4. CASE TakeCreates(t)
  <2>1. pc[t] = "take" /\ pc'[t] = "create" /\ idle' = idle
    BY <1>0, <1>4 DEF TakeCreates, poolVars
  <2>2. QED
    BY <1>1, <2>1, PositionRanks DEF WorkLeft
<1>5. CASE Check(t)
  <2>1. CASE CheckPasses(t, hand[t])
    BY <1>0, <2>1 DEF CheckPasses, HandOver, Leave
  <2>2. CASE CheckFails(t, hand[t])
    <3>1. pc[t] = "check" /\ pc'[t] = "loop" /\ idle' = idle
      BY <1>0, <1>5, <2>2 DEF Check, CheckFails
    <3>2. QED
      BY <1>1, <3>1, PositionRanks DEF WorkLeft
  <2>3. QED
    BY <1>5, <2>1, <2>2 DEF Check, CheckOutcome
<1>6. CASE LoopThrowsShutdown(t) \/ TakeReturns(t) \/ TakeWaits(t) \/ Create(t)
           \/ CreateThrows(t) \/ RollbackFails(t) \/ RollbackSucceeds(t)
  BY <1>0, <1>6 DEF LoopThrowsShutdown, TakeReturns, TakeWaits, Create, CreateThrows,
                    RollbackFails, RollbackSucceeds, HandOver, Leave, LeaveNotifying
<1>7. QED
  BY <1>2, <1>3, <1>4, <1>5, <1>6 DEF Critical

\* The mutex is given back after finitely many steps of its holder, whatever it
\* finds in the queue, whatever the server and the other threads do meanwhile:
\* each step leaves fewer connections to look at, or less to do with this one.
THEOREM HolderAlwaysAdvances == Spec => HolderAdvances
<1>1. TypeInv /\ CountInv /\ [Next]_vars
        => [ \A t \in Client :
               lock = t /\ lock' = t /\ <<idle, pc[t]>>' # <<idle, pc[t]>>
                  => WorkLeft(t)' < WorkLeft(t) ]_vars
  BY HolderIsAlone, HolderStep DEF CountInv
<1>2. QED
  BY <1>1, TypeCorrect, CountInvariant, PTL DEF Spec, HolderAdvances

-----------------------------------------------------------------------------
(* The lending desk                                                        *)

PlaceOK ==
    \A c \in Conn :
      /\ c \notin live => Place(c) = "absent"
      /\ \A t \in Client : c \in held[t] => Place(c) = t
      /\ c \in live /\ (\A t \in Client : c \notin held[t]) => Place(c) = "shelf"

\* Ownership is exclusive, so that a connection has one place.
LEMMA PlaceOf == OwnInv => PlaceOK
<1> SUFFICES ASSUME OwnInv, NEW c \in Conn
             PROVE  /\ c \notin live => Place(c) = "absent"
                    /\ \A t \in Client : c \in held[t] => Place(c) = t
                    /\ c \in live /\ (\A t \in Client : c \notin held[t]) => Place(c) = "shelf"
  BY DEF PlaceOK
<1>1. c \notin live => Place(c) = "absent"
  BY DEF Place
<1>2. c \in live /\ (\A t \in Client : c \notin held[t]) => Place(c) = "shelf"
  BY DEF Place
<1>3. ASSUME NEW t \in Client, c \in held[t] PROVE Place(c) = t
  <2>1. c \in live
    BY <1>3 DEF OwnInv, Owned, HasOwner
  <2>2. \A u \in Client : c \in held[u] => u = t
    BY <1>3 DEF OwnInv, Exclusive
  <2>3. (CHOOSE u \in Client : c \in held[u]) = t
    BY <1>3, <2>2
  <2>4. QED
    BY <1>3, <2>1, <2>3 DEF Place
<1>4. QED
  BY <1>1, <1>2, <1>3

LEMMA PlaceOfNext == OwnInv' => PlaceOK'
  BY PlaceOf, PTL

\* The connections in S change their place, the others stay where they are.
LEMMA MoveIsTransfer ==
  ASSUME OwnInv, OwnInv', UNCHANGED createFailed, NEW S \in SUBSET Conn, NEW from, NEW to,
         \A c \in S : Place(c) = from /\ Place(c)' = to,
         \A c \in Conn \ S : /\ c \in live' <=> c \in live
                             /\ \A t \in Client : c \in held'[t] <=> c \in held[t]
  PROVE  Desk!Transfer(S, from, to)
<1>1. ASSUME NEW c \in Conn \ S PROVE Place(c)' = Place(c)
  <2>1. PlaceOK /\ PlaceOK'
    BY PlaceOf, PlaceOfNext
  <2>2. \A t \in Client : held[t] \subseteq live
    BY DEF OwnInv, TypeInv, TypeOK, Owned, HasOwner
  <2>3. CASE c \notin live
    BY <2>1, <2>3 DEF PlaceOK
  <2>4. CASE \E t \in Client : c \in held[t]
    <3>1. PICK t \in Client : c \in held[t]
      BY <2>4
    <3>2. Place(c) = t /\ Place(c)' = t
      BY <2>1, <3>1 DEF PlaceOK
    <3>3. QED
      BY <3>2
  <2>5. CASE c \in live /\ \A t \in Client : c \notin held[t]
    BY <2>1, <2>5 DEF PlaceOK
  <2>6. QED
    BY <2>3, <2>4, <2>5
<1>2. S \subseteq Desk!At(from)
  BY DEF Desk!At
<1>3. [c \in Conn |-> Place(c)'] = [c \in Conn |-> IF c \in S THEN to ELSE [x \in Conn |-> Place(x)][c]]
  BY <1>1
<1>4. QED
  BY <1>2, <1>3 DEF Desk!Transfer

\* LeaseDesk has its own instance of FiniteSets.
LEMMA DeskCounts == \A S : Desk!Cardinality(S) = Cardinality(S)
  BY DEF Cardinality, Desk!Cardinality

LEMMA GrowthIsRoom ==
  ASSUME CountInv, CanGrow, life # "gone"
  PROVE  Desk!Room
<1>1. IsFiniteSet(live) /\ Cardinality(live) \in Nat
  BY FS_Subset, FS_CardinalityType DEF CountInv, OwnInv, TypeInv, TypeOK
<1>2. Desk!Present \subseteq live
  <2>1. ASSUME NEW c \in Desk!Present PROVE c \in live
    BY DEF Desk!Present, Desk!At, Place
  <2>2. QED
    BY <2>1
<1>3. Cardinality(Desk!Present) <= Cardinality(live) /\ Cardinality(Desk!Present) \in Nat
  <2>1. IsFiniteSet(Desk!Present) /\ Cardinality(Desk!Present) <= Cardinality(live)
    BY <1>1, <1>2, FS_Subset
  <2>2. QED
    BY <2>1, FS_CardinalityType
<1>4. ~createFailed => Cardinality(live) < MaxSize
  BY DEF CountInv, LedgerMatchesHeap, CanGrow
<1>5. ~createFailed => Cardinality(Desk!Present) < MaxSize
  BY <1>1, <1>3, <1>4
<1>6. QED
  BY <1>5, DeskCounts, Zenon DEF Desk!Room

LEMMA DeskInitial == Init => Desk!DeskInit
<1> SUFFICES ASSUME Init PROVE Desk!DeskInit
  OBVIOUS
<1>1. [c \in Conn |-> Place(c)] = [c \in Conn |-> "absent"]
  BY DEF Init, Place
<1>2. QED
  BY <1>1 DEF Init, Desk!DeskInit
\* Each step of the pool is one of the desk, or moves nothing.
LEMMA DeskStep ==
  ASSUME CountInv, OwnInv', [Next]_vars, ~UNCHANGED Desk!deskVars
  PROVE  Desk!DeskNext
<1>0. /\ OwnInv /\ TypeOK /\ HandInUse /\ Owned /\ Exclusive /\ Phase /\ MutexHeld
      /\ idle \in Seq(Conn) /\ IsInjective(idle) /\ Range(idle) \subseteq live
      /\ live \subseteq Conn /\ hand \in [Client -> Conn \cup {Nobody}]
      /\ held \in [Client -> SUBSET Conn] /\ PlaceOK /\ PlaceOK'
      /\ \A t \in Client : held[t] \subseteq live /\ held[t] \cap Range(idle) = {}
      /\ \A t \in Client : hand[t] # Nobody => hand[t] \in live
      /\ \A t, u \in Client : hand[t] \notin held[u]
      /\ \A t, u \in Client : t # u => held[t] \cap held[u] = {}
  <2>1. /\ OwnInv /\ TypeOK /\ HandInUse /\ Owned /\ Exclusive /\ Phase /\ MutexHeld
        /\ idle \in Seq(Conn) /\ hand \in [Client -> Conn \cup {Nobody}]
        /\ live \subseteq Conn /\ held \in [Client -> SUBSET Conn]
    BY DEF CountInv, OwnInv, TypeInv, TypeOK
  <2>2. IsInjective(idle) /\ Range(idle) \subseteq live
    BY <2>1 DEF Exclusive, IsInjective, Owned, HasOwner, Range
  <2>3. \A t \in Client : held[t] \subseteq live /\ held[t] \cap Range(idle) = {}
    BY <2>1 DEF Owned, HasOwner, Exclusive
  <2>4. \A t \in Client : hand[t] # Nobody => hand[t] \in live
    BY <2>1 DEF Owned, HasOwner
  <2>5. /\ \A t, u \in Client : hand[t] \notin held[u]
        /\ \A t, u \in Client : t # u => held[t] \cap held[u] = {}
    BY <2>1 DEF Exclusive
  <2>6. PlaceOK /\ PlaceOK'
    BY <2>1, PlaceOf, PlaceOfNext
  <2>7. QED
    BY <2>1, <2>2, <2>3, <2>4, <2>5, <2>6
<1>c. Desk!deskVars' # Desk!deskVars
  OBVIOUS
\* Nothing moves.
<1>s. ASSUME UNCHANGED <<live, held, createFailed>> PROVE FALSE
  <2>1. \A c \in Conn : Place(c)' = Place(c)
    BY <1>s DEF Place
  <2>2. [c \in Conn |-> Place(c)'] = [c \in Conn |-> Place(c)]
    BY <2>1
  <2>3. QED
    BY <1>s, <2>2 DEF Desk!deskVars
\* Connections that nobody holds are destroyed.
<1>d. ASSUME NEW S \in SUBSET live, live' = live \ S, UNCHANGED <<held, createFailed>>,
             \A t \in Client : held[t] \cap S = {}
      PROVE  Desk!DeskNext
  <2>1. \A c \in S : Place(c) = "shelf" /\ Place(c)' = "absent"
    BY <1>0, <1>d DEF PlaceOK
  <2>2. Desk!Transfer(S, "shelf", "absent")
    <3>1. S \in SUBSET Conn
      BY <1>0
    <3>2. \A c \in Conn \ S : (c \in live' <=> c \in live)
                            /\ \A t \in Client : c \in held'[t] <=> c \in held[t]
      BY <1>d
    <3>3. QED
      BY <1>0, <1>d, <2>1, <3>1, <3>2, MoveIsTransfer
  <2>3. QED
    BY <1>0, <1>c, <2>2 DEF Desk!DeskNext, Desk!Scrap
\* A connection goes from the shelf to a thread.
<1>l. ASSUME NEW t \in Client, NEW c \in live, \A u \in Client : c \notin held[u],
             held' = [held EXCEPT ![t] = @ \cup {c}], UNCHANGED <<live, createFailed>>
      PROVE  Desk!DeskNext
  <2>1. Place(c) = "shelf" /\ Place(c)' = t /\ c \in Conn
    BY <1>0, <1>l DEF PlaceOK
  <2>2. \A x \in Conn \ {c} : (x \in live' <=> x \in live)
                            /\ \A u \in Client : x \in held'[u] <=> x \in held[u]
    BY <1>0, <1>l
  <2>3. Desk!Transfer({c}, "shelf", t)
    BY <1>0, <1>l, <2>1, <2>2, MoveIsTransfer
  <2>4. QED
    BY <1>c, <2>1, <2>3 DEF Desk!DeskNext, Desk!Lend
\* A thread gives one back, to the queue or to be rolled back first.
<1>r. ASSUME NEW t \in Client, NEW c \in held[t], HandleCleared(t, c),
             UNCHANGED <<live, createFailed>>
      PROVE  Desk!DeskNext
  <2>1. c \in Conn /\ c \in live /\ held' = [held EXCEPT ![t] = @ \ {c}]
        /\ \A u \in Client : c \notin held'[u]
    BY <1>0, <1>r DEF HandleCleared
  <2>2. Place(c) = t /\ Place(c)' = "shelf"
    BY <1>0, <1>r, <2>1 DEF PlaceOK
  <2>3. \A x \in Conn \ {c} : (x \in live' <=> x \in live)
                            /\ \A u \in Client : x \in held'[u] <=> x \in held[u]
    BY <1>0, <1>r, <2>1
  <2>4. Desk!Transfer({c}, t, "shelf")
    BY <1>0, <1>r, <2>1, <2>2, <2>3, MoveIsTransfer
  <2>5. QED
    BY <1>c, <2>1, <2>4 DEF Desk!DeskNext, Desk!Return
<1>1. CASE WarmUp
  <2>1. PICK c \in Free : live' = live \cup {c}
    BY <1>1 DEF WarmUp, Allocate
  <2>2. c \in Conn \ live /\ held' = held /\ createFailed' = createFailed /\ life = "warming"
    BY <1>1, <2>1 DEF WarmUp, threadVars, Free
  <2>3. CanGrow
    BY <1>0, <2>2 DEF Phase, CanGrow, TypeOK
  <2>4. Desk!Room
    BY <2>2, <2>3, GrowthIsRoom
  <2>5. \A t \in Client : c \notin held[t]
    BY <1>0, <2>2
  <2>6. Place(c) = "absent" /\ Place(c)' = "shelf"
    BY <1>0, <2>1, <2>2, <2>5 DEF PlaceOK
  <2>7. \A x \in Conn \ {c} : (x \in live' <=> x \in live)
                            /\ \A u \in Client : x \in held'[u] <=> x \in held[u]
    BY <2>1, <2>2
  <2>8. Desk!Transfer({c}, "absent", "shelf")
    BY <1>0, <2>2, <2>6, <2>7, MoveIsTransfer
  <2>9. QED
    BY <1>c, <2>2, <2>4, <2>8 DEF Desk!DeskNext, Desk!Stock
<1>2. CASE WarmUpFails \/ Drain
  <2>1. live' = live \ Range(idle) /\ UNCHANGED <<held, createFailed>>
    BY <1>2 DEF WarmUpFails, Drain, Delete, threadVars
  <2>2. QED
    BY <1>0, <1>d, <2>1
<1>3. ASSUME NEW t \in Client, Thread(t) PROVE Desk!DeskNext
  <2>1. CASE LoopCleans(t)
    <3>1. PICK k \in 0..Len(idle) : live' = live \ {idle[i] : i \in 1..k}
      BY <2>1 DEF LoopCleans, Cleanup, Delete
    <3>2. {idle[i] : i \in 1..k} \subseteq Range(idle)
      BY <1>0 DEF Range
    <3>3. UNCHANGED <<held, createFailed>>
      BY <2>1 DEF LoopCleans
    <3> DEFINE S == {idle[i] : i \in 1..k}
    <3>4. S \in SUBSET live /\ \A u \in Client : held[u] \cap S = {}
      BY <1>0, <3>2
    <3> HIDE DEF S
    <3>5. live' = live \ S
      BY <3>1 DEF S
    <3>6. QED
      BY <1>d, <3>3, <3>4, <3>5
  <2>2. CASE TakeDropsStale(t)
    <3>1. idle # <<>> /\ live' = live \ {Head(idle)} /\ UNCHANGED <<held, createFailed>>
      BY <2>2 DEF TakeDropsStale, Drop, Delete
    <3>2. Head(idle) \in Range(idle)
      BY <1>0, <3>1, RangeOfTail
    <3>3. {Head(idle)} \in SUBSET live /\ \A u \in Client : held[u] \cap {Head(idle)} = {}
      BY <1>0, <3>2
    <3>4. QED
      BY <1>d, <3>1, <3>3
  <2>3. CASE TakeReturns(t)
    <3>1. idle # <<>> /\ held' = [held EXCEPT ![t] = @ \cup {Head(idle)}]
          /\ UNCHANGED <<live, createFailed>>
      BY <2>3 DEF TakeReturns, HandOver
    <3>2. Head(idle) \in Range(idle)
      BY <1>0, <3>1, RangeOfTail
    <3>3. QED
      BY <1>0, <1>l, <3>1, <3>2
  <2>4. CASE Check(t)
    <3>1. hand[t] \in live /\ (\A u \in Client : hand[t] \notin held[u])
          /\ createFailed' = createFailed
      BY <1>0, <2>4 DEF Check, HandInUse
    <3>2. CASE CheckPasses(t, hand[t])
      BY <1>l, <3>1, <3>2 DEF CheckPasses, HandOver
    <3>3. CASE CheckFails(t, hand[t])
      <4>1. live' = live \ {hand[t]} /\ held' = held
        BY <3>3 DEF CheckFails, Drop, Delete
      <4>2. {hand[t]} \in SUBSET live /\ \A u \in Client : held[u] \cap {hand[t]} = {}
        BY <3>1
      <4>3. QED
        BY <1>d, <3>1, <4>1, <4>2
    <3>4. QED
      BY <2>4, <3>2, <3>3 DEF Check, CheckOutcome
  <2>5. CASE Create(t)
    <3>1. PICK c \in Free : live' = live \cup {c} /\ held' = [held EXCEPT ![t] = @ \cup {c}]
      BY <2>5 DEF Create, Allocate
    <3>2. c \in Conn \ live /\ createFailed' = createFailed /\ pc[t] = "create"
      BY <2>5, <3>1 DEF Create, Free
    <3>3. CanGrow
      BY <3>2 DEF CountInv, GrowthIsCovered
    <3>4. life # "gone"
      BY <1>0, <3>2 DEF Phase, MutexHeld, Inside
    <3>5. Desk!Room
      BY <3>3, <3>4, GrowthIsRoom
    <3>6. Place(c) = "absent" /\ Place(c)' = t
      BY <1>0, <3>1, <3>2 DEF PlaceOK
    <3>7. \A x \in Conn \ {c} : (x \in live' <=> x \in live)
                              /\ \A u \in Client : x \in held'[u] <=> x \in held[u]
      BY <1>0, <3>1
    <3>8. Desk!Transfer({c}, "absent", t)
      BY <1>0, <3>2, <3>6, <3>7, MoveIsTransfer
    <3>9. QED
      BY <1>c, <3>2, <3>5, <3>8 DEF Desk!DeskNext, Desk!Order
  <2>6. CASE CreateThrows(t)
    <3>1. \A c \in Conn : Place(c)' = Place(c)
      BY <2>6 DEF CreateThrows, Place
    <3>2. [c \in Conn |-> Place(c)'] = [c \in Conn |-> Place(c)] /\ createFailed' = TRUE
      BY <2>6, <3>1 DEF CreateThrows
    <3>3. Desk!DeliveryFails
      BY <3>2 DEF Desk!DeliveryFails
    <3>4. QED
      BY <1>c, <3>3 DEF Desk!DeskNext
  <2>7. CASE RollbackFails(t)
    <3>1. hand[t] \in live /\ \A u \in Client : hand[t] \notin held[u]
      BY <1>0, <2>7 DEF RollbackFails, HandInUse
    <3>2. live' = live \ {hand[t]} /\ UNCHANGED <<held, createFailed>>
      BY <2>7 DEF RollbackFails, Drop, Delete
    <3>3. {hand[t]} \in SUBSET live /\ \A u \in Client : held[u] \cap {hand[t]} = {}
      BY <3>1
    <3>4. QED
      BY <1>d, <3>2, <3>3
  <2>8. ASSUME NEW c \in held[t], ReleaseDestroys(t, c) PROVE Desk!DeskNext
    <3>1. live' = live \ {c} /\ held' = [held EXCEPT ![t] = @ \ {c}] /\ createFailed' = createFailed
      BY <2>8 DEF ReleaseDestroys, HandleCleared, Drop, Delete
    <3>2. c \in Conn /\ Place(c) = t /\ Place(c)' = "absent"
      BY <1>0, <3>1 DEF PlaceOK
    <3>3. \A x \in Conn \ {c} : (x \in live' <=> x \in live)
                              /\ \A u \in Client : x \in held'[u] <=> x \in held[u]
      BY <1>0, <3>1
    <3>4. Desk!Transfer({c}, t, "absent")
      BY <1>0, <3>1, <3>2, <3>3, MoveIsTransfer
    <3>5. QED
      BY <1>c, <3>2, <3>4 DEF Desk!DeskNext, Desk!Discard
  <2>9. ASSUME NEW c \in held[t], ReleaseRollsBack(t, c) \/ ReleaseReturns(t, c)
        PROVE  Desk!DeskNext
    BY <1>r, <2>9 DEF ReleaseRollsBack, ReleaseReturns, heapVars
  <2>10. ASSUME NEW c \in held[t], NEW u \in Client, MoveHandle(t, u, c) PROVE Desk!DeskNext
    <3>1. held' = [held EXCEPT ![t] = @ \ {c}, ![u] = @ \cup {c}] /\ t # u
          /\ UNCHANGED <<live, createFailed>>
      BY <2>10 DEF MoveHandle, heapVars
    <3>2. c \in Conn /\ c \in live /\ c \in held'[u]
      BY <1>0, <3>1
    <3>3. Place(c) = t /\ Place(c)' = u
      BY <1>0, <3>2 DEF PlaceOK
    <3>4. \A x \in Conn \ {c} : (x \in live' <=> x \in live)
                              /\ \A v \in Client : x \in held'[v] <=> x \in held[v]
      BY <1>0, <3>1
    <3>5. Desk!Transfer({c}, t, u)
      BY <1>0, <3>1, <3>2, <3>3, <3>4, MoveIsTransfer
    <3>6. QED
      BY <1>c, <3>2, <3>5 DEF Desk!DeskNext, Desk!HandOn
  <2>11. CASE Acquire(t) \/ LoopThrowsShutdown(t) \/ TakeChecks(t) \/ TakeCreates(t)
                \/ TakeWaits(t) \/ RollbackSucceeds(t) \/ DeadlinePasses(t) \/ SpuriousWake(t)
                \/ WaitReturns(t) \/ WaitTimesOut(t) \/ UseAfterDestroy(t)
    BY <1>s, <2>11
       DEF Acquire, LoopThrowsShutdown, TakeChecks, TakeCreates, TakeWaits, RollbackSucceeds,
           DeadlinePasses, SpuriousWake, WaitReturns, WaitTimesOut, UseAfterDestroy, heapVars
  <2>12. ASSUME NEW c \in held[t], Begin(t, c) \/ Finish(t, c) \/ Close(t, c) \/ Reconnect(t, c)
         PROVE  FALSE
    BY <1>s, <2>12 DEF Begin, Finish, Close, Reconnect, threadVars
  <2>13. QED
    BY <1>3, <2>1, <2>2, <2>3, <2>4, <2>5, <2>6, <2>7, <2>8, <2>9, <2>10, <2>11, <2>12
       DEF Thread, Critical, Wakeup, Release, Use
<1>4. CASE RaiseFlag \/ NotifyAll \/ Tick \/ Over \/ UNCHANGED vars
           \/ \E x \in Conn : ServerDrops(x)
  BY <1>s, <1>4
     DEF RaiseFlag, NotifyAll, Tick, Over, ServerDrops, vars, threadVars, heapVars
<1>5. QED
  BY <1>1, <1>2, <1>3, <1>4 DEF Next, Destroy

\* The pool, with its mutex, queue, counters, waiters and destructor, is a desk
\* that lends each connection to one borrower at a time, within max_size.
THEOREM PoolIsADesk == Spec => ImplementsDesk
<1>1. CountInv => OwnInv
  BY DEF CountInv
<1>2. CountInv /\ OwnInv' /\ [Next]_vars => [Desk!DeskNext]_(Desk!deskVars)
  BY DeskStep
<1>3. Spec => []CountInv
  BY CountInvariant
<1>4. QED
  BY <1>1, <1>2, <1>3, DeskInitial, PTL DEF Spec, ImplementsDesk, Desk!DeskSpec
=============================================================================
