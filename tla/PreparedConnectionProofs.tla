---------------------- MODULE PreparedConnectionProofs ----------------------
(***************************************************************************)
(* What PreparedConnection guarantees for any number of statements, any    *)
(* capacity of the cache and any behaviour of the server.                  *)
(***************************************************************************)
EXTENDS PreparedConnection, TLAPS

-----------------------------------------------------------------------------
(* The sequence operations of get_or_prepare_stmt()                        *)

Front(s, i) == SubSeq(s, 1, i - 1)
Back(s, i) == SubSeq(s, i + 1, Len(s))

LEMMA FrontOf ==
  ASSUME NEW S, NEW s \in Seq(S), NEW n \in Nat, n = Len(s), NEW i \in 1..n
  PROVE  /\ Front(s, i) \in Seq(S)
         /\ Len(Front(s, i)) = i - 1
         /\ \A j \in 1..(i - 1) : Front(s, i)[j] = s[j]
  BY DEF Front

LEMMA BackOf ==
  ASSUME NEW S, NEW s \in Seq(S), NEW n \in Nat, n = Len(s), NEW i \in 1..n
  PROVE  /\ Back(s, i) \in Seq(S)
         /\ Len(Back(s, i)) = n - i
         /\ \A j \in 1..(n - i) : Back(s, i)[j] = s[i + j]
  BY DEF Back

\* The i-th entry is taken out; those behind it move up.
TakenOut(s, i) == SubSeq(s, 1, i - 1) \o SubSeq(s, i + 1, Len(s))

LEMMA TakeOut ==
  ASSUME NEW S, NEW s \in Seq(S), NEW n \in Nat, n = Len(s), NEW i \in 1..n
  PROVE  /\ TakenOut(s, i) \in Seq(S)
         /\ Len(TakenOut(s, i)) = n - 1
         /\ \A j \in 1..(i - 1) : TakenOut(s, i)[j] = s[j]
         /\ \A j \in 1..(n - i) : TakenOut(s, i)[i - 1 + j] = s[i + j]
<1> DEFINE a == Front(s, i)
           b == Back(s, i)
<1> HIDE DEF a, b
<1>1. a \in Seq(S) /\ b \in Seq(S)
  BY FrontOf, BackOf DEF a, b
<1>2. /\ Len(a) = i - 1 /\ \A j \in 1..(i - 1) : a[j] = s[j]
      /\ Len(b) = n - i /\ \A j \in 1..(n - i) : b[j] = s[i + j]
  <2>1. Len(a) = i - 1
    BY FrontOf DEF a
  <2>2. \A j \in 1..(i - 1) : a[j] = s[j]
    BY FrontOf DEF a
  <2>3. Len(b) = n - i
    BY BackOf DEF b
  <2>4. \A j \in 1..(n - i) : b[j] = s[i + j]
    BY BackOf DEF b
  <2>5. QED
    BY <2>1, <2>2, <2>3, <2>4
<1>3. a \o b \in Seq(S)
  BY <1>1
<1>4. Len(a \o b) = n - 1
  <2>1. Len(a \o b) = Len(a) + Len(b)
    BY <1>1
  <2>2. (i - 1) + (n - i) = n - 1
    OBVIOUS
  <2>3. QED
    BY <1>2, <2>1, <2>2
<1>5. \A j \in 1..(i - 1) : (a \o b)[j] = s[j]
  BY <1>1, <1>2
<1>6. ASSUME NEW j \in 1..(n - i) PROVE (a \o b)[i - 1 + j] = s[i + j]
  <2>1. (a \o b)[i - 1 + j] = b[j]
    BY <1>1, <1>2
  <2>2. QED
    BY <1>2, <2>1
<1>7. TakenOut(s, i) = a \o b
  BY DEF a, b, TakenOut, Front, Back
<1>8. QED
  BY <1>3, <1>4, <1>5, <1>6, <1>7

\* A new entry at the back leaves the others where they are.
LEMMA AddBack ==
  ASSUME NEW S, NEW s \in Seq(S), NEW n \in Nat, n = Len(s), NEW e \in S
  PROVE  /\ Append(s, e) \in Seq(S)
         /\ Len(Append(s, e)) = n + 1
         /\ \A j \in 1..n : Append(s, e)[j] = s[j]
         /\ Append(s, e)[n + 1] = e
  OBVIOUS

\* A hit moves the i-th entry to the back, past those behind it: where the
\* entry at place j came from.
From(i, n, j) == IF j < i THEN j ELSE IF j < n THEN j + 1 ELSE i

LEMMA FromIsInjective ==
  ASSUME NEW n \in Nat, NEW i \in 1..n
  PROVE  /\ \A j \in 1..n : From(i, n, j) \in 1..n
         /\ \A j, k \in 1..n : j # k => From(i, n, j) # From(i, n, k)
         /\ \A k \in 1..n : \E j \in 1..n : From(i, n, j) = k
<1>1. /\ \A j \in 1..n : From(i, n, j) \in 1..n
      /\ \A j, k \in 1..n : j # k => From(i, n, j) # From(i, n, k)
  BY DEF From
<1>2. ASSUME NEW k \in 1..n PROVE \E j \in 1..n : From(i, n, j) = k
  <2>1. CASE k < i
    BY <2>1 DEF From
  <2>2. CASE k = i
    <3>1. From(i, n, n) = k /\ n \in 1..n
      BY <2>2 DEF From
    <3>2. QED
      BY <3>1
  <2>3. CASE k > i
    <3>1. From(i, n, k - 1) = k /\ k - 1 \in 1..n
      BY <2>3 DEF From
    <3>2. QED
      BY <3>1
  <2>4. QED
    BY <2>1, <2>2, <2>3
<1>3. QED
  BY <1>1, <1>2

MovedToBack(s, i) == Append(TakenOut(s, i), s[i])

LEMMA MoveToBack ==
  ASSUME NEW S, NEW s \in Seq(S), NEW n \in Nat, n = Len(s), NEW i \in 1..n
  PROVE  /\ MovedToBack(s, i) \in Seq(S)
         /\ Len(MovedToBack(s, i)) = n
         /\ \A j \in 1..n : MovedToBack(s, i)[j] = s[From(i, n, j)]
<1> DEFINE r == TakenOut(s, i)
<1> HIDE DEF r
<1>1. /\ r \in Seq(S) /\ Len(r) = n - 1
      /\ \A j \in 1..(i - 1) : r[j] = s[j]
      /\ \A j \in 1..(n - i) : r[i - 1 + j] = s[i + j]
  <2>1. TakenOut(s, i) \in Seq(S)
    BY TakeOut
  <2>2. Len(TakenOut(s, i)) = n - 1
    BY TakeOut
  <2>3. \A j \in 1..(i - 1) : TakenOut(s, i)[j] = s[j]
    BY TakeOut
  <2>4. \A j \in 1..(n - i) : TakenOut(s, i)[i - 1 + j] = s[i + j]
    BY TakeOut
  <2>5. QED
    BY <2>1, <2>2, <2>3, <2>4, Zenon DEF r
<1>2. s[i] \in S
  OBVIOUS
<1>3. MovedToBack(s, i) = Append(r, s[i])
  BY DEF MovedToBack, r
<1>4. /\ Append(r, s[i]) \in Seq(S) /\ Len(Append(r, s[i])) = n
      /\ Append(r, s[i])[n] = s[i]
  BY <1>1, <1>2
<1>5. ASSUME NEW j \in 1..n PROVE Append(r, s[i])[j] = s[From(i, n, j)]
  <2>1. CASE j = n
    BY <1>4, <2>1 DEF From
  <2>2. CASE j < i
    <3>1. j \in 1..(n - 1) /\ j \in 1..(i - 1)
      BY <2>2
    <3>2. Append(r, s[i])[j] = r[j]
      BY <1>1, <1>2, <3>1
    <3>3. QED
      BY <1>1, <2>2, <3>1, <3>2 DEF From
  <2>3. CASE j >= i /\ j < n
    <3>1. j \in 1..(n - 1) /\ j - i + 1 \in 1..(n - i)
      BY <2>3
    <3>2. Append(r, s[i])[j] = r[j]
      BY <1>1, <1>2, <3>1
    <3>3. r[i - 1 + (j - i + 1)] = s[i + (j - i + 1)]
      BY <1>1, <3>1
    <3>4. i - 1 + (j - i + 1) = j /\ i + (j - i + 1) = j + 1 /\ From(i, n, j) = j + 1
      BY <2>3 DEF From
    <3>5. QED
      BY <3>2, <3>3, <3>4
  <2>4. j = n \/ j < i \/ (j >= i /\ j < n)
    OBVIOUS
  <2>5. QED
    BY <2>1, <2>2, <2>3, <2>4, Zenon
<1>6. QED
  BY <1>1, <1>3, <1>4, <1>5

\* The first entry is evicted and a new one added at the back.
Replaced(s, e) == Append(Tail(s), e)

LEMMA EvictAndAdd ==
  ASSUME NEW S, NEW s \in Seq(S), NEW n \in Nat, n = Len(s), n >= 1, NEW e \in S
  PROVE  /\ Replaced(s, e) \in Seq(S)
         /\ Len(Replaced(s, e)) = n
         /\ \A j \in 1..(n - 1) : Replaced(s, e)[j] = s[j + 1]
         /\ Replaced(s, e)[n] = e
<1> DEFINE a == Tail(s)
<1>1. a \in Seq(S) /\ Len(a) = n - 1
  OBVIOUS
<1>2. \A j \in 1..(n - 1) : a[j] = s[j + 1]
  OBVIOUS
<1> HIDE DEF a
<1>3. Append(a, e) \in Seq(S) /\ Len(Append(a, e)) = n /\ Append(a, e)[n] = e
  BY <1>1
<1>4. ASSUME NEW j \in 1..(n - 1) PROVE Append(a, e)[j] = s[j + 1]
  <2>1. Append(a, e)[j] = a[j]
    BY <1>1
  <2>2. QED
    BY <1>2, <2>1
<1>5. QED
  BY <1>3, <1>4 DEF a, Replaced

-----------------------------------------------------------------------------
(* Typing                                                                  *)

Entry == [sql : Sql, stmt : Stmt]

LEMMA InitTypeOK == Init => TypeOK
<1> SUFFICES ASSUME Init PROVE TypeOK
  OBVIOUS
<1>1. connected \in BOOLEAN /\ handle \in BOOLEAN /\ (connected => handle)
  BY DEF Init
<1>2. cache \in Seq([sql : Sql, stmt : Stmt])
  BY DEF Init
<1>3. /\ link \in {"up", "down"} /\ open \subseteq Stmt /\ known \subseteq Stmt
      /\ owner \in [Stmt -> Result \cup {None}]
      /\ rs \in [Result -> Stmt \cup {None}]
  BY DEF Init
<1>4. {serverTxn, userTxn, wantsRows, retried, escaped} \subseteq BOOLEAN
  BY Zenon DEF Init
<1>5. /\ pc \in PC /\ outcome \in Outcome /\ effects \in [first : Nat, retry : Nat]
      /\ sql \in IF pc = "idle" THEN {None} ELSE Sql
      /\ stmt \in IF pc \in {"idle", "get"} THEN {None} ELSE Stmt
  BY DEF Init, PC, Outcome, NoEffect
<1>6. QED
  BY <1>1, <1>2, <1>3, <1>4, <1>5 DEF TypeOK

LEMMA ClearCacheTyped ==
  ASSUME TypeOK, ClearCache
  PROVE  /\ cache' \in Seq(Entry)
         /\ open' \subseteq Stmt /\ known' \subseteq Stmt
         /\ owner' \in [Stmt -> Result \cup {None}]
  BY DEF TypeOK, ClearCache, CloseStmts, Entry

LEMMA RememberTyped ==
  ASSUME TypeOK, pc = "get", NEW s \in Stmt, Remember(s)
  PROVE  /\ cache' \in Seq(Entry)
         /\ open' \subseteq Stmt /\ known' \subseteq Stmt
         /\ owner' \in [Stmt -> Result \cup {None}]
<1>1. cache \in Seq(Entry) /\ [sql |-> sql, stmt |-> s] \in Entry
  BY DEF TypeOK, Entry
<1>2. Full => Len(cache) >= 1 /\ Len(cache) \in Nat
  BY <1>1, CapacityAssumption DEF Full
<1>3. cache' \in Seq(Entry)
  <2>1. CASE Full
    BY <1>1, <1>2, <2>1, EvictAndAdd DEF Remember, Replaced
  <2>2. CASE ~Full
    BY <1>1, <2>2, AddBack DEF Remember
  <2>3. QED
    BY <2>1, <2>2
<1>4. QED
  BY <1>3 DEF TypeOK, Remember

LEMMA HitTyped ==
  ASSUME TypeOK, NEW i \in DOMAIN cache, cache' = Append(Without(i), cache[i])
  PROVE  cache' \in Seq(Entry) /\ cache[i].stmt \in Stmt
<1>1. cache \in Seq(Entry) /\ Len(cache) \in Nat /\ i \in 1..Len(cache)
  BY DEF TypeOK, Entry
<1>2. cache' = MovedToBack(cache, i)
  BY DEF MovedToBack, TakenOut, Without
<1>3. MovedToBack(cache, i) \in Seq(Entry)
  BY <1>1, MoveToBack
<1>4. cache[i] \in Entry
  BY <1>1
<1>5. QED
  BY <1>2, <1>3, <1>4 DEF Entry

\* The parts of TypeOK, by what a step may disturb.
ClientTyped ==
    /\ connected \in BOOLEAN /\ handle \in BOOLEAN /\ (connected => handle)
    /\ cache \in Seq(Entry)
ServerTyped ==
    /\ link \in {"up", "down"}
    /\ open \subseteq Stmt /\ known \subseteq Stmt
    /\ owner \in [Stmt -> Result \cup {None}]
    /\ rs \in [Result -> Stmt \cup {None}]
FlagsTyped ==
    /\ serverTxn \in BOOLEAN /\ userTxn \in BOOLEAN /\ wantsRows \in BOOLEAN
    /\ retried \in BOOLEAN /\ escaped \in BOOLEAN
CallTyped ==
    /\ pc \in PC /\ outcome \in Outcome /\ effects \in [first : Nat, retry : Nat]
    /\ sql \in IF pc = "idle" THEN {None} ELSE Sql
    /\ stmt \in IF pc \in {"idle", "get"} THEN {None} ELSE Stmt

LEMMA TypeParts == TypeOK <=> ClientTyped /\ ServerTyped /\ FlagsTyped /\ CallTyped
<1>1. {serverTxn, userTxn, wantsRows, retried, escaped} \subseteq BOOLEAN <=> FlagsTyped
  BY Zenon DEF FlagsTyped
<1>2. QED
  BY <1>1 DEF TypeOK, ClientTyped, ServerTyped, CallTyped, Entry

LEMMA TypePartsPrime ==
  TypeOK' <=> ClientTyped' /\ ServerTyped' /\ FlagsTyped' /\ CallTyped'
  BY TypeParts, PTL

LEMMA TypeKept == TypeOK /\ [Next]_vars => TypeOK'
<1> SUFFICES ASSUME TypeOK, [Next]_vars
             PROVE  ClientTyped' /\ ServerTyped' /\ FlagsTyped' /\ CallTyped'
  BY TypePartsPrime
<1>0. ClientTyped /\ ServerTyped /\ FlagsTyped /\ CallTyped
  BY TypeParts
<1>1. CASE SessionEnds
  <2>1. ClientTyped' /\ ServerTyped' /\ CallTyped'
    BY <1>0, <1>1 DEF SessionEnds, Lost, clientVars, userVars, callVars,
       histVars, ClientTyped, ServerTyped, CallTyped, PC, Outcome
  <2>2. FlagsTyped'
    BY <1>0, <1>1, Zenon DEF SessionEnds, Lost, FlagsTyped, clientVars,
       userVars, callVars, histVars
  <2>3. QED
    BY <2>1, <2>2
<1>2. CASE Connect
  <2>0. ClearCache => /\ cache' \in Seq(Entry)
                     /\ open' \subseteq Stmt /\ known' \subseteq Stmt
                     /\ owner' \in [Stmt -> Result \cup {None}]
    BY ClearCacheTyped
  <2>1. ClientTyped' /\ ServerTyped' /\ CallTyped'
    BY <1>0, <1>2, <2>0 DEF Connect, ForgetStmts, userVars, callVars,
       ClientTyped, ServerTyped, CallTyped, PC, Outcome
  <2>2. FlagsTyped'
    BY <1>0, <1>2, Zenon DEF Connect, ForgetStmts, FlagsTyped, userVars,
       callVars
  <2>3. QED
    BY <2>1, <2>2
<1>3. CASE Close
  <2>0. /\ cache' \in Seq(Entry)
        /\ open' \subseteq Stmt /\ known' \subseteq Stmt
        /\ owner' \in [Stmt -> Result \cup {None}]
    BY <1>3, ClearCacheTyped DEF Close
  <2>1. ClientTyped' /\ ServerTyped' /\ CallTyped'
    BY <1>0, <1>3, <2>0 DEF Close, FreeHandle, callVars, histVars,
       ClientTyped, ServerTyped, CallTyped, PC, Outcome
  <2>2. FlagsTyped'
    BY <1>0, <1>3, Zenon DEF Close, FreeHandle, FlagsTyped, callVars, histVars
  <2>3. QED
    BY <2>1, <2>2
<1>4. CASE PingThrows
  <2>1. ClientTyped' /\ ServerTyped' /\ CallTyped'
    BY <1>0, <1>4 DEF PingThrows, serverVars, callVars, ClientTyped,
       ServerTyped, CallTyped, PC, Outcome
  <2>2. FlagsTyped'
    BY <1>0, <1>4, Zenon DEF PingThrows, FlagsTyped, serverVars, callVars
  <2>3. QED
    BY <2>1, <2>2
<1>5. CASE TextThrows
  <2>1. ClientTyped' /\ ServerTyped' /\ CallTyped'
    BY <1>0, <1>5 DEF TextThrows, clientVars, serverVars, callVars,
       ClientTyped, ServerTyped, CallTyped, PC, Outcome
  <2>2. FlagsTyped'
    BY <1>0, <1>5, Zenon DEF TextThrows, FlagsTyped, clientVars, serverVars,
       callVars
  <2>3. QED
    BY <2>1, <2>2
<1>6. ASSUME NEW begins \in BOOLEAN, Transact(begins)
      PROVE  ClientTyped' /\ ServerTyped' /\ FlagsTyped' /\ CallTyped'
  <2>1. ClientTyped' /\ ServerTyped' /\ CallTyped'
    BY <1>0, <1>6 DEF Transact, clientVars, callVars, ClientTyped,
       ServerTyped, CallTyped, PC, Outcome
  <2>2. FlagsTyped'
    BY <1>0, <1>6, Zenon DEF Transact, FlagsTyped, clientVars, callVars
  <2>3. QED
    BY <2>1, <2>2
<1>7. ASSUME NEW text \in Sql, NEW rows \in BOOLEAN, Call(text, rows)
      PROVE  ClientTyped' /\ ServerTyped' /\ FlagsTyped' /\ CallTyped'
  <2>1. ClientTyped' /\ ServerTyped' /\ CallTyped'
    BY <1>0, <1>7 DEF Call, NoEffect, clientVars, serverVars, userVars, ClientTyped,
       ServerTyped, CallTyped, PC, Outcome
  <2>2. FlagsTyped'
    BY <1>0, <1>7, Zenon DEF Call, FlagsTyped, clientVars, serverVars,
       userVars
  <2>3. QED
    BY <2>1, <2>2
<1>8. CASE GetHits
  <2>0. cache' \in Seq(Entry) /\ stmt' \in Stmt
    BY <1>8, HitTyped DEF GetHits
  <2>1. ClientTyped' /\ ServerTyped' /\ CallTyped'
    BY <1>0, <1>8, <2>0 DEF GetHits, serverVars, userVars, histVars,
       ClientTyped, ServerTyped, CallTyped, PC, Outcome
  <2>2. FlagsTyped'
    BY <1>0, <1>8, Zenon DEF GetHits, FlagsTyped, serverVars, userVars,
       histVars
  <2>3. QED
    BY <2>1, <2>2
<1>9. CASE GetPrepares
  <2>0. /\ cache' \in Seq(Entry) /\ stmt' \in Stmt
        /\ open' \subseteq Stmt /\ known' \subseteq Stmt
        /\ owner' \in [Stmt -> Result \cup {None}]
    BY <1>9, RememberTyped DEF GetPrepares
  <2>1. ClientTyped' /\ ServerTyped' /\ CallTyped'
    BY <1>0, <1>9, <2>0 DEF GetPrepares, userVars, histVars, ClientTyped,
       ServerTyped, CallTyped, PC, Outcome
  <2>2. FlagsTyped'
    BY <1>0, <1>9, Zenon DEF GetPrepares, FlagsTyped, userVars, histVars
  <2>3. QED
    BY <2>1, <2>2
<1>10. CASE GetThrows
  <2>1. ClientTyped' /\ ServerTyped' /\ CallTyped'
    BY <1>0, <1>10 DEF GetThrows, End, clientVars, serverVars,
       ClientTyped, ServerTyped, CallTyped, PC, Outcome
  <2>2. FlagsTyped'
    BY <1>0, <1>10, Zenon DEF GetThrows, End, FlagsTyped, clientVars,
       serverVars
  <2>3. QED
    BY <2>1, <2>2
<1>11. CASE ResetSucceeds
  <2>1. ClientTyped' /\ ServerTyped' /\ CallTyped'
    BY <1>0, <1>11 DEF ResetSucceeds, Goto, clientVars, serverVars,
       ClientTyped, ServerTyped, CallTyped, PC, Outcome
  <2>2. FlagsTyped'
    BY <1>0, <1>11, Zenon DEF ResetSucceeds, Goto, FlagsTyped, clientVars,
       serverVars
  <2>3. QED
    BY <2>1, <2>2
<1>12. CASE ResetFails
  <2>1. ClientTyped' /\ ServerTyped' /\ CallTyped'
    BY <1>0, <1>12 DEF ResetFails, Fail, End, Goto, clientVars,
       serverVars, ClientTyped, ServerTyped, CallTyped, PC, Outcome
  <2>2. FlagsTyped'
    BY <1>0, <1>12, Zenon DEF ResetFails, Fail, End, Goto, FlagsTyped,
       clientVars, serverVars
  <2>3. QED
    BY <2>1, <2>2
<1>13. CASE AttemptThrows
  <2>1. ClientTyped' /\ ServerTyped' /\ CallTyped'
    BY <1>0, <1>13 DEF AttemptThrows, End, clientVars, serverVars,
       ClientTyped, ServerTyped, CallTyped, PC, Outcome
  <2>2. FlagsTyped'
    BY <1>0, <1>13, Zenon DEF AttemptThrows, End, FlagsTyped, clientVars,
       serverVars
  <2>3. QED
    BY <2>1, <2>2
<1>14. CASE RunSucceeds
  <2>1. ClientTyped' /\ ServerTyped' /\ CallTyped'
    BY <1>0, <1>14 DEF RunSucceeds, Discard, TakesEffect, End, Goto,
       clientVars, ClientTyped, ServerTyped, CallTyped, PC, Outcome
  <2>2. FlagsTyped'
    BY <1>0, <1>14, Zenon DEF RunSucceeds, Discard, TakesEffect, End, Goto,
       FlagsTyped, clientVars
  <2>3. QED
    BY <2>1, <2>2
<1>15. CASE RunFails
  <2>1. ClientTyped' /\ ServerTyped' /\ CallTyped'
    BY <1>0, <1>15 DEF RunFails, Discard, Fail, End, Goto, clientVars,
       ClientTyped, ServerTyped, CallTyped, PC, Outcome
  <2>2. FlagsTyped'
    BY <1>0, <1>15, Zenon DEF RunFails, Discard, Fail, End, Goto, FlagsTyped,
       clientVars
  <2>3. QED
    BY <2>1, <2>2
<1>16. CASE RunLosesAnswer
  <2>1. ClientTyped' /\ ServerTyped' /\ CallTyped'
    BY <1>0, <1>16 DEF RunLosesAnswer, Discard, TakesEffect, Lost, Fail,
       End, Goto, clientVars, ClientTyped, ServerTyped, CallTyped, PC,
       Outcome
  <2>2. FlagsTyped'
    BY <1>0, <1>16, Zenon DEF RunLosesAnswer, Discard, TakesEffect, Lost,
       Fail, End, Goto, FlagsTyped, clientVars
  <2>3. QED
    BY <2>1, <2>2
<1>17. CASE StoreSucceeds
  <2>1. ClientTyped' /\ ServerTyped' /\ CallTyped'
    BY <1>0, <1>17 DEF StoreSucceeds, End, clientVars, ClientTyped,
       ServerTyped, CallTyped, PC, Outcome
  <2>2. FlagsTyped'
    BY <1>0, <1>17, Zenon DEF StoreSucceeds, End, FlagsTyped, clientVars
  <2>3. QED
    BY <2>1, <2>2
<1>18. CASE StoreFails
  <2>1. ClientTyped' /\ ServerTyped' /\ CallTyped'
    BY <1>0, <1>18 DEF StoreFails, Fail, End, Goto, clientVars,
       serverVars, ClientTyped, ServerTyped, CallTyped, PC, Outcome
  <2>2. FlagsTyped'
    BY <1>0, <1>18, Zenon DEF StoreFails, Fail, End, Goto, FlagsTyped,
       clientVars, serverVars
  <2>3. QED
    BY <2>1, <2>2
<1>19. CASE RecoverSucceeds
  <2>0. /\ cache' \in Seq(Entry)
        /\ open' \subseteq Stmt /\ known' \subseteq Stmt
        /\ owner' \in [Stmt -> Result \cup {None}]
    BY <1>19, ClearCacheTyped DEF RecoverSucceeds
  <2>1. ClientTyped' /\ ServerTyped' /\ CallTyped'
    BY <1>0, <1>19, <2>0 DEF RecoverSucceeds, Goto, ClientTyped,
       ServerTyped, CallTyped, PC, Outcome
  <2>2. FlagsTyped'
    BY <1>0, <1>19, Zenon DEF RecoverSucceeds, Goto, FlagsTyped
  <2>3. QED
    BY <2>1, <2>2
<1>20. CASE RecoverThrows
  <2>0. /\ cache' \in Seq(Entry)
        /\ open' \subseteq Stmt /\ known' \subseteq Stmt
        /\ owner' \in [Stmt -> Result \cup {None}]
    BY <1>20, ClearCacheTyped DEF RecoverThrows
  <2>1. ClientTyped' /\ ServerTyped' /\ CallTyped'
    BY <1>0, <1>20, <2>0 DEF RecoverThrows, End, ClientTyped, ServerTyped,
       CallTyped, PC, Outcome
  <2>2. FlagsTyped'
    BY <1>0, <1>20, Zenon DEF RecoverThrows, End, FlagsTyped
  <2>3. QED
    BY <2>1, <2>2
<1>21. CASE ReprepareSucceeds
  <2>1. ClientTyped' /\ ServerTyped' /\ CallTyped'
    BY <1>0, <1>21 DEF ReprepareSucceeds, GoRound, clientVars, serverVars,
       ClientTyped, ServerTyped, CallTyped, PC, Outcome
  <2>2. FlagsTyped'
    BY <1>0, <1>21, Zenon DEF ReprepareSucceeds, GoRound, FlagsTyped,
       clientVars, serverVars
  <2>3. QED
    BY <2>1, <2>2
<1>22. CASE ReprepareThrows
  <2>1. ClientTyped' /\ ServerTyped' /\ CallTyped'
    BY <1>0, <1>22 DEF ReprepareThrows, End, clientVars, serverVars,
       ClientTyped, ServerTyped, CallTyped, PC, Outcome
  <2>2. FlagsTyped'
    BY <1>0, <1>22, Zenon DEF ReprepareThrows, End, FlagsTyped, clientVars,
       serverVars
  <2>3. QED
    BY <2>1, <2>2
<1>23. ASSUME NEW r \in Result, DropResult(r)
      PROVE  ClientTyped' /\ ServerTyped' /\ FlagsTyped' /\ CallTyped'
  <2>1. ClientTyped' /\ ServerTyped' /\ CallTyped'
    BY <1>0, <1>23 DEF DropResult, clientVars, callVars, histVars,
       ClientTyped, ServerTyped, CallTyped, PC, Outcome
  <2>2. FlagsTyped'
    BY <1>0, <1>23, Zenon DEF DropResult, FlagsTyped, clientVars, callVars,
       histVars
  <2>3. QED
    BY <2>1, <2>2
<1>24. CASE UNCHANGED vars
  <2>1. ClientTyped' /\ ServerTyped' /\ CallTyped'
    BY <1>0, <1>24 DEF vars, clientVars, serverVars, userVars, callVars,
       histVars, ClientTyped, ServerTyped, CallTyped
  <2>2. FlagsTyped'
    BY <1>0, <1>24, Zenon DEF FlagsTyped, vars, clientVars, serverVars,
       userVars, callVars, histVars
  <2>3. QED
    BY <2>1, <2>2
<1>25. QED
  BY <1>1, <1>2, <1>3, <1>4, <1>5, <1>6, <1>7, <1>8, <1>9, <1>10, <1>11,
     <1>12, <1>13, <1>14, <1>15, <1>16, <1>17, <1>18, <1>19, <1>20,
     <1>21, <1>22, <1>23, <1>24, Zenon
     DEF Next, InCall, Get, Attempt, Recovery

\* Every value keeps its type, and the position in a call what it says of the
\* call's locals, for every set of statements and every capacity of the cache.
THEOREM TypeCorrect == Spec => []TypeOK
<1>1. Init => TypeOK
  BY InitTypeOK
<1>2. TypeOK /\ [Next]_vars => TypeOK'
  BY TypeKept
<1>3. QED
  BY <1>1, <1>2, PTL DEF Spec

-----------------------------------------------------------------------------
(* The cache of prepared statements                                        *)

\* What a step can do to the cache and to the open handles.
LEMMA CacheSteps ==
  ASSUME TypeOK, Next
  PROVE  \/ UNCHANGED <<cache, open>>
         \/ ClearCache
         \/ /\ pc = "get" /\ connected /\ link = "up" /\ link' = link
            /\ NoHit /\ \E s \in Stmt \ open : Remember(s)
         \/ /\ UNCHANGED <<open, known, link, connected>>
            /\ \E i \in DOMAIN cache : Hit(i) /\ cache' = Append(Without(i), cache[i])
<1>1. CASE GetHits
  BY <1>1 DEF GetHits, serverVars
<1>2. CASE GetPrepares
  BY <1>2 DEF GetPrepares
<1>3. CASE Connect \/ Close \/ RecoverSucceeds \/ RecoverThrows
  BY <1>3 DEF Connect, ForgetStmts, Close, RecoverSucceeds, RecoverThrows
<1>4. CASE SessionEnds \/ PingThrows \/ TextThrows \/ GetThrows \/ AttemptThrows
  BY <1>4 DEF SessionEnds, PingThrows, TextThrows, GetThrows, AttemptThrows,
              clientVars, serverVars
<1>5. CASE ResetSucceeds \/ ResetFails \/ RunSucceeds \/ RunFails \/ RunLosesAnswer
  BY <1>5 DEF ResetSucceeds, ResetFails, RunSucceeds, RunFails, RunLosesAnswer,
              clientVars, serverVars
<1>6. CASE StoreSucceeds \/ StoreFails \/ ReprepareSucceeds \/ ReprepareThrows
  BY <1>6 DEF StoreSucceeds, StoreFails, ReprepareSucceeds, ReprepareThrows,
              clientVars, serverVars
<1>7. CASE \/ \E begins \in BOOLEAN : Transact(begins)
           \/ \E text \in Sql, rows \in BOOLEAN : Call(text, rows)
           \/ \E r \in Result : DropResult(r)
  BY <1>7 DEF Transact, Call, DropResult, clientVars, serverVars
<1>8. QED
  BY <1>1, <1>2, <1>3, <1>4, <1>5, <1>6, <1>7, Zenon
     DEF Next, InCall, Get, Attempt, Recovery

\* An entry that is moved to the back is still there, once.
LEMMA HitKeepsMap ==
  ASSUME TypeOK, CacheIsAMap,
         NEW i \in DOMAIN cache, cache' = Append(Without(i), cache[i])
  PROVE  CacheIsAMap' /\ Cached' = Cached
<1> DEFINE n == Len(cache)
<1>1. n \in Nat /\ DOMAIN cache = 1..n /\ i \in 1..n /\ cache \in Seq(Entry)
  BY DEF TypeOK, Entry
<1>2. cache' = MovedToBack(cache, i)
  BY DEF MovedToBack, TakenOut, Without
<1>3. /\ cache' \in Seq(Entry) /\ Len(cache') = n
      /\ \A j \in 1..n : cache'[j] = cache[From(i, n, j)]
  <2>1. MovedToBack(cache, i) \in Seq(Entry)
    BY <1>1, MoveToBack
  <2>2. Len(MovedToBack(cache, i)) = n
    BY <1>1, MoveToBack
  <2>3. \A j \in 1..n : MovedToBack(cache, i)[j] = cache[From(i, n, j)]
    BY <1>1, MoveToBack
  <2>4. QED
    BY <1>2, <2>1, <2>2, <2>3
<1>4. DOMAIN cache' = 1..n
  BY <1>3
<1>5. /\ \A j \in 1..n : From(i, n, j) \in 1..n
      /\ \A j, k \in 1..n : j # k => From(i, n, j) # From(i, n, k)
      /\ \A k \in 1..n : \E j \in 1..n : From(i, n, j) = k
  BY <1>1, FromIsInjective
<1> HIDE DEF n
<1>6. n <= Capacity
      /\ \A j, k \in 1..n :
            j # k => cache[j].sql # cache[k].sql /\ cache[j].stmt # cache[k].stmt
  BY <1>1 DEF CacheIsAMap, n
<1>7. CacheIsAMap'
  <2>1. ASSUME NEW j \in 1..n, NEW k \in 1..n, j # k
        PROVE  cache'[j].sql # cache'[k].sql /\ cache'[j].stmt # cache'[k].stmt
    <3>1. /\ From(i, n, j) \in 1..n /\ From(i, n, k) \in 1..n
          /\ From(i, n, j) # From(i, n, k)
      BY <1>5, <2>1
    <3>2. /\ cache'[j] = cache[From(i, n, j)]
          /\ cache'[k] = cache[From(i, n, k)]
      BY <1>3
    <3>3. QED
      BY <1>6, <3>1, <3>2
  <2>2. Len(cache') <= Capacity
    BY <1>3, <1>6
  <2>3. QED
    BY <1>4, <2>1, <2>2 DEF CacheIsAMap
<1>8. Cached' = Cached
  <2>1. Cached' = {cache'[j].stmt : j \in 1..n}
    BY <1>4, Zenon DEF Cached
  <2>2. Cached = {cache[k].stmt : k \in 1..n}
    BY <1>1, Zenon DEF Cached
  <2>3. ASSUME NEW j \in 1..n PROVE cache'[j].stmt \in Cached
    <3>1. cache'[j] = cache[From(i, n, j)] /\ From(i, n, j) \in 1..n
      BY <1>3, <1>5
    <3>2. QED
      BY <2>2, <3>1
  <2>4. ASSUME NEW k \in 1..n PROVE cache[k].stmt \in Cached'
    <3>1. PICK j \in 1..n : From(i, n, j) = k
      BY <1>5
    <3>2. cache'[j] = cache[k]
      BY <1>3, <3>1
    <3>3. QED
      BY <2>1, <3>2
  <2>5. QED
    BY <2>1, <2>2, <2>3, <2>4
<1>9. QED
  BY <1>7, <1>8

\* A new entry has a text and a handle no other entry has; the one it replaces
\* is the only one that goes.
LEMMA RememberKeepsMap ==
  ASSUME TypeOK, CacheIsAMap, StatementsAccounted, pc = "get", NoHit,
         NEW s \in Stmt \ open, Remember(s)
  PROVE  CacheIsAMap' /\ Cached' = (Cached \ Victims) \cup {s}
<1> DEFINE n == Len(cache)
           e == [sql |-> sql, stmt |-> s]
<1>1. n \in Nat /\ DOMAIN cache = 1..n /\ cache \in Seq(Entry) /\ e \in Entry
  BY DEF TypeOK, Entry
<1>2. /\ n <= Capacity
      /\ \A j, k \in 1..n :
            j # k => cache[j].sql # cache[k].sql /\ cache[j].stmt # cache[k].stmt
  BY <1>1 DEF CacheIsAMap
<1>3. \A j \in 1..n : cache[j].sql # sql /\ cache[j].stmt # s
  BY <1>1 DEF NoHit, Hit, StatementsAccounted, Cached
<1>4. Cached = {cache[k].stmt : k \in 1..n}
  BY <1>1, Zenon DEF Cached
<1>5. e.sql = sql /\ e.stmt = s
  OBVIOUS
<1>6. CASE ~Full
  <2>1. /\ cache' \in Seq(Entry) /\ Len(cache') = n + 1
        /\ \A j \in 1..n : cache'[j] = cache[j]
        /\ cache'[n + 1] = e
    BY <1>1, <1>6, AddBack DEF Remember
  <2>2. n + 1 <= Capacity
    BY <1>1, <1>6, CapacityAssumption DEF Full
  <2>3. DOMAIN cache' = 1..(n + 1)
    BY <2>1
  <2> HIDE DEF n, e
  <2>4. CacheIsAMap'
    <3>1. ASSUME NEW j \in 1..(n + 1), NEW k \in 1..(n + 1), j # k
          PROVE  cache'[j].sql # cache'[k].sql /\ cache'[j].stmt # cache'[k].stmt
      <4>1. CASE j \in 1..n /\ k \in 1..n
        BY <1>2, <2>1, <3>1, <4>1
      <4>2. CASE j \in 1..n /\ k = n + 1
        BY <1>3, <1>5, <2>1, <4>2
      <4>3. CASE j = n + 1 /\ k \in 1..n
        BY <1>3, <1>5, <2>1, <4>3
      <4>4. QED
        BY <1>1, <3>1, <4>1, <4>2, <4>3
    <3>2. Len(cache') <= Capacity
      BY <2>1, <2>2
    <3>3. QED
      BY <2>3, <3>1, <3>2 DEF CacheIsAMap
  <2>5. Cached' = Cached \cup {s}
    <3>1. Cached' = {cache'[k].stmt : k \in 1..(n + 1)}
      BY <2>3, Zenon DEF Cached
    <3>2. 1..(n + 1) = 1..n \cup {n + 1}
      BY <1>1
    <3>3. QED
      BY <1>4, <1>5, <2>1, <3>1, <3>2
  <2>6. QED
    BY <1>6, <2>4, <2>5 DEF Victims
<1>7. CASE Full
  <2>1. n >= 1
    BY <1>1, <1>7, CapacityAssumption DEF Full
  <2>2. /\ cache' \in Seq(Entry) /\ Len(cache') = n
        /\ \A j \in 1..(n - 1) : cache'[j] = cache[j + 1]
        /\ cache'[n] = e
    <3>1. cache' = Replaced(cache, e)
      BY <1>7 DEF Remember, Replaced
    <3>2. Replaced(cache, e) \in Seq(Entry) /\ Len(Replaced(cache, e)) = n
      BY <1>1, <2>1, EvictAndAdd
    <3>3. \A j \in 1..(n - 1) : Replaced(cache, e)[j] = cache[j + 1]
      BY <1>1, <2>1, EvictAndAdd
    <3>4. Replaced(cache, e)[n] = e
      BY <1>1, <2>1, EvictAndAdd
    <3> HIDE DEF n, e
    <3>5. QED
      BY <3>1, <3>2, <3>3, <3>4
  <2>3. DOMAIN cache' = 1..n
    BY <2>2
  <2> HIDE DEF n, e
  <2>4. CacheIsAMap'
    <3>1. ASSUME NEW j \in 1..n, NEW k \in 1..n, j # k
          PROVE  cache'[j].sql # cache'[k].sql /\ cache'[j].stmt # cache'[k].stmt
      <4>1. CASE j \in 1..(n - 1) /\ k \in 1..(n - 1)
        BY <1>1, <1>2, <2>2, <3>1, <4>1
      <4>2. CASE j \in 1..(n - 1) /\ k = n
        BY <1>1, <1>3, <1>5, <2>2, <4>2
      <4>3. CASE j = n /\ k \in 1..(n - 1)
        BY <1>1, <1>3, <1>5, <2>2, <4>3
      <4>4. QED
        BY <1>1, <3>1, <4>1, <4>2, <4>3
    <3>2. Len(cache') <= Capacity
      BY <1>2, <2>2
    <3>3. QED
      BY <2>3, <3>1, <3>2 DEF CacheIsAMap
  <2>5. Cached' = (Cached \ {cache[1].stmt}) \cup {s}
    <3>1. Cached' = {cache'[k].stmt : k \in 1..n}
      BY <2>3, Zenon DEF Cached
    <3>2. ASSUME NEW j \in 1..n
          PROVE  cache'[j].stmt \in (Cached \ {cache[1].stmt}) \cup {s}
      <4>1. CASE j = n
        BY <1>5, <2>2, <4>1
      <4>2. CASE j \in 1..(n - 1)
        <5>1. j + 1 \in 1..n /\ 1 \in 1..n /\ j + 1 # 1
          BY <1>1, <2>1, <4>2
        <5>2. cache[j + 1].stmt # cache[1].stmt /\ cache[j + 1].stmt \in Cached
          BY <1>2, <1>4, <5>1
        <5>3. QED
          BY <2>2, <4>2, <5>2
      <4>3. QED
        BY <1>1, <4>1, <4>2
    <3>3. ASSUME NEW k \in 1..n, k # 1 PROVE cache[k].stmt \in Cached'
      <4>1. k - 1 \in 1..(n - 1) /\ k - 1 \in 1..n /\ (k - 1) + 1 = k
        BY <1>1, <3>3
      <4>2. cache'[k - 1] = cache[k]
        BY <2>2, <4>1
      <4>3. QED
        BY <3>1, <4>1, <4>2
    <3>4. s \in Cached'
      <4>1. n \in 1..n /\ cache'[n].stmt = s
        BY <1>1, <1>5, <2>1, <2>2
      <4>2. QED
        BY <3>1, <4>1
    <3>5. QED
      BY <1>4, <3>1, <3>2, <3>3, <3>4
  <2>6. QED
    BY <1>7, <2>4, <2>5 DEF Victims
<1>8. QED
  BY <1>6, <1>7

CacheInv == TypeOK /\ CacheIsAMap /\ StatementsAccounted /\ CacheOfThisSession

LEMMA CacheInvInit == Init => CacheInv
<1> SUFFICES ASSUME Init PROVE CacheInv
  OBVIOUS
<1>1. cache = <<>> /\ DOMAIN cache = {} /\ Len(cache) = 0
  BY DEF Init
<1>2. Cached = {}
  BY <1>1 DEF Cached
<1>3. open = {}
  BY DEF Init
<1>4. CacheIsAMap
  BY <1>1, CapacityAssumption DEF CacheIsAMap
<1>5. QED
  BY <1>2, <1>3, <1>4, InitTypeOK DEF CacheInv, StatementsAccounted, CacheOfThisSession

\* ClearCache leaves an empty cache and, if the open handles were the cached
\* ones, no open handle.
LEMMA ClearCacheKeeps ==
  ASSUME CacheInv, ClearCache
  PROVE  CacheIsAMap' /\ StatementsAccounted' /\ CacheOfThisSession'
<1>1. cache' = <<>> /\ DOMAIN cache' = {} /\ Len(cache') = 0
  BY DEF ClearCache
<1>2. Cached' = {}
  BY <1>1 DEF Cached
<1>3. open' = {}
  BY DEF CacheInv, StatementsAccounted, ClearCache, CloseStmts
<1>4. CacheIsAMap'
  BY <1>1, CapacityAssumption DEF CacheIsAMap
<1>5. QED
  BY <1>2, <1>3, <1>4 DEF StatementsAccounted, CacheOfThisSession

\* A step that leaves the cache alone gives no connection a live session,
\* unless it clears the cache, and takes no statement from a live session.
LEMMA SessionSteps ==
  ASSUME TypeOK, Next, UNCHANGED <<cache, open>>
  PROVE  ClearCache \/ (connected' /\ link' = "up" =>
                          connected /\ link = "up" /\ known' = known)
<1>1. CASE GetHits \/ GetPrepares \/ GetThrows
  BY <1>1 DEF GetHits, GetPrepares, GetThrows, Remember, clientVars, serverVars
<1>2. CASE Connect
  BY <1>2 DEF Connect, ForgetStmts
<1>3. CASE Close \/ RecoverSucceeds \/ RecoverThrows
  BY <1>3 DEF Close, RecoverSucceeds, RecoverThrows
<1>4. CASE SessionEnds \/ PingThrows \/ TextThrows \/ AttemptThrows
  BY <1>4 DEF SessionEnds, Lost, PingThrows, TextThrows, AttemptThrows,
              clientVars, serverVars
<1>5. CASE ResetSucceeds \/ ResetFails \/ RunSucceeds \/ RunFails \/ RunLosesAnswer
  BY <1>5 DEF ResetSucceeds, ResetFails, RunSucceeds, RunFails, RunLosesAnswer, Lost,
              clientVars, serverVars
<1>6. CASE StoreSucceeds \/ StoreFails \/ ReprepareSucceeds \/ ReprepareThrows
  BY <1>6 DEF StoreSucceeds, StoreFails, ReprepareSucceeds, ReprepareThrows,
              clientVars, serverVars
<1>7. CASE \/ \E begins \in BOOLEAN : Transact(begins)
           \/ \E text \in Sql, rows \in BOOLEAN : Call(text, rows)
           \/ \E r \in Result : DropResult(r)
  BY <1>7 DEF Transact, Call, DropResult, clientVars, serverVars
<1>8. QED
  BY <1>1, <1>2, <1>3, <1>4, <1>5, <1>6, <1>7, Zenon
     DEF Next, InCall, Get, Attempt, Recovery

LEMMA CacheInvKept == CacheInv /\ [Next]_vars => CacheInv'
<1> SUFFICES ASSUME CacheInv, [Next]_vars PROVE CacheInv'
  OBVIOUS
<1>1. TypeOK'
  BY TypeKept DEF CacheInv
<1>2. SUFFICES CacheIsAMap' /\ StatementsAccounted' /\ CacheOfThisSession'
  BY <1>1 DEF CacheInv
<1>3. CASE ClearCache
  BY <1>3, ClearCacheKeeps
<1>4. CASE Next /\ UNCHANGED <<cache, open>>
  <2>1. CacheIsAMap' /\ Cached' = Cached
    BY <1>4 DEF CacheInv, CacheIsAMap, Cached
  <2>2. StatementsAccounted'
    BY <1>4, <2>1 DEF CacheInv, StatementsAccounted
  <2>3. CacheOfThisSession' \/ ClearCache
    BY <1>4, <2>1, SessionSteps DEF CacheInv, CacheOfThisSession
  <2>4. QED
    BY <1>3, <2>1, <2>2, <2>3
<1>5. CASE /\ pc = "get" /\ connected /\ link = "up" /\ link' = link
           /\ NoHit /\ \E s \in Stmt \ open : Remember(s)
  <2>1. PICK s \in Stmt \ open : Remember(s)
    BY <1>5
  <2>2. CacheIsAMap' /\ Cached' = (Cached \ Victims) \cup {s}
    BY <1>5, <2>1, RememberKeepsMap DEF CacheInv
  <2>3. /\ open' = (open \ Victims) \cup {s}
        /\ known' = (known \ Victims) \cup {s}
    BY <2>1 DEF Remember
  <2>4. QED
    BY <1>5, <2>2, <2>3 DEF CacheInv, StatementsAccounted, CacheOfThisSession
<1>6. CASE /\ UNCHANGED <<open, known, link, connected>>
           /\ \E i \in DOMAIN cache : Hit(i) /\ cache' = Append(Without(i), cache[i])
  <2>1. CacheIsAMap' /\ Cached' = Cached
    BY <1>6, HitKeepsMap DEF CacheInv
  <2>2. QED
    BY <1>6, <2>1 DEF CacheInv, StatementsAccounted, CacheOfThisSession
<1>7. CASE UNCHANGED vars
  <2>1. Cached' = Cached /\ CacheIsAMap'
    BY <1>7 DEF vars, clientVars, Cached, CacheInv, CacheIsAMap
  <2>2. QED
    BY <1>7, <2>1
       DEF vars, clientVars, serverVars, CacheInv, StatementsAccounted, CacheOfThisSession
<1>8. CASE Next
  BY <1>3, <1>4, <1>5, <1>6, <1>8, CacheSteps DEF CacheInv
<1>9. QED
  BY <1>7, <1>8

LEMMA CacheInvAlways == Spec => []CacheInv
  BY CacheInvInit, CacheInvKept, PTL DEF Spec

\* get_or_prepare_stmt() keeps the cache a map from texts to handles with at
\* most stmt_cache_capacity entries, whatever the capacity.
THEOREM CacheAlwaysAMap == Spec => []CacheIsAMap
<1>1. CacheInv => CacheIsAMap
  BY DEF CacheInv
<1>2. QED
  BY <1>1, CacheInvAlways, PTL

\* No MYSQL_STMT is leaked by eviction, recovery, close() or an exception, and
\* none that has been closed stays in the cache.
THEOREM NoStatementLeaks == Spec => []StatementsAccounted
<1>1. CacheInv => StatementsAccounted
  BY DEF CacheInv
<1>2. QED
  BY <1>1, CacheInvAlways, PTL

\* A reconnected session never meets a statement prepared in an earlier one.
THEOREM CacheNeverStale == Spec => []CacheOfThisSession
<1>1. CacheInv => CacheOfThisSession
  BY DEF CacheInv
<1>2. QED
  BY <1>1, CacheInvAlways, PTL

-----------------------------------------------------------------------------
(* The loop that retries                                                   *)

\* How often each attempt may have made the statement take effect when the call
\* is at a step: an attempt runs it once, before it stores its rows, and the
\* second attempt is the last.
EffectsByStep ==
    /\ effects.first <= 1
    /\ pc = "idle" => ~retried /\ effects.retry <= 1
    /\ pc \in {"get", "reset", "run"} =>
          effects.retry = 0 /\ (~retried => effects.first = 0)
    /\ pc = "store" => IF retried THEN effects.retry = 1
                       ELSE effects.first = 1 /\ effects.retry = 0
    /\ pc \in {"recover", "reprepare"} => ~retried /\ effects.retry = 0

LEMMA EffectsKept == TypeOK /\ EffectsByStep /\ [Next]_vars => EffectsByStep'
<1> SUFFICES ASSUME TypeOK, EffectsByStep, [Next]_vars PROVE EffectsByStep'
  OBVIOUS
<1>0. pc \in PC /\ effects \in [first : Nat, retry : Nat] /\ retried \in BOOLEAN /\ EffectsByStep
  BY TypeParts DEF CallTyped, FlagsTyped
<1>1. CASE SessionEnds \/ PingThrows \/ TextThrows
  BY <1>0, <1>1 DEF SessionEnds, PingThrows, TextThrows, callVars, histVars, EffectsByStep, PC
<1>2. CASE Connect \/ Close
  BY <1>0, <1>2 DEF Connect, Close, callVars, histVars, EffectsByStep, PC
<1>3. CASE \E begins \in BOOLEAN : Transact(begins)
  BY <1>0, <1>3 DEF Transact, callVars, EffectsByStep, PC
<1>4. CASE \E text \in Sql, rows \in BOOLEAN : Call(text, rows)
  BY <1>0, <1>4 DEF Call, NoEffect, EffectsByStep, PC
<1>5. CASE \E r \in Result : DropResult(r)
  BY <1>0, <1>5 DEF DropResult, callVars, histVars, EffectsByStep, PC
<1>6. CASE GetHits
  BY <1>0, <1>6 DEF GetHits, histVars, EffectsByStep, PC
<1>7. CASE GetPrepares
  BY <1>0, <1>7 DEF GetPrepares, histVars, EffectsByStep, PC
<1>8. CASE GetThrows \/ AttemptThrows
  BY <1>0, <1>8 DEF GetThrows, AttemptThrows, End, EffectsByStep, PC
<1>9. CASE ResetSucceeds \/ ResetFails
  BY <1>0, <1>9 DEF ResetSucceeds, ResetFails, Fail, End, Goto, EffectsByStep, PC
<1>10. CASE RunSucceeds
  BY <1>0, <1>10 DEF RunSucceeds, TakesEffect, End, Goto, EffectsByStep, PC
<1>11. CASE RunFails
  BY <1>0, <1>11 DEF RunFails, Fail, End, Goto, EffectsByStep, PC
<1>12. CASE RunLosesAnswer
  BY <1>0, <1>12 DEF RunLosesAnswer, TakesEffect, Fail, End, Goto, EffectsByStep, PC
<1>13. CASE StoreSucceeds \/ StoreFails
  BY <1>0, <1>13 DEF StoreSucceeds, StoreFails, Fail, End, Goto, EffectsByStep, PC
<1>14. CASE RecoverSucceeds \/ RecoverThrows
  BY <1>0, <1>14 DEF RecoverSucceeds, RecoverThrows, End, Goto, EffectsByStep, PC
<1>15. CASE ReprepareSucceeds \/ ReprepareThrows
  BY <1>0, <1>15 DEF ReprepareSucceeds, ReprepareThrows, GoRound, End, EffectsByStep, PC
<1>16. CASE UNCHANGED vars
  BY <1>0, <1>16 DEF vars, callVars, histVars, EffectsByStep, PC
<1>17. QED
  BY <1>1, <1>2, <1>3, <1>4, <1>5, <1>6, <1>7, <1>8, <1>9, <1>10, <1>11, <1>12,
     <1>13, <1>14, <1>15, <1>16, Zenon
     DEF Next, InCall, Get, Attempt, Recovery

\* Neither attempt of a call makes its statement take effect twice, and the second
\* not before a recovery, whatever the server does.
THEOREM AtMostOneRetry == Spec => []RetriedOnce
<1>1. Init => EffectsByStep
  BY DEF Init, NoEffect, EffectsByStep
<1>2. TypeOK /\ EffectsByStep => RetriedOnce
  <2> SUFFICES ASSUME TypeOK, EffectsByStep PROVE RetriedOnce
    OBVIOUS
  <2>1. pc \in PC /\ effects \in [first : Nat, retry : Nat] /\ retried \in BOOLEAN
    BY TypeParts DEF CallTyped, FlagsTyped
  <2>2. QED
    BY <2>1 DEF EffectsByStep, RetriedOnce, PC
<1>3. QED
  BY <1>1, <1>2, TypeCorrect, EffectsKept, PTL DEF Spec

\* From the moment get_or_prepare_stmt() returns, the call's handle is that of
\* the last entry of the cache.
InHand ==
    pc \in {"reset", "run", "store"} =>
        cache # <<>> /\ cache[Len(cache)] = [sql |-> sql, stmt |-> stmt]

LEMMA GetGivesLast ==
  ASSUME TypeOK, GetHits \/ GetPrepares
  PROVE  cache' # <<>> /\ cache'[Len(cache')] = [sql |-> sql', stmt |-> stmt']
<1>1. cache \in Seq(Entry) /\ Len(cache) \in Nat /\ sql' = sql
  BY DEF TypeOK, Entry, GetHits, GetPrepares
<1>2. CASE GetHits
  <2>1. PICK i \in DOMAIN cache :
           /\ Hit(i) /\ stmt' = cache[i].stmt
           /\ cache' = Append(Without(i), cache[i])
    BY <1>2 DEF GetHits
  <2>2. i \in 1..Len(cache) /\ cache[i] \in Entry
    BY <1>1
  <2>3. cache' = MovedToBack(cache, i)
    BY <2>1 DEF MovedToBack, TakenOut, Without
  <2>4. /\ MovedToBack(cache, i) \in Seq(Entry)
        /\ Len(MovedToBack(cache, i)) = Len(cache)
    BY <1>1, <2>2, MoveToBack
  <2>5. MovedToBack(cache, i)[Len(cache)] = cache[From(i, Len(cache), Len(cache))]
    BY <1>1, <2>2, MoveToBack
  <2>6. From(i, Len(cache), Len(cache)) = i
    BY <1>1, <2>2 DEF From
  <2>7. cache[i] = [sql |-> sql, stmt |-> stmt']
    BY <2>1, <2>2 DEF Hit, Entry
  <2>8. QED
    BY <1>1, <2>2, <2>3, <2>4, <2>5, <2>6, <2>7
<1>3. CASE GetPrepares
  <2>1. PICK s \in Stmt : Remember(s) /\ stmt' = s
    BY <1>3 DEF GetPrepares
  <2> DEFINE e == [sql |-> sql, stmt |-> s]
  <2>2. e \in Entry
    BY <1>3 DEF TypeOK, Entry, GetPrepares
  <2>3. CASE Full
    <3>1. Len(cache) >= 1
      BY <1>1, <2>3, CapacityAssumption DEF Full
    <3>2. cache' = Replaced(cache, e)
      BY <2>1, <2>3 DEF Remember, Replaced
    <3>3. Len(Replaced(cache, e)) = Len(cache)
      BY <1>1, <2>2, <3>1, EvictAndAdd
    <3>4. Replaced(cache, e)[Len(cache)] = e
      BY <1>1, <2>2, <3>1, EvictAndAdd
    <3>5. QED
      BY <1>1, <2>1, <3>1, <3>2, <3>3, <3>4
  <2>4. CASE ~Full
    <3>1. cache' = Append(cache, e)
      BY <2>1, <2>4 DEF Remember
    <3>2. Len(cache') = Len(cache) + 1 /\ cache'[Len(cache) + 1] = e
      BY <1>1, <2>2, <3>1, AddBack
    <3>3. QED
      BY <1>1, <2>1, <3>2
  <2>5. QED
    BY <2>3, <2>4
<1>4. QED
  BY <1>2, <1>3

LEMMA InHandKept == TypeOK /\ InHand /\ [Next]_vars => InHand'
<1> SUFFICES ASSUME TypeOK, InHand, [Next]_vars PROVE InHand'
  OBVIOUS
<1>0. pc \in PC /\ effects \in [first : Nat, retry : Nat] /\ InHand
  BY TypeParts DEF CallTyped
<1>1. CASE SessionEnds \/ PingThrows \/ TextThrows
  BY <1>0, <1>1 DEF SessionEnds, PingThrows, TextThrows, clientVars, userVars, callVars, histVars, InHand, PC
<1>2. CASE Connect \/ Close
  BY <1>0, <1>2 DEF Connect, Close, callVars, histVars, InHand, PC
<1>3. CASE \E begins \in BOOLEAN : Transact(begins)
  BY <1>0, <1>3 DEF Transact, clientVars, callVars, InHand, PC
<1>4. CASE \E text \in Sql, rows \in BOOLEAN : Call(text, rows)
  BY <1>0, <1>4 DEF Call, clientVars, InHand, PC
<1>5. CASE \E r \in Result : DropResult(r)
  BY <1>0, <1>5 DEF DropResult, clientVars, callVars, histVars, InHand, PC
<1>6. CASE GetHits
  BY <1>6, GetGivesLast DEF GetHits, InHand
<1>7. CASE GetPrepares
  BY <1>7, GetGivesLast DEF GetPrepares, InHand
<1>8. CASE GetThrows \/ AttemptThrows
  BY <1>0, <1>8 DEF GetThrows, AttemptThrows, End, clientVars, InHand, PC
<1>9. CASE ResetSucceeds \/ ResetFails
  BY <1>0, <1>9 DEF ResetSucceeds, ResetFails, Fail, End, Goto, clientVars, InHand, PC
<1>10. CASE RunSucceeds
  BY <1>0, <1>10 DEF RunSucceeds, TakesEffect, End, Goto, clientVars, InHand, PC
<1>11. CASE RunFails
  BY <1>0, <1>11 DEF RunFails, Fail, End, Goto, clientVars, InHand, PC
<1>12. CASE RunLosesAnswer
  BY <1>0, <1>12 DEF RunLosesAnswer, TakesEffect, Fail, End, Goto, clientVars, InHand, PC
<1>13. CASE StoreSucceeds \/ StoreFails
  BY <1>0, <1>13 DEF StoreSucceeds, StoreFails, Fail, End, Goto, clientVars, InHand, PC
<1>14. CASE RecoverSucceeds \/ RecoverThrows
  BY <1>0, <1>14 DEF RecoverSucceeds, RecoverThrows, End, Goto, InHand, PC
<1>15. CASE ReprepareSucceeds \/ ReprepareThrows
  BY <1>0, <1>15 DEF ReprepareSucceeds, ReprepareThrows, GoRound, End, clientVars, InHand, PC
<1>16. CASE UNCHANGED vars
  BY <1>0, <1>16 DEF vars, clientVars, callVars, histVars, InHand, PC
<1>17. QED
  BY <1>1, <1>2, <1>3, <1>4, <1>5, <1>6, <1>7, <1>8, <1>9, <1>10, <1>11, <1>12,
     <1>13, <1>14, <1>15, <1>16, Zenon
     DEF Next, InCall, Get, Attempt, Recovery

LEMMA SuccessStep ==
  ASSUME TypeOK, InHand, EffectsByStep, [Next]_vars,
         pc # "idle", pc' = "idle", outcome' = "ok"
  PROVE  /\ IF retried THEN effects'.retry = 1 ELSE effects'.first = 1
         /\ cache' # <<>> /\ cache'[Len(cache')] = [sql |-> sql, stmt |-> stmt]
<1>1. effects \in [first : Nat, retry : Nat]
  BY DEF TypeOK
<1>2. CASE RunSucceeds
  BY <1>1, <1>2 DEF RunSucceeds, TakesEffect, EffectsByStep, InHand, clientVars
<1>3. CASE StoreSucceeds
  BY <1>1, <1>3 DEF StoreSucceeds, EffectsByStep, InHand, clientVars
<1>4. RunSucceeds \/ StoreSucceeds
  <2>1. ~(\/ SessionEnds \/ Connect \/ Close \/ PingThrows \/ TextThrows
          \/ UNCHANGED vars
          \/ \E begins \in BOOLEAN : Transact(begins)
          \/ \E text \in Sql, rows \in BOOLEAN : Call(text, rows)
          \/ \E r \in Result : DropResult(r))
    BY DEF SessionEnds, Connect, Close, PingThrows, TextThrows, Transact, Call,
           DropResult, callVars, vars
  <2>2. ~(GetHits \/ GetPrepares \/ GetThrows \/ AttemptThrows
          \/ ResetSucceeds \/ ResetFails \/ RunFails \/ RunLosesAnswer \/ StoreFails)
    BY DEF GetHits, GetPrepares, GetThrows, AttemptThrows, ResetSucceeds, ResetFails,
           RunFails, RunLosesAnswer, StoreFails, Fail, End, Goto
  <2>3. ~(RecoverSucceeds \/ RecoverThrows \/ ReprepareSucceeds \/ ReprepareThrows)
    BY DEF RecoverSucceeds, RecoverThrows, ReprepareSucceeds, ReprepareThrows,
           GoRound, End, Goto
  <2>4. QED
    BY <2>1, <2>2, <2>3, Zenon DEF Next, InCall, Get, Attempt, Recovery
<1>5. QED
  BY <1>2, <1>3, <1>4

\* A call that returns normally has run its statement in the attempt that returned,
\* once, and left it the one to be evicted last, through any number of lost
\* sessions.
THEOREM SuccessAlwaysReal == Spec => SuccessIsReal
<1>1. Init => InHand /\ EffectsByStep
  BY DEF Init, NoEffect, InHand, EffectsByStep
<1>2. TypeOK /\ InHand /\ EffectsByStep /\ [Next]_vars =>
        [pc # "idle" /\ pc' = "idle" /\ outcome' = "ok"
           => /\ IF retried THEN effects'.retry = 1 ELSE effects'.first = 1
              /\ cache' # <<>> /\ cache'[Len(cache')] = [sql |-> sql, stmt |-> stmt]]_vars
  BY SuccessStep
<1>3. QED
  BY <1>1, <1>2, TypeCorrect, InHandKept, EffectsKept, PTL DEF Spec, SuccessIsReal

-----------------------------------------------------------------------------
(* The user's transaction                                                  *)

\* Where the object, the session and the user stand to one another.  A server
\* that has no transaction open while the user is inside one has lost it: the
\* session is down still, or a recovery of the call in progress has made a new
\* one.
SessionInv ==
    /\ pc # "idle" \/ userTxn => connected
    /\ ~connected => link = "down"
    /\ link = "down" => known = {}
    /\ known \subseteq open
TxnInv ==
    userTxn /\ ~serverTxn =>
        \/ link = "down" \/ escaped \/ pc = "reprepare"
        \/ retried /\ pc \in {"get", "reset", "run"}

LEMMA ClearCacheForgets ==
  ASSUME CacheInv, SessionInv, ClearCache
  PROVE  known' = {} /\ open' = {}
  BY DEF CacheInv, StatementsAccounted, SessionInv, ClearCache, CloseStmts

LEMMA SessionInvKept == CacheInv /\ SessionInv /\ [Next]_vars => SessionInv'
<1> SUFFICES ASSUME CacheInv, SessionInv, [Next]_vars PROVE SessionInv'
  OBVIOUS
<1>0. pc \in PC /\ SessionInv
  BY DEF CacheInv, TypeOK
<1>1. CASE SessionEnds \/ TextThrows
  BY <1>0, <1>1 DEF SessionEnds, Lost, TextThrows, clientVars, serverVars, userVars, callVars, histVars, SessionInv, PC
<1>2. CASE Connect
  BY <1>0, <1>2, ClearCacheForgets DEF Connect, ForgetStmts, userVars, callVars, SessionInv, PC
<1>3. CASE Close
  BY <1>0, <1>3, ClearCacheForgets DEF Close, FreeHandle, callVars, histVars, SessionInv, PC
<1>4. CASE PingThrows
  BY <1>0, <1>4 DEF PingThrows, serverVars, callVars, SessionInv, PC
<1>5. CASE \E begins \in BOOLEAN : Transact(begins)
  BY <1>0, <1>5 DEF Transact, clientVars, callVars, SessionInv, PC
<1>6. CASE \E text \in Sql, rows \in BOOLEAN : Call(text, rows)
  BY <1>0, <1>6 DEF Call, clientVars, serverVars, userVars, SessionInv, PC
<1>7. CASE \E r \in Result : DropResult(r)
  BY <1>0, <1>7 DEF DropResult, clientVars, callVars, histVars, SessionInv, PC
<1>8. CASE GetHits
  BY <1>0, <1>8 DEF GetHits, serverVars, userVars, histVars, SessionInv, PC
<1>9. CASE GetPrepares
  BY <1>0, <1>9 DEF GetPrepares, Remember, userVars, histVars, SessionInv, PC
<1>10. CASE GetThrows \/ AttemptThrows
  BY <1>0, <1>10 DEF GetThrows, AttemptThrows, End, clientVars, serverVars, SessionInv, PC
<1>11. CASE ResetSucceeds \/ ResetFails
  BY <1>0, <1>11 DEF ResetSucceeds, ResetFails, Fail, End, Goto, clientVars, serverVars, SessionInv, PC
<1>12. CASE RunSucceeds
  BY <1>0, <1>12 DEF RunSucceeds, TakesEffect, End, Goto, clientVars, SessionInv, PC
<1>13. CASE RunFails
  BY <1>0, <1>13 DEF RunFails, Fail, End, Goto, clientVars, SessionInv, PC
<1>14. CASE RunLosesAnswer
  BY <1>0, <1>14 DEF RunLosesAnswer, TakesEffect, Lost, Fail, End, Goto, clientVars, SessionInv, PC
<1>15. CASE StoreSucceeds \/ StoreFails
  BY <1>0, <1>15 DEF StoreSucceeds, StoreFails, Fail, End, Goto, clientVars, serverVars, SessionInv, PC
<1>16. CASE RecoverSucceeds
  BY <1>0, <1>16, ClearCacheForgets DEF RecoverSucceeds, Goto, SessionInv, PC
<1>17. CASE RecoverThrows
  BY <1>0, <1>17, ClearCacheForgets DEF RecoverThrows, End, SessionInv, PC
<1>18. CASE ReprepareSucceeds \/ ReprepareThrows
  BY <1>0, <1>18 DEF ReprepareSucceeds, ReprepareThrows, GoRound, End, clientVars, serverVars, SessionInv, PC
<1>19. CASE UNCHANGED vars
  BY <1>0, <1>19 DEF vars, clientVars, serverVars, userVars, callVars, histVars, SessionInv, PC
<1>20. QED
  BY <1>1, <1>2, <1>3, <1>4, <1>5, <1>6, <1>7, <1>8, <1>9, <1>10, <1>11, <1>12, <1>13, <1>14, <1>15, <1>16, <1>17, <1>18, <1>19, Zenon
     DEF Next, InCall, Get, Attempt, Recovery

LEMMA TxnInvKept == CacheInv /\ SessionInv /\ TxnInv /\ [Next]_vars => TxnInv'
<1> SUFFICES ASSUME CacheInv, SessionInv, TxnInv, [Next]_vars PROVE TxnInv'
  OBVIOUS
<1>0. pc \in PC /\ SessionInv /\ TxnInv
  BY DEF CacheInv, TypeOK
<1>1. CASE SessionEnds \/ TextThrows
  BY <1>0, <1>1 DEF SessionEnds, Lost, TextThrows, clientVars, serverVars, userVars, callVars, histVars, SessionInv, TxnInv, PC
<1>2. CASE Connect
  BY <1>0, <1>2 DEF Connect, ForgetStmts, userVars, callVars, SessionInv, TxnInv, PC
<1>3. CASE Close
  BY <1>0, <1>3 DEF Close, FreeHandle, callVars, histVars, SessionInv, TxnInv, PC
<1>4. CASE PingThrows
  BY <1>0, <1>4 DEF PingThrows, serverVars, callVars, SessionInv, TxnInv, PC
<1>5. CASE \E begins \in BOOLEAN : Transact(begins)
  BY <1>0, <1>5 DEF Transact, clientVars, callVars, SessionInv, TxnInv, PC
<1>6. CASE \E text \in Sql, rows \in BOOLEAN : Call(text, rows)
  BY <1>0, <1>6 DEF Call, clientVars, serverVars, userVars, SessionInv, TxnInv, PC
<1>7. CASE \E r \in Result : DropResult(r)
  BY <1>0, <1>7 DEF DropResult, clientVars, callVars, histVars, SessionInv, TxnInv, PC
<1>8. CASE GetHits
  BY <1>0, <1>8 DEF GetHits, serverVars, userVars, histVars, SessionInv, TxnInv, PC
<1>9. CASE GetPrepares
  BY <1>0, <1>9 DEF GetPrepares, Remember, userVars, histVars, SessionInv, TxnInv, PC
<1>10. CASE GetThrows \/ AttemptThrows
  BY <1>0, <1>10 DEF GetThrows, AttemptThrows, End, clientVars, serverVars, SessionInv, TxnInv, PC
<1>11. CASE ResetSucceeds \/ ResetFails
  BY <1>0, <1>11 DEF ResetSucceeds, ResetFails, Fail, End, Goto, clientVars, serverVars, SessionInv, TxnInv, PC
<1>12. CASE RunSucceeds
  BY <1>0, <1>12 DEF RunSucceeds, TakesEffect, End, Goto, clientVars, SessionInv, TxnInv, PC
<1>13. CASE RunFails
  BY <1>0, <1>13 DEF RunFails, Fail, End, Goto, clientVars, SessionInv, TxnInv, PC
<1>14. CASE RunLosesAnswer
  BY <1>0, <1>14 DEF RunLosesAnswer, TakesEffect, Lost, Fail, End, Goto, clientVars, SessionInv, TxnInv, PC
<1>15. CASE StoreSucceeds \/ StoreFails
  BY <1>0, <1>15 DEF StoreSucceeds, StoreFails, Fail, End, Goto, clientVars, serverVars, SessionInv, TxnInv, PC
<1>16. CASE RecoverSucceeds
  BY <1>0, <1>16 DEF RecoverSucceeds, Goto, SessionInv, TxnInv, PC
<1>17. CASE RecoverThrows
  BY <1>0, <1>17 DEF RecoverThrows, End, SessionInv, TxnInv, PC
<1>18. CASE ReprepareSucceeds \/ ReprepareThrows
  BY <1>0, <1>18 DEF ReprepareSucceeds, ReprepareThrows, GoRound, End, clientVars, serverVars, SessionInv, TxnInv, PC
<1>19. CASE UNCHANGED vars
  BY <1>0, <1>19 DEF vars, clientVars, serverVars, userVars, callVars, histVars, SessionInv, TxnInv, PC
<1>20. QED
  BY <1>1, <1>2, <1>3, <1>4, <1>5, <1>6, <1>7, <1>8, <1>9, <1>10, <1>11, <1>12, <1>13, <1>14, <1>15, <1>16, <1>17, <1>18, <1>19, Zenon
     DEF Next, InCall, Get, Attempt, Recovery

\* A server that executes the statement has a session, so that by TxnInv it has the
\* user's transaction open, too, unless this is a retry or one has escaped before.
LEMMA EscapeStep ==
  ASSUME TypeOK, SessionInv, TxnInv, [Next]_vars, HasEffect, userTxn, ~serverTxn
  PROVE  retried \/ escaped
<1>0. effects \in [first : Nat, retry : Nat]
  BY DEF TypeOK
<1>1. CASE RunSucceeds \/ RunLosesAnswer
  <2>1. pc = "run" /\ stmt \in known
    BY <1>1 DEF RunSucceeds, RunLosesAnswer
  <2>2. link # "down"
    BY <2>1 DEF SessionInv
  <2>3. QED
    BY <2>1, <2>2 DEF TxnInv
<1>2. RunSucceeds \/ RunLosesAnswer
  <2>0. effects' # effects /\ effects' # NoEffect
    BY <1>0 DEF HasEffect, NoEffect
  <2>1. ~(\/ SessionEnds \/ Connect \/ Close \/ PingThrows \/ TextThrows
          \/ UNCHANGED vars
          \/ \E begins \in BOOLEAN : Transact(begins)
          \/ \E text \in Sql, rows \in BOOLEAN : Call(text, rows)
          \/ \E r \in Result : DropResult(r))
    BY <2>0, Zenon DEF SessionEnds, Connect, Close, PingThrows, TextThrows, Transact,
       Call, DropResult, histVars, vars
  <2>2. ~(GetHits \/ GetPrepares \/ GetThrows \/ AttemptThrows
          \/ ResetSucceeds \/ ResetFails \/ RunFails \/ StoreSucceeds \/ StoreFails)
    BY <1>0 DEF GetHits, GetPrepares, GetThrows, AttemptThrows, ResetSucceeds,
                ResetFails, RunFails, StoreSucceeds, StoreFails, HasEffect, histVars
  <2>3. ~(RecoverSucceeds \/ RecoverThrows \/ ReprepareSucceeds \/ ReprepareThrows)
    BY <1>0 DEF RecoverSucceeds, RecoverThrows, ReprepareSucceeds, ReprepareThrows,
                HasEffect
  <2>4. QED
    BY <2>1, <2>2, <2>3, Zenon DEF Next, InCall, Get, Attempt, Recovery
<1>3. QED
  BY <1>1, <1>2

\* A retry is the only way out of a transaction: until a retry in it has escaped,
\* every first attempt that takes effect takes effect in the transaction the user
\* is in, whatever has happened to the session, to the object and to the cache.
THEOREM FirstAttemptsStayInside == Spec => OnlyRetryEscapes
<1>1. Init => SessionInv /\ TxnInv
  BY DEF Init, SessionInv, TxnInv
<1>2. TypeOK /\ SessionInv /\ TxnInv /\ [Next]_vars =>
        [HasEffect /\ userTxn /\ ~serverTxn => retried \/ escaped]_vars
  BY EscapeStep
<1>3. QED
  BY <1>1, <1>2, TypeCorrect, CacheInvAlways, SessionInvKept, TxnInvKept, PTL DEF Spec, OnlyRetryEscapes
=============================================================================
