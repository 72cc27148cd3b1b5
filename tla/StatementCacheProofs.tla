------------------------ MODULE StatementCacheProofs ------------------------
(***************************************************************************)
(* The deque of get_or_prepare_stmt() is the cache of StatementCache, for  *)
(* any number of statements, any capacity and any behaviour of the server. *)
(*                                                                         *)
(* What the abstract cache sees of a deque c are its texts, the handle of  *)
(* each, and which text is behind which.  The lemmas say how these change  *)
(* when an entry is taken out or put at the back; a hit and an eviction    *)
(* are one of each.                                                        *)
(***************************************************************************)
EXTENDS PreparedConnectionProofs, FiniteSetTheorems

TextsOf(c) == {c[i].sql : i \in DOMAIN c}
HandleIn(c, text) == c[CHOOSE i \in DOMAIN c : c[i].sql = text].stmt
HandlesOf(c) == [text \in TextsOf(c) |-> HandleIn(c, text)]
LaterIn(c) ==
    {p \in TextsOf(c) \X TextsOf(c) :
        \E i, j \in DOMAIN c : i < j /\ p = <<c[j].sql, c[i].sql>>}

\* No text twice.
Distinct(c) == \A i, j \in DOMAIN c : i # j => c[i].sql # c[j].sql

LEMMA HandleAt ==
  ASSUME NEW c, Distinct(c), NEW i \in DOMAIN c
  PROVE  c[i].sql \in TextsOf(c) /\ HandlesOf(c)[c[i].sql] = c[i].stmt
<1>1. c[i].sql \in TextsOf(c)
  BY DEF TextsOf
<1>2. \E j \in DOMAIN c : c[j].sql = c[i].sql
  OBVIOUS
<1> DEFINE m == CHOOSE j \in DOMAIN c : c[j].sql = c[i].sql
<1>3. m \in DOMAIN c /\ c[m].sql = c[i].sql
  BY <1>2
<1>4. m = i
  BY <1>3 DEF Distinct
<1>5. HandleIn(c, c[i].sql) = c[i].stmt
  BY <1>4 DEF HandleIn
<1>6. QED
  BY <1>1, <1>5 DEF HandlesOf

LEMMA LaterAt ==
  ASSUME NEW c, Distinct(c), DOMAIN c \subseteq Nat, NEW i \in DOMAIN c, NEW j \in DOMAIN c
  PROVE  <<c[j].sql, c[i].sql>> \in LaterIn(c) <=> i < j
<1>1. ASSUME i < j PROVE <<c[j].sql, c[i].sql>> \in LaterIn(c)
  BY <1>1 DEF LaterIn, TextsOf
<1>2. ASSUME <<c[j].sql, c[i].sql>> \in LaterIn(c) PROVE i < j
  <2>1. PICK a, b \in DOMAIN c : a < b /\ <<c[j].sql, c[i].sql>> = <<c[b].sql, c[a].sql>>
    BY <1>2 DEF LaterIn
  <2>2. c[j].sql = c[b].sql /\ c[i].sql = c[a].sql
    BY <2>1
  <2>3. j = b /\ i = a
    BY <2>2 DEF Distinct
  <2>4. QED
    BY <2>1, <2>3
<1>3. QED
  BY <1>1, <1>2

\* Pairs of texts of c are told apart by the places of the texts.
LEMMA SamePairs ==
  ASSUME NEW c, NEW X, NEW Y,
         X \subseteq TextsOf(c) \X TextsOf(c), Y \subseteq TextsOf(c) \X TextsOf(c),
         \A i, j \in DOMAIN c : <<c[j].sql, c[i].sql>> \in X <=> <<c[j].sql, c[i].sql>> \in Y
  PROVE  X = Y
<1>1. ASSUME NEW p \in TextsOf(c) \X TextsOf(c) PROVE p \in X <=> p \in Y
  <2>1. PICK i, j \in DOMAIN c : p = <<c[j].sql, c[i].sql>>
    BY <1>1 DEF TextsOf
  <2>2. QED
    BY <2>1
<1>2. QED
  BY <1>1

-----------------------------------------------------------------------------
(* One entry taken out                                                     *)

\* d is c without its i-th entry.
Dropped(c, d, n, i) ==
    /\ DOMAIN c = 1..n /\ DOMAIN d = 1..(n - 1)
    /\ \A j \in 1..(n - 1) : d[j] = IF j < i THEN c[j] ELSE c[j + 1]

LEMMA DropEntry ==
  ASSUME NEW n \in Nat, NEW i \in 1..n, NEW c, NEW d, Distinct(c), Dropped(c, d, n, i)
  PROVE  /\ Distinct(d)
         /\ TextsOf(d) = TextsOf(c) \ {c[i].sql}
         /\ \A text \in TextsOf(d) : HandlesOf(d)[text] = HandlesOf(c)[text]
         /\ LaterIn(d) = {p \in LaterIn(c) : p[1] \in TextsOf(d) /\ p[2] \in TextsOf(d)}
<1> DEFINE At(j) == IF j < i THEN j ELSE j + 1
<1>1. /\ DOMAIN c = 1..n /\ DOMAIN d = 1..(n - 1)
      /\ \A j \in 1..(n - 1) : d[j] = c[At(j)]
  BY DEF Dropped
<1>2. /\ \A j \in 1..(n - 1) : At(j) \in 1..n /\ At(j) # i
      /\ \A j, k \in 1..(n - 1) : (At(j) = At(k) <=> j = k) /\ (At(j) < At(k) <=> j < k)
  OBVIOUS
<1>3. ASSUME NEW m \in 1..n, m # i PROVE \E j \in 1..(n - 1) : At(j) = m
  <2>1. CASE m < i
    <3>1. m \in 1..(n - 1) /\ At(m) = m
      BY <2>1
    <3>2. QED
      BY <3>1
  <2>2. CASE m > i
    <3>1. m - 1 \in 1..(n - 1) /\ At(m - 1) = m
      BY <2>2
    <3>2. QED
      BY <3>1
  <2>3. QED
    BY <1>3, <2>1, <2>2
<1> HIDE DEF At
<1>4. Distinct(d)
  BY <1>1, <1>2 DEF Distinct
<1>5. TextsOf(d) = TextsOf(c) \ {c[i].sql}
  <2>1. ASSUME NEW j \in 1..(n - 1) PROVE d[j].sql \in TextsOf(c) \ {c[i].sql}
    <3>1. At(j) \in DOMAIN c /\ i \in DOMAIN c /\ At(j) # i
      BY <1>1, <1>2
    <3>2. c[At(j)].sql # c[i].sql
      BY <3>1 DEF Distinct
    <3>3. d[j] = c[At(j)]
      BY <1>1
    <3>4. QED
      BY <3>1, <3>2, <3>3 DEF TextsOf
  <2>2. ASSUME NEW m \in 1..n, c[m].sql # c[i].sql PROVE c[m].sql \in TextsOf(d)
    <3>1. PICK j \in 1..(n - 1) : At(j) = m
      BY <1>3, <2>2
    <3>2. QED
      BY <1>1, <3>1 DEF TextsOf
  <2>3. QED
    BY <1>1, <2>1, <2>2 DEF TextsOf
<1>6. ASSUME NEW text \in TextsOf(d) PROVE HandlesOf(d)[text] = HandlesOf(c)[text]
  <2>1. PICK j \in 1..(n - 1) : text = d[j].sql
    BY <1>1 DEF TextsOf
  <2>2. HandlesOf(d)[text] = d[j].stmt
    BY <1>1, <1>4, <2>1, HandleAt
  <2>3. HandlesOf(c)[c[At(j)].sql] = c[At(j)].stmt
    BY <1>1, <1>2, HandleAt
  <2>4. QED
    BY <1>1, <2>1, <2>2, <2>3
<1>7. LaterIn(d) = {p \in LaterIn(c) : p[1] \in TextsOf(d) /\ p[2] \in TextsOf(d)}
  <2> DEFINE Y == {p \in LaterIn(c) : p[1] \in TextsOf(d) /\ p[2] \in TextsOf(d)}
  <2>1. LaterIn(d) \subseteq TextsOf(d) \X TextsOf(d)
    BY DEF LaterIn
  <2>2. Y \subseteq TextsOf(d) \X TextsOf(d)
    BY DEF LaterIn
  <2>3. ASSUME NEW j \in 1..(n - 1), NEW k \in 1..(n - 1)
        PROVE  <<d[k].sql, d[j].sql>> \in LaterIn(d) <=> <<d[k].sql, d[j].sql>> \in Y
    <3>1. <<d[k].sql, d[j].sql>> \in LaterIn(d) <=> j < k
      <4>1. j \in DOMAIN d /\ k \in DOMAIN d /\ DOMAIN d \subseteq Nat
        BY <1>1
      <4>2. QED
        BY <1>4, <4>1, LaterAt
    <3>2. <<c[At(k)].sql, c[At(j)].sql>> \in LaterIn(c) <=> At(j) < At(k)
      <4>1. At(j) \in DOMAIN c /\ At(k) \in DOMAIN c /\ DOMAIN c \subseteq Nat
        BY <1>1, <1>2
      <4>2. QED
        BY <4>1, LaterAt
    <3>3. d[k] = c[At(k)] /\ d[j] = c[At(j)]
      BY <1>1
    <3>4. d[k].sql \in TextsOf(d) /\ d[j].sql \in TextsOf(d)
      BY <1>1 DEF TextsOf
    <3>5. QED
      BY <1>2, <3>1, <3>2, <3>3, <3>4
  <2> HIDE DEF Y
  <2>4. LaterIn(d) = Y
    <3>1. \A j, k \in DOMAIN d :
            <<d[k].sql, d[j].sql>> \in LaterIn(d) <=> <<d[k].sql, d[j].sql>> \in Y
      BY <1>1, <2>3, Zenon
    <3>2. QED
      BY <2>1, <2>2, <3>1, SamePairs, Zenon
  <2>5. QED
    BY <2>4 DEF Y
<1>8. QED
  BY <1>4, <1>5, <1>6, <1>7
-----------------------------------------------------------------------------
(* One entry at the back                                                   *)

\* d is c with e behind it.
Added(c, d, n, e) ==
    /\ DOMAIN c = 1..n /\ DOMAIN d = 1..(n + 1)
    /\ \A j \in 1..n : d[j] = c[j]
    /\ d[n + 1] = e

HandlesWith(c, e) == [text \in TextsOf(c) \cup {e.sql} |->
                        IF text = e.sql THEN e.stmt ELSE HandlesOf(c)[text]]
LaterWith(c, e) == LaterIn(c) \cup ({e.sql} \X TextsOf(c))

LEMMA AddEntry ==
  ASSUME NEW n \in Nat, NEW c, NEW d, NEW e, Distinct(c), Added(c, d, n, e),
         e.sql \notin TextsOf(c)
  PROVE  /\ Distinct(d)
         /\ TextsOf(d) = TextsOf(c) \cup {e.sql}
         /\ HandlesOf(d) = HandlesWith(c, e)
         /\ LaterIn(d) = LaterWith(c, e)
<1>1. /\ DOMAIN c = 1..n /\ DOMAIN d = 1..(n + 1)
      /\ \A j \in 1..n : d[j] = c[j]
      /\ d[n + 1] = e
  BY DEF Added
<1>2. /\ 1..(n + 1) = 1..n \cup {n + 1} /\ n + 1 \notin 1..n
      /\ DOMAIN c \subseteq Nat /\ DOMAIN d \subseteq Nat
      /\ \A j \in 1..n : j < n + 1 /\ ~(n + 1 < j)
  BY <1>1
<1>3. \A j \in 1..n : c[j].sql \in TextsOf(c) /\ c[j].sql # e.sql
  BY <1>1 DEF TextsOf
<1>4. Distinct(d)
  BY <1>1, <1>2, <1>3 DEF Distinct
<1>5. TextsOf(d) = TextsOf(c) \cup {e.sql}
  <2>1. ASSUME NEW j \in 1..(n + 1) PROVE d[j].sql \in TextsOf(c) \cup {e.sql}
    BY <1>1, <1>2, <1>3
  <2>2. ASSUME NEW j \in 1..n PROVE c[j].sql \in TextsOf(d)
    <3>1. j \in DOMAIN d /\ d[j] = c[j]
      BY <1>1, <1>2
    <3>2. QED
      BY <3>1 DEF TextsOf
  <2>3. e.sql \in TextsOf(d)
    <3>1. n + 1 \in DOMAIN d
      BY <1>1, <1>2
    <3>2. QED
      BY <1>1, <3>1 DEF TextsOf
  <2>4. QED
    BY <1>1, <2>1, <2>2, <2>3 DEF TextsOf
<1>6. HandlesOf(d) = HandlesWith(c, e)
  <2>1. ASSUME NEW text \in TextsOf(c) PROVE HandleIn(d, text) = HandlesOf(c)[text]
    <3>1. PICK j \in 1..n : text = c[j].sql
      BY <1>1 DEF TextsOf
    <3>2. HandlesOf(c)[c[j].sql] = c[j].stmt
      BY <1>1, HandleAt
    <3>3. j \in DOMAIN d /\ d[j] = c[j]
      BY <1>1, <1>2
    <3>4. HandlesOf(d)[d[j].sql] = d[j].stmt /\ d[j].sql \in TextsOf(d)
      BY <1>4, <3>3, HandleAt
    <3>5. QED
      BY <3>1, <3>2, <3>3, <3>4 DEF HandlesOf
  <2>2. HandleIn(d, e.sql) = e.stmt
    <3>1. n + 1 \in DOMAIN d /\ d[n + 1] = e
      BY <1>1, <1>2
    <3>2. HandlesOf(d)[d[n + 1].sql] = d[n + 1].stmt /\ d[n + 1].sql \in TextsOf(d)
      BY <1>4, <3>1, HandleAt
    <3>3. QED
      BY <3>1, <3>2 DEF HandlesOf
  <2>3. QED
    BY <1>5, <2>1, <2>2 DEF HandlesOf, HandlesWith
<1>7. LaterIn(d) = LaterWith(c, e)
  <2> DEFINE Y == LaterIn(c) \cup ({e.sql} \X TextsOf(c))
  <2>1. LaterIn(d) \subseteq TextsOf(d) \X TextsOf(d)
    BY DEF LaterIn
  <2>2. LaterIn(c) \subseteq TextsOf(c) \X TextsOf(c)
    BY DEF LaterIn
  <2>3. Y \subseteq TextsOf(d) \X TextsOf(d)
    BY <1>5, <2>2
  <2>4. ASSUME NEW i \in DOMAIN d, NEW j \in DOMAIN d
        PROVE  <<d[j].sql, d[i].sql>> \in LaterIn(d) <=> <<d[j].sql, d[i].sql>> \in Y
    <3>1. <<d[j].sql, d[i].sql>> \in LaterIn(d) <=> i < j
      BY <1>2, <1>4, LaterAt
    <3>2. CASE i \in 1..n /\ j \in 1..n
      <4>1. <<c[j].sql, c[i].sql>> \in LaterIn(c) <=> i < j
        BY <1>1, <1>2, <3>2, LaterAt
      <4>2. d[i] = c[i] /\ d[j] = c[j] /\ d[j].sql # e.sql
        BY <1>1, <1>3, <3>2
      <4>3. QED
        BY <3>1, <4>1, <4>2
    <3>3. CASE i \in 1..n /\ j = n + 1
      <4>1. d[j].sql = e.sql /\ d[i].sql \in TextsOf(c) /\ i < j
        BY <1>1, <1>2, <1>3, <3>3
      <4>2. QED
        BY <3>1, <4>1
    <3>4. CASE i = n + 1
      <4>1. d[i].sql = e.sql /\ ~(i < j)
        BY <1>1, <1>2, <3>4
      <4>2. <<d[j].sql, d[i].sql>> \notin Y
        BY <2>2, <4>1
      <4>3. QED
        BY <3>1, <4>1, <4>2
    <3>5. QED
      BY <1>1, <1>2, <3>2, <3>3, <3>4
  <2> HIDE DEF Y
  <2>5. LaterIn(d) = Y
    BY <2>1, <2>3, <2>4, SamePairs, Zenon
  <2>6. QED
    BY <2>5 DEF Y, LaterWith
<1>8. QED
  BY <1>4, <1>5, <1>6, <1>7
-----------------------------------------------------------------------------
(* The operations of get_or_prepare_stmt() as these two                    *)

LEMMA TakenOutDrops ==
  ASSUME NEW S, NEW s \in Seq(S), NEW n \in Nat, n = Len(s), NEW i \in 1..n
  PROVE  Dropped(s, TakenOut(s, i), n, i)
<1> DEFINE r == TakenOut(s, i)
<1> HIDE DEF r
<1>1. /\ r \in Seq(S) /\ Len(r) = n - 1
      /\ \A j \in 1..(i - 1) : r[j] = s[j]
      /\ \A j \in 1..(n - i) : r[i - 1 + j] = s[i + j]
  <2>1. TakenOut(s, i) \in Seq(S)
    BY TakeOut
  <2>2. Len(TakenOut(s, i)) = n - 1
    BY TakeOut
  <2>3. \A j \in 1..(i - 1) : TakenOut(s, i)[j] = s[j]
    BY TakeOut
  <2>4. \A j \in 1..(n - i) : TakenOut(s, i)[i - 1 + j] = s[i + j]
    BY TakeOut
  <2>5. QED
    BY <2>1, <2>2, <2>3, <2>4, Zenon DEF r
<1>2. DOMAIN s = 1..n /\ DOMAIN r = 1..(n - 1)
  BY <1>1
<1>3. ASSUME NEW j \in 1..(n - 1) PROVE r[j] = IF j < i THEN s[j] ELSE s[j + 1]
  <2>1. CASE j < i
    BY <1>1, <2>1
  <2>2. CASE ~(j < i)
    <3>1. j - i + 1 \in 1..(n - i)
      BY <2>2
    <3>2. r[i - 1 + (j - i + 1)] = s[i + (j - i + 1)]
      BY <1>1, <3>1
    <3>3. i - 1 + (j - i + 1) = j /\ i + (j - i + 1) = j + 1
      OBVIOUS
    <3>4. QED
      BY <2>2, <3>2, <3>3
  <2>3. QED
    BY <2>1, <2>2
<1>4. QED
  BY <1>2, <1>3 DEF Dropped, r

LEMMA TailDrops ==
  ASSUME NEW S, NEW s \in Seq(S), NEW n \in Nat, n = Len(s), n >= 1
  PROVE  Tail(s) \in Seq(S) /\ Len(Tail(s)) = n - 1 /\ Dropped(s, Tail(s), n, 1)
<1>1. Tail(s) \in Seq(S) /\ Len(Tail(s)) = n - 1 /\ DOMAIN s = 1..n
  OBVIOUS
<1>2. \A j \in 1..(n - 1) : Tail(s)[j] = s[j + 1]
  OBVIOUS
<1>3. QED
  BY <1>1, <1>2 DEF Dropped

LEMMA AppendAdds ==
  ASSUME NEW S, NEW s \in Seq(S), NEW n \in Nat, n = Len(s), NEW e \in S
  PROVE  Added(s, Append(s, e), n, e)
<1>1. /\ Append(s, e) \in Seq(S) /\ Len(Append(s, e)) = n + 1
      /\ \A j \in 1..n : Append(s, e)[j] = s[j]
      /\ Append(s, e)[n + 1] = e
  BY AddBack
<1>2. QED
  BY <1>1 DEF Added

\* A hit: every text keeps its handle, and the one that was hit is behind all.
LEMMA HitRefreshes ==
  ASSUME NEW S, NEW c \in Seq(S), NEW n \in Nat, n = Len(c), NEW i \in 1..n, Distinct(c)
  PROVE  /\ HandlesOf(MovedToBack(c, i)) = HandlesOf(c)
         /\ LaterIn(MovedToBack(c, i)) =
              {p \in LaterIn(c) : /\ p[1] \in TextsOf(c) \ {c[i].sql}
                                  /\ p[2] \in TextsOf(c) \ {c[i].sql}}
              \cup ({c[i].sql} \X (TextsOf(c) \ {c[i].sql}))
<1> DEFINE r == TakenOut(c, i)
           e == c[i]
           d == Append(r, e)
<1>1. e \in S /\ DOMAIN c = 1..n
  OBVIOUS
<1>2. r \in Seq(S)
  BY TakeOut
<1>3. Len(r) = n - 1 /\ n - 1 \in Nat
  BY TakeOut
<1>4. Dropped(c, r, n, i)
  BY TakenOutDrops
<1> HIDE DEF r
<1>5. Added(r, d, n - 1, e)
  BY <1>1, <1>2, <1>3, AppendAdds
<1>6. d = MovedToBack(c, i)
  BY DEF MovedToBack, r
<1> HIDE DEF d
<1>7. /\ Distinct(r) /\ TextsOf(r) = TextsOf(c) \ {e.sql}
      /\ \A text \in TextsOf(r) : HandlesOf(r)[text] = HandlesOf(c)[text]
      /\ LaterIn(r) = {p \in LaterIn(c) : p[1] \in TextsOf(r) /\ p[2] \in TextsOf(r)}
  BY <1>4, DropEntry
<1>8. e.sql \in TextsOf(c) /\ HandlesOf(c)[e.sql] = e.stmt
  BY <1>1, HandleAt
<1> HIDE DEF e
<1>9. HandlesOf(d) = HandlesWith(r, e) /\ LaterIn(d) = LaterWith(r, e)
  <2>1. e.sql \notin TextsOf(r) /\ Distinct(r)
    BY <1>7
  <2>2. QED
    BY <1>3, <1>5, <2>1, AddEntry
<1>10. TextsOf(r) \cup {e.sql} = TextsOf(c)
  BY <1>7, <1>8
<1>11. HandlesOf(d) = [text \in TextsOf(c) |-> HandlesOf(c)[text]]
  BY <1>7, <1>8, <1>9, <1>10 DEF HandlesWith
<1>12. HandlesOf(c) = [text \in TextsOf(c) |-> HandlesOf(c)[text]]
  BY DEF HandlesOf
<1>13. QED
  BY <1>6, <1>7, <1>9, <1>11, <1>12 DEF e, LaterWith

\* There are as many texts as entries.
LEMMA CountTexts ==
  ASSUME NEW n \in Nat, NEW c, DOMAIN c = 1..n, Distinct(c)
  PROVE  Cardinality(TextsOf(c)) = n
<1> DEFINE f == [i \in 1..n |-> c[i].sql]
<1>1. f \in Bijection(1..n, TextsOf(c))
  <2>1. f \in [1..n -> TextsOf(c)]
    BY DEF TextsOf
  <2>2. \A i, j \in 1..n : f[i] = f[j] => i = j
    BY DEF Distinct
  <2>3. \A text \in TextsOf(c) : \E i \in 1..n : f[i] = text
    BY DEF TextsOf
  <2>4. QED
    BY <2>1, <2>2, <2>3 DEF Bijection, Injection, Surjection, IsInjective
<1> HIDE DEF f
<1>2. IsFiniteSet(1..n) /\ Cardinality(1..n) = n
  <2>1. Cardinality(1..n) = IF 1 > n THEN 0 ELSE n - 1 + 1
    BY FS_Interval
  <2>2. QED
    BY <2>1, FS_Interval
<1>3. ExistsBijection(1..n, TextsOf(c))
  BY <1>1 DEF ExistsBijection
<1>4. QED
  BY <1>2, <1>3, FS_Bijection
-----------------------------------------------------------------------------
(* The abstract cache                                                      *)

\* The handle that the call in progress works with.
Using == IF pc \in {"reset", "run", "store"} THEN stmt ELSE None

LEMMA AbstractView ==
  /\ [text \in Texts |-> HandleOf(text)] = HandlesOf(cache)
  /\ LaterUse = LaterIn(cache)
  /\ Texts = TextsOf(cache)
  BY DEF Texts, HandleOf, LaterUse, HandlesOf, HandleIn, LaterIn, TextsOf

LEMMA AbstractViewPrime ==
  /\ [text \in Texts |-> HandleOf(text)]' = HandlesOf(cache')
  /\ LaterUse' = LaterIn(cache')
  /\ Texts' = TextsOf(cache')
  BY DEF Texts, HandleOf, LaterUse, HandlesOf, HandleIn, LaterIn, TextsOf

LEMMA EmptyView == HandlesOf(<<>>) = <<>> /\ LaterIn(<<>>) = {} /\ TextsOf(<<>>) = {}
<1>1. DOMAIN <<>> = {}
  OBVIOUS
<1>2. TextsOf(<<>>) = {} /\ LaterIn(<<>>) = {}
  BY <1>1 DEF TextsOf, LaterIn
<1>3. HandlesOf(<<>>) = <<>>
  BY <1>2 DEF HandlesOf
<1>4. QED
  BY <1>2, <1>3

\* What a step means for the abstract cache: only get_or_prepare_stmt() gives a
\* handle out, and the cache is not cleared while a call works with one.
LEMMA StepKinds ==
  ASSUME TypeOK, Next
  PROVE  \/ UNCHANGED cache /\ (Using' = Using \/ Using' = None)
         \/ ClearCache /\ Using = None /\ Using' = None
         \/ GetHits
         \/ GetPrepares
<1>0. pc \in PC
  BY DEF TypeOK
<1>1. CASE Connect \/ Close
  BY <1>1 DEF Connect, ForgetStmts, Close, callVars, Using
<1>2. CASE RecoverSucceeds \/ RecoverThrows
  BY <1>2 DEF RecoverSucceeds, RecoverThrows, End, Goto, Using
<1>3. CASE SessionEnds \/ PingThrows \/ TextThrows
  BY <1>3 DEF SessionEnds, PingThrows, TextThrows, clientVars, callVars, Using
<1>4. CASE GetThrows \/ AttemptThrows
  BY <1>4 DEF GetThrows, AttemptThrows, End, clientVars, Using
<1>5. CASE ResetSucceeds \/ ResetFails
  BY <1>5 DEF ResetSucceeds, ResetFails, Fail, End, Goto, clientVars, Using
<1>6. CASE RunSucceeds \/ RunFails \/ RunLosesAnswer
  BY <1>6 DEF RunSucceeds, RunFails, RunLosesAnswer, Fail, End, Goto, clientVars, Using
<1>7. CASE StoreSucceeds \/ StoreFails
  BY <1>7 DEF StoreSucceeds, StoreFails, Fail, End, Goto, clientVars, Using
<1>8. CASE ReprepareSucceeds \/ ReprepareThrows
  BY <1>8 DEF ReprepareSucceeds, ReprepareThrows, GoRound, End, clientVars, Using
<1>9. CASE \/ \E begins \in BOOLEAN : Transact(begins)
           \/ \E text \in Sql, rows \in BOOLEAN : Call(text, rows)
           \/ \E r \in Result : DropResult(r)
  BY <1>9 DEF Transact, Call, DropResult, clientVars, callVars, Using
<1>10. QED
  BY <1>1, <1>2, <1>3, <1>4, <1>5, <1>6, <1>7, <1>8, <1>9, Zenon
     DEF Next, InCall, Get, Attempt, Recovery

\* A hit is a use of the text: entries stay, and it becomes the newest.
LEMMA HitIsUse ==
  ASSUME CacheInv, GetHits
  PROVE  TheCache!Use(sql)
<1>1. PICK i \in DOMAIN cache :
         Hit(i) /\ cache' = Append(Without(i), cache[i]) /\ stmt' = cache[i].stmt
  BY DEF GetHits
<1>2. PICK n \in Nat : n = Len(cache) /\ DOMAIN cache = 1..n /\ cache \in Seq(Entry)
  BY DEF CacheInv, TypeOK, Entry
<1>3. Distinct(cache)
  BY DEF CacheInv, CacheIsAMap, Distinct
<1>4. cache' = MovedToBack(cache, i) /\ cache[i].sql = sql
  BY <1>1 DEF MovedToBack, TakenOut, Without, Hit
<1>5. HandlesOf(cache') = HandlesOf(cache)
  BY <1>1, <1>2, <1>3, <1>4, HitRefreshes
<1>6. LaterIn(cache') =
        {p \in LaterIn(cache) : p[1] \in TextsOf(cache) \ {sql} /\ p[2] \in TextsOf(cache) \ {sql}}
        \cup ({sql} \X (TextsOf(cache) \ {sql}))
  BY <1>1, <1>2, <1>3, <1>4, HitRefreshes
<1>7. sql \in TextsOf(cache) /\ HandlesOf(cache)[sql] = cache[i].stmt
  BY <1>3, <1>4, HandleAt
<1>8. Using = None /\ Using' = cache[i].stmt
  BY <1>1 DEF GetHits, Using
<1>9. DOMAIN HandlesOf(cache) = TextsOf(cache)
  BY DEF HandlesOf
<1>10. QED
  BY <1>5, <1>6, <1>7, <1>8, <1>9, AbstractView, AbstractViewPrime
     DEF TheCache!Use, TheCache!Kept, TheCache!Refresh, Using
\* The text to give up, in a deque that is full: the first.
LEMMA FirstIsLeastRecent ==
  ASSUME NEW n \in Nat, NEW c, DOMAIN c = 1..n, n >= 1, Distinct(c)
  PROVE  {k \in TextsOf(c) : \A l \in TextsOf(c) \ {k} : <<l, k>> \in LaterIn(c)} = {c[1].sql}
<1>1. 1 \in 1..n /\ DOMAIN c \subseteq Nat
  OBVIOUS
<1>2. c[1].sql \in TextsOf(c)
  BY <1>1 DEF TextsOf
<1>3. ASSUME NEW l \in TextsOf(c) \ {c[1].sql} PROVE <<l, c[1].sql>> \in LaterIn(c)
  <2>1. PICK j \in 1..n : l = c[j].sql
    BY DEF TextsOf
  <2>2. 1 < j
    BY <1>3, <2>1
  <2>3. QED
    BY <1>1, <2>1, <2>2, LaterAt
<1>4. ASSUME NEW k \in TextsOf(c), k # c[1].sql PROVE <<c[1].sql, k>> \notin LaterIn(c)
  <2>1. PICK j \in 1..n : k = c[j].sql
    BY DEF TextsOf
  <2>2. ~(j < 1)
    OBVIOUS
  <2>3. QED
    BY <1>1, <2>1, <2>2, LaterAt
<1>5. QED
  BY <1>2, <1>3, <1>4

\* TheCache's own copy of Cardinality is the same operator.
LEMMA SameCardinality == \A S : TheCache!Cardinality(S) = Cardinality(S)
  BY DEF Cardinality, TheCache!Cardinality

\* Without an eviction every text stays; with one, all but the first do.
LEMMA EvictedTexts ==
  ASSUME CacheInv
  PROVE  TheCache!Evicted = IF Full THEN {cache[1].sql} ELSE {}
<1>1. PICK n \in Nat : n = Len(cache) /\ DOMAIN cache = 1..n
  BY DEF CacheInv, TypeOK
<1>2. Distinct(cache)
  BY DEF CacheInv, CacheIsAMap, Distinct
<1>3. Cardinality(TextsOf(cache)) = n
  BY <1>1, <1>2, CountTexts
<1>4. DOMAIN HandlesOf(cache) = TextsOf(cache)
  BY DEF HandlesOf
<1>5. TheCache!Kept = TextsOf(cache)
  BY <1>4, AbstractView DEF TheCache!Kept
<1>6. TheCache!Evicted = IF n < Capacity THEN {} ELSE TheCache!LeastRecent
  BY <1>3, <1>5, SameCardinality DEF TheCache!Evicted
<1>7. Full <=> ~(n < Capacity)
  BY <1>1, CapacityAssumption DEF Full
<1>8. CASE Full
  <2>1. n >= 1
    BY <1>1, <1>8, CapacityAssumption DEF Full
  <2>2. TheCache!LeastRecent = {cache[1].sql}
    BY <1>1, <1>2, <1>5, <2>1, FirstIsLeastRecent, AbstractView DEF TheCache!LeastRecent
  <2>3. QED
    BY <1>6, <1>7, <1>8, <2>2
<1>9. CASE ~Full
  BY <1>6, <1>7, <1>9
<1>10. QED
  BY <1>8, <1>9

\* The deque before the new entry is put in.
Rest == IF Full THEN Tail(cache) ELSE cache

LEMMA RestView ==
  ASSUME CacheInv
  PROVE  /\ Rest \in Seq(Entry) /\ Distinct(Rest)
         /\ TextsOf(Rest) = TextsOf(cache) \ TheCache!Evicted
         /\ \A text \in TextsOf(Rest) : HandlesOf(Rest)[text] = HandlesOf(cache)[text]
         /\ LaterIn(Rest) =
              {p \in LaterIn(cache) : p[1] \in TextsOf(Rest) /\ p[2] \in TextsOf(Rest)}
<1>1. PICK n \in Nat : n = Len(cache) /\ DOMAIN cache = 1..n /\ cache \in Seq(Entry)
  BY DEF CacheInv, TypeOK, Entry
<1>2. Distinct(cache)
  BY DEF CacheInv, CacheIsAMap, Distinct
<1>3. CASE Full
  <2>1. n >= 1
    BY <1>1, <1>3, CapacityAssumption DEF Full
  <2>2. Rest \in Seq(Entry) /\ Dropped(cache, Rest, n, 1)
    BY <1>1, <1>3, <2>1, TailDrops DEF Rest
  <2>3. 1 \in 1..n
    BY <2>1
  <2>4. QED
    BY <1>1, <1>2, <1>3, <2>2, <2>3, DropEntry, EvictedTexts
<1>4. CASE ~Full
  <2>1. Rest = cache /\ TheCache!Evicted = {}
    BY <1>4, EvictedTexts DEF Rest
  <2>2. LaterIn(cache) \subseteq TextsOf(cache) \X TextsOf(cache)
    BY DEF LaterIn
  <2>3. QED
    BY <1>1, <1>2, <2>1, <2>2
<1>5. QED
  BY <1>3, <1>4

\* A statement that is prepared is added, in the place of the one evicted.
LEMMA PrepareIsAdd ==
  ASSUME CacheInv, GetPrepares
  PROVE  TheCache!Add(sql, stmt')
<1>1. PICK s \in Stmt \ open : Remember(s) /\ stmt' = s
  BY DEF GetPrepares
<1> DEFINE e == [sql |-> sql, stmt |-> s]
<1>2. e \in Entry /\ e.sql = sql /\ e.stmt = s
  BY DEF CacheInv, TypeOK, Entry, GetPrepares
<1>3. cache' = Append(Rest, e)
  BY <1>1 DEF Remember, Rest
<1> HIDE DEF e
<1>4. Distinct(cache)
  BY DEF CacheInv, CacheIsAMap, Distinct
<1>5. sql \notin TextsOf(cache)
  BY DEF GetPrepares, NoHit, Hit, TextsOf
<1>6. ASSUME NEW text \in TextsOf(cache) PROVE HandlesOf(cache)[text] # s
  <2>1. PICK i \in DOMAIN cache : text = cache[i].sql
    BY DEF TextsOf
  <2>2. cache[i].stmt \in Cached /\ s \notin Cached
    BY <1>1 DEF Cached, CacheInv, StatementsAccounted
  <2>3. QED
    BY <1>4, <2>1, <2>2, HandleAt
<1>7. PICK n \in Nat : n = Len(Rest)
  BY RestView
<1>8. Added(Rest, cache', n, e)
  BY <1>2, <1>3, <1>7, RestView, AppendAdds
<1>9. Distinct(Rest) /\ e.sql \notin TextsOf(Rest)
  BY <1>2, <1>5, RestView
<1>10. HandlesOf(cache') = HandlesWith(Rest, e) /\ LaterIn(cache') = LaterWith(Rest, e)
  BY <1>7, <1>8, <1>9, AddEntry
<1> DEFINE K == TextsOf(cache) \ TheCache!Evicted
<1>11. HandlesOf(cache') =
         [text \in K \cup {sql} |-> IF text = sql THEN s ELSE HandlesOf(cache)[text]]
  BY <1>2, <1>10, RestView DEF HandlesWith
<1>12. LaterIn(cache') =
         {p \in LaterIn(cache) : p[1] \in K /\ p[2] \in K} \cup ({sql} \X K)
  BY <1>2, <1>10, RestView DEF LaterWith
<1>13. DOMAIN HandlesOf(cache) = TextsOf(cache)
  BY DEF HandlesOf
<1>14. TheCache!Kept = TextsOf(cache)
  BY <1>13, AbstractView DEF TheCache!Kept
<1>15. Using = None /\ Using' = s
  BY <1>1 DEF GetPrepares, Using
<1> HIDE DEF K
<1>16. QED
  BY <1>1, <1>5, <1>6, <1>11, <1>12, <1>14, <1>15, AbstractView, AbstractViewPrime
     DEF TheCache!Add, TheCache!Refresh, Using, K
\* Clearing the deque clears the cache, or does nothing to an empty one.
LEMMA ClearIsClear ==
  ASSUME ClearCache, Using = None, Using' = None
  PROVE  TheCache!Clear
<1>1. HandlesOf(cache') = <<>> /\ LaterIn(cache') = {}
  BY EmptyView DEF ClearCache
<1>2. QED
  BY <1>1, AbstractViewPrime DEF TheCache!Clear, Using

LEMMA CacheStep ==
  ASSUME CacheInv, [Next]_vars
  PROVE  [TheCache!CacheNext]_(TheCache!cacheVars)
<1> SUFFICES ASSUME TheCache!cacheVars' # TheCache!cacheVars
             PROVE  TheCache!CacheNext
  OBVIOUS
<1>0. TypeOK
  BY DEF CacheInv
<1>1. Next
  <2>1. SUFFICES ASSUME UNCHANGED vars PROVE UNCHANGED TheCache!cacheVars
    OBVIOUS
  <2>2. cache' = cache /\ pc' = pc /\ stmt' = stmt
    BY <2>1 DEF vars, clientVars, callVars
  <2>3. /\ [text \in Texts |-> HandleOf(text)]' = [text \in Texts |-> HandleOf(text)]
        /\ LaterUse' = LaterUse
    BY <2>2, AbstractView, AbstractViewPrime
  <2>4. QED
    BY <2>2, <2>3 DEF TheCache!cacheVars
<1>2. CASE UNCHANGED cache /\ (Using' = Using \/ Using' = None)
  <2>1. /\ [text \in Texts |-> HandleOf(text)]' = [text \in Texts |-> HandleOf(text)]
        /\ LaterUse' = LaterUse
    BY <1>2, AbstractView, AbstractViewPrime
  <2>2. Using' # Using
    BY <2>1 DEF TheCache!cacheVars, Using
  <2>3. TheCache!Finish
    BY <1>2, <2>1, <2>2 DEF TheCache!Finish, Using
  <2>4. QED
    BY <2>3 DEF TheCache!CacheNext
<1>3. CASE ClearCache /\ Using = None /\ Using' = None
  BY <1>3, ClearIsClear DEF TheCache!CacheNext
<1>4. CASE GetHits
  <2>1. sql \in Sql
    BY <1>0, <1>4 DEF TypeOK, GetHits
  <2>2. QED
    BY <1>4, <2>1, HitIsUse DEF TheCache!CacheNext
<1>5. CASE GetPrepares
  <2>1. sql \in Sql /\ stmt' \in Stmt
    BY <1>0, <1>5 DEF TypeOK, GetPrepares
  <2>2. QED
    BY <1>5, <2>1, PrepareIsAdd DEF TheCache!CacheNext
<1>6. QED
  BY <1>0, <1>1, <1>2, <1>3, <1>4, <1>5, StepKinds

LEMMA CacheStart == Init => TheCache!CacheInit
<1> SUFFICES ASSUME Init PROVE TheCache!CacheInit
  OBVIOUS
<1>1. cache = <<>> /\ pc = "idle"
  BY DEF Init
<1>2. HandlesOf(cache) = <<>> /\ LaterIn(cache) = {}
  BY <1>1, EmptyView
<1>3. QED
  BY <1>1, <1>2, AbstractView DEF TheCache!CacheInit

\* The deque with its searches, moves, evictions and clearings is the abstract
\* cache, for any capacity: a call gets the one handle of its text, which stays
\* open while the call works with it, and what a full cache gives up is the text
\* whose last use is the longest ago.
THEOREM DequeImplementsCache == Spec => ImplementsCache
<1>1. Spec => TheCache!CacheInit
  BY CacheStart DEF Spec
<1>2. CacheInv /\ [Next]_vars => [TheCache!CacheNext]_(TheCache!cacheVars)
  BY CacheStep
<1>3. QED
  BY <1>1, <1>2, CacheInvAlways, PTL DEF Spec, ImplementsCache, TheCache!CacheSpec
=============================================================================
