------------------------- MODULE PreparedCallProofs -------------------------
(***************************************************************************)
(* Binding, for any number of parameters, any arguments and any behaviour  *)
(* of the server: the pointers that the library is given stay good until   *)
(* it reads through them.                                                  *)
(*                                                                         *)
(* A call with its bind_fn is a call of PreparedConnection, so that what   *)
(* is proved there (PreparedConnectionProofs, StatementCacheProofs) holds  *)
(* here.                                                                   *)
(***************************************************************************)
EXTENDS PreparedCall, StatementCacheProofs

-----------------------------------------------------------------------------
(* A call with its bind_fn is a call                                       *)

\* Binding adds nothing to what a connection does: each step is one of
\* PreparedConnection, or leaves its variables alone (the bind_fn that
\* connection_prepared.hpp:36 and :83 call touches the parameter vectors only).
THEOREM CallsAreCalls == CallSpec => Spec
<1>1. CallInit => Init
  BY DEF CallInit
<1>2. [CallNext]_allVars => [Next]_vars
  <2> SUFFICES ASSUME [CallNext]_allVars PROVE [Next]_vars
    OBVIOUS
  <2>1. CASE StartCall
    BY <2>1, Zenon DEF StartCall, Next
  <2>2. CASE BindStep
    BY <2>2, Zenon DEF BindStep
  <2>3. CASE CallStep
    BY <2>3, Zenon DEF CallStep, Next, InCall, Get, Attempt, Recovery
  <2>4. CASE MoveConnection
    BY <2>4, Zenon DEF MoveConnection
  <2>5. CASE OutsideCalls
    BY <2>5, Zenon DEF OutsideCalls, Next
  <2>6. CASE UNCHANGED allVars
    BY <2>6, Zenon DEF allVars
  <2>7. QED
    BY <2>1, <2>2, <2>3, <2>4, <2>5, <2>6, Zenon DEF CallNext
<1>3. QED
  BY <1>1, <1>2, PTL DEF CallSpec, Spec

-----------------------------------------------------------------------------
(* Types                                                                   *)

Content == Value \cup {Null, Emptied}

LEMMA ValuesOf ==
  ASSUME NEW args \in Seq(Arg)
  PROVE  /\ [i \in DOMAIN args |-> args[i].value] \in Seq(Content)
         /\ Len([i \in DOMAIN args |-> args[i].value]) = Len(args)
<1>1. \A i \in 1..Len(args) : args[i].value \in Content
  BY DEF Arg, Content
<1>2. PICK n \in Nat : n = Len(args) /\ DOMAIN args = 1..n
  OBVIOUS
<1>3. QED
  BY <1>1, <1>2

LEMMA LoosenedTyped ==
  ASSUME NEW ps \in Seq(Pointer), NEW S \in SUBSET Store
  PROVE  Loosened(ps, S) \in Seq(Pointer) /\ Len(Loosened(ps, S)) = Len(ps)
<1>1. Freed \in Pointer
  BY DEF Freed, Pointer
<1>2. PICK n \in Nat : n = Len(ps) /\ DOMAIN ps = 1..n
  OBVIOUS
<1>3. QED
  BY <1>1, <1>2 DEF Loosened

\* What Put() does to the vectors and the binds.
LEMMA PutTyped ==
  ASSUME BindTypeOK, phase = "binding", Len(binds) < Len(given),
         NEW s \in Store, NEW v \in Content, Put(s, v)
  PROVE  /\ buffer' \in [Store -> Seq(Content)] /\ room' \in [Store -> Nat]
         /\ binds' \in Seq(Pointer) /\ Len(binds') = Len(binds) + 1
         /\ handed' \in Seq(Pointer)
<1> DEFINE moves == Len(buffer[s]) >= room[s]
           loose == IF moves THEN {s} ELSE {}
<1> USE DEF Put
<1>0. buffer[s] \in Seq(Content) /\ Len(buffer[s]) \in Nat /\ room[s] \in Nat
  BY DEF BindTypeOK, Content
<1>1. buffer' \in [Store -> Seq(Content)]
  BY <1>0 DEF BindTypeOK, Content
<1>2. room' \in [Store -> Nat]
  BY <1>0 DEF BindTypeOK
<1>3. loose \in SUBSET Store
  OBVIOUS
<1> HIDE DEF loose
<1>4. /\ Loosened(binds, loose) \in Seq(Pointer) /\ Len(Loosened(binds, loose)) = Len(binds)
      /\ Loosened(handed, loose) \in Seq(Pointer)
  BY <1>3, LoosenedTyped DEF BindTypeOK
<1>5. [to |-> s, slot |-> Len(buffer[s]) + 1] \in Pointer
  BY <1>0 DEF Pointer
<1>6. binds' = Append(Loosened(binds, loose), [to |-> s, slot |-> Len(buffer[s]) + 1])
      /\ handed' = Loosened(handed, loose)
  BY DEF loose
<1> DEFINE ps == Loosened(binds, loose)
           new == [to |-> s, slot |-> Len(buffer[s]) + 1]
<1> HIDE DEF ps, new
<1>7. Append(ps, new) \in Seq(Pointer) /\ Len(Append(ps, new)) = Len(ps) + 1
  BY <1>4, <1>5 DEF ps, new
<1>8. binds' \in Seq(Pointer) /\ Len(binds') = Len(binds) + 1
  BY <1>4, <1>6, <1>7 DEF ps, new
<1>9. QED
  BY <1>1, <1>2, <1>4, <1>6, <1>8
\* own[Argument] is a content, and binding may put Emptied in its place.
LEMMA OwnTyped ==
  ASSUME BindTypeOK, phase = "binding", Len(binds) < Len(given)
  PROVE  /\ Argument \in DOMAIN given
         /\ own[Argument] \in Content
         /\ [own EXCEPT ![Argument] = Emptied] \in Seq(Content)
         /\ Len([own EXCEPT ![Argument] = Emptied]) = Len(own)
<1>1. PICK n \in Nat : n = Len(given) /\ n = Len(own) /\ DOMAIN own = 1..n /\ DOMAIN given = 1..n
  BY DEF BindTypeOK
<1>2. Argument \in 1..n
  BY <1>1 DEF BindTypeOK, Argument
<1>3. own \in Seq(Content) /\ Emptied \in Content
  BY DEF BindTypeOK, Content
<1> HIDE DEF Argument
<1>4. QED
  BY <1>1, <1>2, <1>3

LEMMA BindInitTypeOK == BindInit => BindTypeOK
<1> SUFFICES ASSUME BindInit PROVE BindTypeOK
  OBVIOUS
<1>1. \A S : <<>> \in Seq(S)
  OBVIOUS
<1>2. [s \in Store |-> <<>>] \in [Store -> Seq(Value \cup {Null, Emptied})]
  BY <1>1
<1>3. Len(own) = Len(given)
  BY DEF BindInit
<1>4. QED
  BY <1>1, <1>2, <1>3 DEF BindInit, BindTypeOK

LEMMA BindTypeKept == BindTypeOK /\ [CallNext]_allVars => BindTypeOK'
<1> SUFFICES ASSUME BindTypeOK, [CallNext]_allVars PROVE BindTypeOK'
  OBVIOUS
<1>e. \A S : <<>> \in Seq(S)
  OBVIOUS
<1>b. [s \in Store |-> <<>>] \in [Store -> Seq(Value \cup {Null, Emptied})]
  BY <1>e
<1>1. CASE UNCHANGED bindVars
  BY <1>1 DEF bindVars, BindTypeOK
<1>2. CASE StartCall
  <2>1. PICK args \in Arguments : Give(args)
    BY <1>2 DEF StartCall
  <2>2. args \in Seq(Arg)
    BY ArgumentsAssumption
  <2>3. given' = args /\ own' = [i \in DOMAIN args |-> args[i].value] /\ phase' = "given"
        /\ rounds' = 0 /\ UNCHANGED <<buffer, room, binds, handed>>
    BY <2>1 DEF Give
  <2>4. own' \in Seq(Content) /\ Len(own') = Len(given')
    BY <2>2, <2>3, ValuesOf
  <2>5. QED
    BY <2>2, <2>3, <2>4 DEF BindTypeOK, Content
<1>3. ASSUME NEW n, StartBinding(n) PROVE BindTypeOK'
  <2>1. n = Len(given) /\ n \in Nat
    BY <1>3 DEF StartBinding, Fits, BindTypeOK
  <2>2. CASE n = 0
    <3>1. phase' = "bound" /\ handed' = <<>>
          /\ UNCHANGED <<given, own, rounds, buffer, room, binds>>
      BY <1>3, <2>2 DEF StartBinding
    <3>2. Len(handed') = Len(given')
      BY <2>1, <2>2, <3>1
    <3>3. QED
      BY <1>e, <3>1, <3>2 DEF BindTypeOK
  <2>3. CASE n # 0
    <3>1. phase' = "binding" /\ rounds' = rounds + 1 /\ buffer' = [s \in Store |-> <<>>]
          /\ room' = Reserved(n) /\ binds' = <<>> /\ UNCHANGED <<given, own>>
          /\ handed' = Loosened(handed, {s \in Store : room'[s] # room[s]})
      BY <1>3, <2>3 DEF StartBinding
    <3>2. room' \in [Store -> Nat]
      BY <2>1, <3>1 DEF Reserved, BindTypeOK
    <3>3. handed' \in Seq(Pointer)
      <4>1. {s \in Store : room'[s] # room[s]} \in SUBSET Store
        OBVIOUS
      <4>2. QED
        BY <3>1, <4>1, LoosenedTyped DEF BindTypeOK
    <3>4. Len(binds') <= Len(given')
      BY <2>1, <3>1
    <3>5. rounds' \in Nat
      BY <3>1 DEF BindTypeOK
    <3>6. QED
      BY <1>e, <1>b, <3>1, <3>2, <3>3, <3>4, <3>5 DEF BindTypeOK
  <2>4. QED
    BY <2>2, <2>3
<1>4. CASE BindOne
  <2>1. phase = "binding" /\ Len(binds) < Len(given) /\ UNCHANGED <<phase, given, rounds>>
    BY <1>4 DEF BindOne
  <2>2. own[Argument] \in Content
    BY <2>1, OwnTyped
  <2>3. ASSUME NEW s \in Store, Put(s, own[Argument]),
               own' \in Seq(Content), Len(own') = Len(own)
        PROVE  BindTypeOK'
    <3>1. /\ buffer' \in [Store -> Seq(Content)] /\ room' \in [Store -> Nat]
          /\ binds' \in Seq(Pointer) /\ Len(binds') = Len(binds) + 1
          /\ handed' \in Seq(Pointer)
      BY <2>1, <2>2, <2>3, PutTyped
    <3>2. Len(binds') <= Len(given')
      BY <2>1, <3>1 DEF BindTypeOK
    <3>3. QED
      BY <2>1, <2>3, <3>1, <3>2 DEF BindTypeOK, Content
  <2>4. own \in Seq(Content)
    BY DEF BindTypeOK, Content
  <2>5. CASE BindScalar
    BY <2>3, <2>4, <2>5 DEF BindScalar, Store
  <2>6. CASE BindCopy
    BY <2>3, <2>4, <2>6 DEF BindCopy, Store
  <2>7. CASE BindMove
    BY <2>1, <2>3, <2>7, OwnTyped DEF BindMove, Store
  <2>8. CASE BindNull
    <3>1. binds' = Append(binds, NullPointer) /\ UNCHANGED <<buffer, room, handed, own>>
      BY <2>8 DEF BindNull
    <3>2. NullPointer \in Pointer
      BY DEF NullPointer, Pointer
    <3>3. binds' \in Seq(Pointer) /\ Len(binds') = Len(binds) + 1
      BY <3>1, <3>2 DEF BindTypeOK
    <3>4. Len(binds') <= Len(given')
      BY <2>1, <3>3 DEF BindTypeOK
    <3>5. QED
      BY <2>1, <3>1, <3>3, <3>4 DEF BindTypeOK
  <2>9. QED
    BY <1>4, <2>5, <2>6, <2>7, <2>8 DEF BindOne
<1>5. CASE HandOver
  <2>1. phase' = "bound" /\ handed' = binds /\ binds' = <<>> /\ Len(binds) = Len(given)
        /\ UNCHANGED <<given, own, rounds, buffer, room>>
    BY <1>5 DEF HandOver
  <2>2. QED
    BY <1>e, <2>1 DEF BindTypeOK
<1>6. CASE BindAgain
  BY <1>6 DEF BindAgain, BindTypeOK
<1>7. CASE Release
  <2>1. /\ phase' = "none" /\ given' = <<>> /\ own' = <<>> /\ rounds' = 0
        /\ buffer' = [s \in Store |-> <<>>] /\ binds' = <<>> /\ handed' = <<>>
        /\ UNCHANGED room
    BY <1>7 DEF Release
  <2>2. Len(own') = Len(given')
    BY <2>1
  <2>3. QED
    BY <1>e, <1>b, <2>1, <2>2 DEF BindTypeOK
<1>8. CASE NewVectors
  BY <1>8 DEF NewVectors, BindTypeOK
<1>9. CASE CallStep
  BY <1>1, <1>6, <1>7, <1>9 DEF CallStep, Follow
<1>10. QED
  BY <1>1, <1>2, <1>3, <1>4, <1>5, <1>8, <1>9
     DEF CallNext, BindStep, MoveConnection, OutsideCalls, allVars

\* The vectors, the binds and the library's copy of them keep their types, and
\* a binding never has more binds than arguments, nor hands over fewer.
THEOREM BindingTyped == CallSpec => []BindTypeOK
<1>1. CallInit => BindTypeOK
  BY BindInitTypeOK DEF CallInit
<1>2. QED
  BY <1>1, BindTypeKept, PTL DEF CallSpec
-----------------------------------------------------------------------------
(* Pointers                                                                *)

\* What argument i is to be sent as.
Good(v, i) ==
    v = IF given[i].form = "moved" /\ rounds > 1 THEN Emptied ELSE given[i].value

\* A pointer into one of the vectors, or a null pointer.
Holds(b, p) == p.to # "freed" /\ (p.to \in Store => p.slot \in DOMAIN b[p.to])

Leads(p, i) == Holds(buffer, p) /\ Good(Read(buffer, p), i)

\* reserve() has made room for all arguments: no element is put in beyond it.
RoomForAll ==
  phase = "binding" =>
    \A s \in Store : Len(buffer[s]) <= Len(binds) /\ Len(given) <= room[s]

BindsLead ==
  /\ phase = "binding" => rounds > 0 /\ \A i \in DOMAIN binds : Leads(binds[i], i)
  /\ phase = "bound" => \A i \in DOMAIN handed : Leads(handed[i], i)

\* A binding has got as far as argument i, in this attempt or in an earlier one.
BoundOnce(i) ==
    \/ phase = "given" /\ rounds > 0
    \/ phase = "binding" /\ (rounds > 1 \/ i <= Len(binds))
    \/ phase = "bound"

\* Only binding empties an argument, and none but a std::string&&.
OwnKept ==
  /\ phase = "none" => given = <<>>
  /\ phase = "bound" => rounds > 0 \/ given = <<>>
  /\ \A i \in DOMAIN given :
       own[i] = IF given[i].form = "moved" /\ BoundOnce(i) THEN Emptied ELSE given[i].value

\* bind_fn runs to its end, or ends the call.
BindingIsAStage == phase = "binding" => pc = "run"

ArgumentsFit == phase \in {"binding", "bound"} => Len(given) = Params[sql]

BindInv == RoomForAll /\ BindsLead /\ OwnKept /\ BindingIsAStage

\* An element put in where there is room moves no other element.
LEMMA PutKeeps ==
  ASSUME BindTypeOK, phase = "binding", Len(binds) < Len(given), RoomForAll,
         NEW s \in Store, NEW v \in Content, Put(s, v)
  PROVE  /\ room' = room
         /\ \A u \in Store : Len(buffer'[u]) <= Len(binds) + 1
         /\ \A i \in DOMAIN binds : binds'[i] = binds[i]
         /\ binds'[Argument] = [to |-> s, slot |-> Len(buffer[s]) + 1]
         /\ DOMAIN binds' = 1..Argument
         /\ \A p \in Pointer : Holds(buffer, p) => Holds(buffer', p) /\ Read(buffer', p) = Read(buffer, p)
         /\ Holds(buffer', binds'[Argument]) /\ Read(buffer', binds'[Argument]) = v
<1>1. PICK n \in Nat : n = Len(binds) /\ DOMAIN binds = 1..n /\ Argument = n + 1
  BY DEF BindTypeOK, Argument
<1>2. buffer \in [Store -> Seq(Content)] /\ room \in [Store -> Nat]
  BY DEF BindTypeOK, Content
<1>3. PICK m \in Nat : m = Len(buffer[s]) /\ DOMAIN buffer[s] = 1..m
  BY <1>2
<1>4. ~(Len(buffer[s]) >= room[s])
  <2>1. m <= n /\ Len(given) <= room[s] /\ n < Len(given)
    BY <1>1, <1>3 DEF RoomForAll
  <2>2. Len(given) \in Nat /\ room[s] \in Nat
    BY <1>2 DEF BindTypeOK
  <2>3. QED
    BY <1>3, <2>1, <2>2
<1>5. /\ buffer' = [buffer EXCEPT ![s] = Append(@, v)] /\ room' = room
      /\ binds' = Append(Loosened(binds, {}), [to |-> s, slot |-> m + 1])
  BY <1>3, <1>4 DEF Put
<1>6. Loosened(binds, {}) = binds
  BY <1>1 DEF BindTypeOK, Loosened
<1> DEFINE new == [to |-> s, slot |-> m + 1]
<1>7. new \in Pointer
  BY DEF Pointer
<1> HIDE DEF new
<1>8. /\ DOMAIN binds' = 1..(n + 1) /\ binds'[n + 1] = new
      /\ \A i \in 1..n : binds'[i] = binds[i]
  <2>1. binds' = Append(binds, new) /\ binds \in Seq(Pointer)
    BY <1>5, <1>6 DEF new, BindTypeOK
  <2>2. QED
    BY <1>1, <1>7, <2>1
<1>9. /\ DOMAIN buffer'[s] = 1..(m + 1) /\ buffer'[s][m + 1] = v /\ Len(buffer'[s]) = m + 1
      /\ \A j \in 1..m : buffer'[s][j] = buffer[s][j]
  <2>1. buffer'[s] = Append(buffer[s], v) /\ buffer[s] \in Seq(Content)
    BY <1>2, <1>5
  <2>2. QED
    BY <1>3, <2>1
<1>10. \A u \in Store \ {s} : buffer'[u] = buffer[u]
  BY <1>2, <1>5
<1>11. \A u \in Store : Len(buffer'[u]) <= n + 1
  <2>1. \A u \in Store : Len(buffer[u]) <= n /\ Len(buffer[u]) \in Nat
    BY <1>1, <1>2 DEF RoomForAll
  <2>2. m <= n
    BY <1>3, <2>1
  <2>3. ASSUME NEW u \in Store PROVE Len(buffer'[u]) <= n + 1
    BY <1>9, <1>10, <2>1, <2>2
  <2>4. QED
    BY <2>3
<1>12. ASSUME NEW p \in Pointer, Holds(buffer, p)
       PROVE  Holds(buffer', p) /\ Read(buffer', p) = Read(buffer, p)
  <2>1. CASE p.to \notin Store
    BY <1>12, <2>1 DEF Holds, Read, Pointer, Store
  <2>2. CASE p.to = s
    <3>1. p.slot \in 1..m /\ p.slot \in 1..(m + 1)
      BY <1>3, <1>12, <2>2 DEF Holds
    <3>2. buffer'[p.to][p.slot] = buffer[p.to][p.slot] /\ p.slot \in DOMAIN buffer'[p.to]
      BY <1>9, <2>2, <3>1
    <3>3. QED
      BY <1>3, <1>12, <2>2, <3>1, <3>2 DEF Holds, Read, Store
  <2>3. CASE p.to \in Store \ {s}
    BY <1>10, <1>12, <2>3 DEF Holds, Read, Store
  <2>4. QED
    BY <2>1, <2>2, <2>3
<1>13. Holds(buffer', new) /\ Read(buffer', new) = v
  <2>1. new.to = s /\ new.slot = m + 1 /\ s # "freed" /\ s # "null"
    BY DEF new, Store
  <2>2. m + 1 \in DOMAIN buffer'[s] /\ buffer'[s][m + 1] = v
    BY <1>9
  <2>3. QED
    BY <2>1, <2>2 DEF Holds, Read
<1>14. binds'[Argument] = new /\ new = [to |-> s, slot |-> Len(buffer[s]) + 1]
  BY <1>1, <1>3, <1>8 DEF new
<1> HIDE DEF Argument
<1>15. Holds(buffer', binds'[Argument]) /\ Read(buffer', binds'[Argument]) = v
  BY <1>13, <1>14 DEF Holds
<1>16. DOMAIN binds' = 1..Argument /\ \A i \in DOMAIN binds : binds'[i] = binds[i]
  BY <1>1, <1>8
<1>17. \A u \in Store : Len(buffer'[u]) <= Len(binds) + 1
  BY <1>1, <1>11
<1>18. QED
  BY <1>5, <1>12, <1>14, <1>15, <1>16, <1>17
-----------------------------------------------------------------------------
(* The steps of binding                                                    *)

\* The argument to be bound still has the value the caller passed, or, if an
\* earlier attempt has moved it, what is left of it.
LEMMA OwnIsGood ==
  ASSUME BindTypeOK, BindInv, phase = "binding", Len(binds) < Len(given)
  PROVE  Good(own[Argument], Argument) /\ rounds > 0
<1>1. Argument \in DOMAIN given
  BY OwnTyped
<1>2. ~(Argument <= Len(binds))
  BY DEF Argument, BindTypeOK
<1> HIDE DEF Argument
<1>3. QED
  BY <1>1, <1>2 DEF BindInv, OwnKept, BoundOnce, BindsLead, Good

\* A bind has been added, the others lead where they did.
LEMMA OneMoreLeads ==
  ASSUME BindTypeOK, BindInv, phase = "binding", Len(binds) < Len(given),
         UNCHANGED <<phase, given, rounds>>,
         DOMAIN binds' = 1..Argument,
         \A i \in DOMAIN binds : binds'[i] = binds[i] /\
            Holds(buffer', binds[i]) /\ Read(buffer', binds[i]) = Read(buffer, binds[i]),
         Holds(buffer', binds'[Argument]),
         Good(Read(buffer', binds'[Argument]), Argument)
  PROVE  BindsLead'
<1>1. Good(Read(buffer', binds'[Argument]), Argument)
  OBVIOUS
<1>2. ASSUME NEW i \in 1..Argument
      PROVE  Holds(buffer', binds'[i]) /\ Good(Read(buffer', binds'[i]), i)
  <2>1. CASE i = Argument
    BY <2>1
  <2>2. CASE i # Argument
    <3>1. i \in DOMAIN binds
      BY <2>2 DEF Argument, BindTypeOK
    <3>2. Good(Read(buffer, binds[i]), i)
      BY <3>1 DEF BindInv, BindsLead, Leads
    <3>3. QED
      BY <3>1, <3>2
  <2>3. QED
    BY <2>1, <2>2
<1>3. \A i \in DOMAIN binds' :
        Holds(buffer', binds'[i])
        /\ Read(buffer', binds'[i]) = IF given'[i].form = "moved" /\ rounds' > 1
                                      THEN Emptied ELSE given'[i].value
  BY <1>2 DEF Good
<1>4. rounds' > 0 /\ phase' # "bound"
  BY DEF BindInv, BindsLead
<1>5. QED
  BY <1>3, <1>4 DEF BindsLead, Leads, Good

LEMMA PutKeepsInv ==
  ASSUME BindTypeOK, BindInv, phase = "binding", Len(binds) < Len(given),
         UNCHANGED <<phase, given, rounds>>, NEW s \in Store, Put(s, own[Argument])
  PROVE  RoomForAll' /\ BindsLead' /\ DOMAIN binds' = 1..Argument
<1>1. own[Argument] \in Content
  BY OwnTyped
<1>2. /\ room' = room
      /\ \A u \in Store : Len(buffer'[u]) <= Len(binds) + 1
      /\ \A i \in DOMAIN binds : binds'[i] = binds[i]
      /\ DOMAIN binds' = 1..Argument
      /\ \A p \in Pointer : Holds(buffer, p) =>
            Holds(buffer', p) /\ Read(buffer', p) = Read(buffer, p)
      /\ Holds(buffer', binds'[Argument])
      /\ Read(buffer', binds'[Argument]) = own[Argument]
  BY <1>1, PutKeeps DEF BindInv
<1>3. Len(binds') = Len(binds) + 1
  BY <1>1, PutTyped
<1>4. RoomForAll'
  BY <1>2, <1>3 DEF BindInv, RoomForAll
<1>5. Good(Read(buffer', binds'[Argument]), Argument)
  BY <1>2, OwnIsGood
<1>6. \A i \in DOMAIN binds : binds[i] \in Pointer /\ Holds(buffer, binds[i])
  BY DEF BindTypeOK, BindInv, BindsLead, Leads
<1>7. BindsLead'
  BY <1>2, <1>5, <1>6, OneMoreLeads
<1>8. QED
  BY <1>2, <1>4, <1>7

LEMMA BindOneKeeps == BindTypeOK /\ BindInv /\ BindOne /\ pc' = pc => BindInv'
<1> SUFFICES ASSUME BindTypeOK, BindInv, BindOne, pc' = pc PROVE BindInv'
  OBVIOUS
<1>1. phase = "binding" /\ Len(binds) < Len(given) /\ UNCHANGED <<phase, given, rounds>>
  BY DEF BindOne
<1>2. Argument \in DOMAIN given /\ rounds > 0 /\ Argument = Len(binds) + 1
  BY <1>1, OwnTyped, OwnIsGood DEF Argument
<1>3. Len(binds) \in Nat /\ DOMAIN binds = 1..Len(binds) /\ DOMAIN own = DOMAIN given
      /\ rounds \in Nat /\ DOMAIN given = 1..Len(given)
  BY DEF BindTypeOK
<1>0. BindingIsAStage'
  BY <1>1 DEF BindInv, BindingIsAStage
<1>4. ASSUME own' = own, Len(binds') = Len(binds) + 1, given[Argument].form # "moved"
      PROVE  OwnKept'
  <2>1. ASSUME NEW i \in DOMAIN given
        PROVE  own[i] = IF given[i].form = "moved" /\ (rounds > 1 \/ i <= Len(binds'))
                        THEN Emptied ELSE given[i].value
    <3>1. own[i] = IF given[i].form = "moved" /\ (rounds > 1 \/ i <= Len(binds))
                   THEN Emptied ELSE given[i].value
      BY <1>1 DEF BindInv, OwnKept, BoundOnce
    <3>2. i <= Len(binds') <=> i <= Len(binds) \/ i = Argument
      BY <1>2, <1>3, <1>4
    <3>3. QED
      BY <1>4, <3>1, <3>2
  <2>2. QED
    BY <1>1, <1>4, <2>1 DEF OwnKept, BoundOnce
<1>5. ASSUME NEW s \in Store, Put(s, own[Argument]) PROVE Len(binds') = Len(binds) + 1
  BY <1>1, <1>5, OwnTyped, PutTyped
<1>6. CASE BindScalar
  <2>1. Put("scalars", own[Argument]) /\ own' = own /\ "scalars" \in Store
        /\ given[Argument].form # "moved"
    BY <1>6 DEF BindScalar, Store
  <2>2. QED
    BY <1>0, <1>1, <1>4, <1>5, <2>1, PutKeepsInv DEF BindInv
<1>7. CASE BindCopy
  <2>1. Put("strings", own[Argument]) /\ own' = own /\ "strings" \in Store
        /\ given[Argument].form # "moved"
    BY <1>7 DEF BindCopy, Store
  <2>2. QED
    BY <1>0, <1>1, <1>4, <1>5, <2>1, PutKeepsInv DEF BindInv
<1>8. CASE BindMove
  <2>1. Put("strings", own[Argument]) /\ own' = [own EXCEPT ![Argument] = Emptied]
        /\ given[Argument].form = "moved" /\ "strings" \in Store
    BY <1>8 DEF BindMove, Store
  <2>2. RoomForAll' /\ BindsLead'
    BY <1>1, <2>1, PutKeepsInv
  <2>3. Len(binds') = Len(binds) + 1
    BY <1>5, <2>1
  <2>4. ASSUME NEW i \in DOMAIN given
        PROVE  own'[i] = IF given[i].form = "moved" /\ (rounds > 1 \/ i <= Len(binds'))
                         THEN Emptied ELSE given[i].value
    <3>1. CASE i = Argument
      BY <1>2, <1>3, <2>1, <2>3, <3>1
    <3>2. CASE i # Argument
      <4>1. own'[i] = own[i]
        BY <1>3, <2>1, <3>2
      <4>2. own[i] = IF given[i].form = "moved" /\ (rounds > 1 \/ i <= Len(binds))
                     THEN Emptied ELSE given[i].value
        BY <1>1 DEF BindInv, OwnKept, BoundOnce
      <4>3. i <= Len(binds') <=> i <= Len(binds)
        BY <1>2, <1>3, <2>3, <3>2
      <4>4. QED
        BY <4>1, <4>2, <4>3
    <3>3. QED
      BY <3>1, <3>2
  <2>5. OwnKept'
    BY <1>1, <2>4 DEF OwnKept, BoundOnce
  <2>6. QED
    BY <1>0, <2>2, <2>5 DEF BindInv
<1>9. CASE BindNull
  <2>1. binds' = Append(binds, NullPointer) /\ UNCHANGED <<buffer, room, handed, own>>
        /\ given[Argument].form = "null" /\ NullPointer \in Pointer
    BY <1>9 DEF BindNull, NullPointer, Pointer
  <2>2. Len(binds') = Len(binds) + 1 /\ DOMAIN binds' = 1..Argument
        /\ binds'[Argument] = NullPointer /\ \A i \in DOMAIN binds : binds'[i] = binds[i]
    BY <1>2, <1>3, <2>1 DEF BindTypeOK
  <2>3. given[Argument].value = Null
    BY <1>2, <2>1 DEF BindTypeOK, Arg
  <2>4. Holds(buffer', NullPointer) /\ Read(buffer', NullPointer) = Null
    BY DEF Holds, Read, NullPointer, Store
  <2>5. \A i \in DOMAIN binds : Holds(buffer, binds[i])
    BY <1>1 DEF BindInv, BindsLead, Leads
  <2>6. Good(Null, Argument)
    BY <2>1, <2>3 DEF Good
  <2>7. BindsLead'
    BY <1>1, <2>1, <2>2, <2>4, <2>5, <2>6, OneMoreLeads
  <2>8. RoomForAll'
    <3>1. ASSUME NEW s \in Store PROVE Len(buffer[s]) <= Len(binds) + 1
      <4>1. Len(buffer[s]) <= Len(binds) /\ Len(buffer[s]) \in Nat
        BY <1>1 DEF BindInv, RoomForAll, BindTypeOK
      <4>2. QED
        BY <1>3, <4>1
    <3>2. QED
      BY <1>1, <2>1, <2>2, <3>1 DEF BindInv, RoomForAll
  <2>9. QED
    BY <1>0, <1>4, <2>1, <2>2, <2>7, <2>8 DEF BindInv
<1>10. QED
  BY <1>6, <1>7, <1>8, <1>9 DEF BindOne

LEMMA StartBindingKeeps ==
  ASSUME BindTypeOK, BindInv, NEW n, StartBinding(n), pc = "run", pc' = pc
  PROVE  BindInv' /\ Len(given') = n
<1>1. n = Len(given) /\ n \in Nat /\ phase = "given" /\ UNCHANGED <<given, own>>
  BY DEF StartBinding, Fits, BindTypeOK
<1>0. BindingIsAStage'
  BY DEF BindingIsAStage
<1>2. CASE n = 0
  <2>1. phase' = "bound" /\ handed' = <<>> /\ DOMAIN given = {} /\ given = <<>>
    <3>1. phase' = "bound" /\ handed' = <<>>
      BY <1>2 DEF StartBinding
    <3>2. given \in Seq(Arg) /\ Len(given) = 0
      BY <1>1, <1>2 DEF BindTypeOK
    <3>3. QED
      BY <3>1, <3>2
  <2>2. RoomForAll' /\ OwnKept'
    BY <1>1, <2>1 DEF RoomForAll, OwnKept
  <2>3. BindsLead'
    BY <2>1 DEF BindsLead
  <2>4. QED
    BY <1>0, <1>1, <2>2, <2>3 DEF BindInv
<1>3. CASE n # 0
  <2>1. phase' = "binding" /\ rounds' = rounds + 1 /\ buffer' = [s \in Store |-> <<>>]
        /\ room' = Reserved(n) /\ binds' = <<>>
    BY <1>1, <1>3 DEF StartBinding
  <2>2. \A s \in Store : room'[s] >= n
    BY <1>1, <2>1 DEF Reserved, BindTypeOK
  <2>3. \A s \in Store : Len(buffer'[s]) = 0 /\ Len(binds') = 0
    BY <2>1
  <2>4. RoomForAll'
    <3>1. ASSUME NEW s \in Store PROVE Len(buffer'[s]) <= Len(binds') /\ Len(given') <= room'[s]
      <4>1. room'[s] \in Nat
        BY <1>1, <2>1 DEF Reserved, BindTypeOK
      <4>2. QED
        BY <1>1, <2>2, <2>3, <4>1
    <3>2. QED
      BY <3>1 DEF RoomForAll
  <2>5. BindsLead'
    <3>1. DOMAIN binds' = {} /\ rounds' > 0
      BY <2>1 DEF BindTypeOK
    <3>2. QED
      BY <2>1, <3>1 DEF BindsLead
  <2>6. OwnKept'
    <3>1. rounds \in Nat /\ Len(binds') = 0
      BY <2>1 DEF BindTypeOK
    <3>2. ASSUME NEW i \in DOMAIN given
          PROVE  own[i] = IF given[i].form = "moved" /\ (rounds' > 1 \/ i <= Len(binds'))
                          THEN Emptied ELSE given[i].value
      <4>1. own[i] = IF given[i].form = "moved" /\ rounds > 0 THEN Emptied ELSE given[i].value
        BY <1>1 DEF BindInv, OwnKept, BoundOnce
      <4>2. ~(i <= Len(binds')) /\ (rounds' > 1 <=> rounds > 0)
        BY <1>1, <2>1, <3>1 DEF BindTypeOK
      <4>3. QED
        BY <4>1, <4>2
    <3>3. QED
      BY <1>1, <2>1, <3>2 DEF OwnKept, BoundOnce
  <2>7. QED
    BY <1>0, <1>1, <2>4, <2>5, <2>6 DEF BindInv
<1>4. QED
  BY <1>2, <1>3

LEMMA HandOverKeeps == BindTypeOK /\ BindInv /\ HandOver => BindInv'
<1> SUFFICES ASSUME BindTypeOK, BindInv, HandOver PROVE BindInv'
  OBVIOUS
<1>1. phase = "binding" /\ Len(binds) = Len(given) /\ phase' = "bound" /\ handed' = binds
      /\ UNCHANGED <<given, own, rounds, buffer, room>>
  BY DEF HandOver
<1>2. rounds > 0 /\ \A i \in DOMAIN binds : Leads(binds[i], i)
  BY <1>1 DEF BindInv, BindsLead
<1>3. BindsLead'
  BY <1>1, <1>2 DEF BindsLead, Leads, Good
<1>4. RoomForAll' /\ BindingIsAStage'
  BY <1>1 DEF RoomForAll, BindingIsAStage
<1>5. ASSUME NEW i \in DOMAIN given PROVE BoundOnce(i)
  BY <1>1 DEF BoundOnce, BindTypeOK
<1>6. \A i \in DOMAIN given :
        own[i] = IF given[i].form = "moved" THEN Emptied ELSE given[i].value
  BY <1>5 DEF BindInv, OwnKept
<1>7. OwnKept'
  BY <1>1, <1>2, <1>6 DEF OwnKept, BoundOnce
<1>8. QED
  BY <1>3, <1>4, <1>7 DEF BindInv

\* Outside of bind_fn: the call goes on, starts again, ends; or begins.
LEMMA OthersKeep ==
  ASSUME BindTypeOK, BindInv, BindingIsAStage',
         \/ BindAgain /\ pc # "run"
         \/ Release \/ NewVectors \/ StartCall \/ UNCHANGED bindVars
  PROVE  BindInv' /\ (UNCHANGED <<phase, given>> \/ phase' \notin {"binding", "bound"})
<1>1. CASE UNCHANGED bindVars
  BY <1>1 DEF bindVars, BindInv, RoomForAll, BindsLead, OwnKept, BoundOnce, Leads, Good
<1>2. CASE BindAgain /\ pc # "run"
  <2>1. phase' = "given" /\ UNCHANGED <<given, own, rounds, buffer, room, binds, handed>>
    BY <1>2 DEF BindAgain
  <2>2. phase # "binding" /\ rounds \in Nat
    BY <1>2 DEF BindInv, BindingIsAStage, BindTypeOK
  <2>3. ASSUME NEW i \in DOMAIN given
        PROVE  own[i] = IF given[i].form = "moved" /\ rounds > 0
                        THEN Emptied ELSE given[i].value
    <3>1. given # <<>>
      BY <2>3
    <3>2. phase = "given" \/ (phase = "bound" /\ rounds > 0)
      BY <2>2, <3>1 DEF BindInv, OwnKept, BindTypeOK
    <3>3. BoundOnce(i) <=> rounds > 0
      BY <3>2 DEF BoundOnce
    <3>4. QED
      BY <3>3 DEF BindInv, OwnKept
  <2>4. OwnKept'
    BY <2>1, <2>3 DEF OwnKept, BoundOnce
  <2>5. QED
    BY <2>1, <2>4 DEF BindInv, RoomForAll, BindsLead
<1>3. CASE Release
  <2>1. phase' = "none" /\ given' = <<>>
    BY <1>3 DEF Release
  <2>2. QED
    BY <2>1 DEF BindInv, RoomForAll, BindsLead, OwnKept
<1>4. CASE NewVectors
  <2>1. phase = "none" /\ UNCHANGED <<phase, given, own, rounds, buffer, binds, handed>>
    BY <1>4 DEF NewVectors
  <2>2. given' = <<>>
    BY <2>1 DEF BindInv, OwnKept
  <2>3. QED
    BY <2>1, <2>2 DEF BindInv, RoomForAll, BindsLead, OwnKept
<1>5. CASE StartCall
  <2>1. PICK args \in Arguments : Give(args)
    BY <1>5 DEF StartCall
  <2>2. /\ phase' = "given" /\ given' = args /\ rounds' = 0
        /\ own' = [i \in DOMAIN args |-> args[i].value]
    BY <2>1 DEF Give
  <2>3. QED
    BY <2>2 DEF BindInv, RoomForAll, BindsLead, OwnKept, BoundOnce
<1>6. QED
  BY <1>1, <1>2, <1>3, <1>4, <1>5

\* A step outside of bind_fn is one of those, and none leaves it half way.
LEMMA OtherSteps ==
  ASSUME BindInv, [CallNext]_allVars, ~BindStep
  PROVE  /\ BindingIsAStage'
         /\ \/ BindAgain /\ pc # "run"
            \/ Release \/ NewVectors \/ StartCall \/ UNCHANGED bindVars
<1>0. BindingIsAStage
  BY DEF BindInv
<1>1. CASE StartCall
  BY <1>1 DEF StartCall, Give, BindingIsAStage
<1>2. CASE CallStep
  <2>1. pc = "run" => pc' # "get"
    BY <1>2 DEF CallStep, Get, GetHits, GetPrepares, GetThrows, ResetSucceeds, ResetFails,
                RunSucceeds, RunFails, RunLosesAnswer, AttemptThrows, StoreSucceeds, StoreFails,
                Recovery, RecoverSucceeds, RecoverThrows, ReprepareSucceeds, ReprepareThrows,
                Fail, Goto, End
  <2>2. phase = "binding" => pc' = "idle"
    <3>1. phase = "binding" /\ CallStep => AttemptThrows
      BY <1>0 DEF BindingIsAStage, CallStep, Get, GetHits, GetPrepares, GetThrows,
                  ResetSucceeds, ResetFails, StoreSucceeds, StoreFails, Recovery,
                  RecoverSucceeds, RecoverThrows, ReprepareSucceeds, ReprepareThrows
    <3>2. QED
      BY <1>2, <3>1 DEF AttemptThrows, End
  <2>3. CASE pc' = "idle" /\ Release
    BY <2>3 DEF Release, BindingIsAStage
  <2>4. CASE pc' = "get" /\ BindAgain
    BY <2>1, <2>4 DEF BindAgain, BindingIsAStage
  <2>5. CASE pc' \notin {"idle", "get"} /\ UNCHANGED bindVars
    BY <2>2, <2>5 DEF bindVars, BindingIsAStage
  <2>6. QED
    BY <1>2, <2>3, <2>4, <2>5, Zenon DEF CallStep, Follow
<1>3. CASE MoveConnection
  BY <1>0, <1>3 DEF MoveConnection, NewVectors, BindingIsAStage
<1>4. CASE OutsideCalls
  BY <1>0, <1>4 DEF OutsideCalls, SessionEnds, Connect, Close, PingThrows, TextThrows, Transact,
                    DropResult, callVars, bindVars, BindingIsAStage
<1>5. CASE UNCHANGED allVars
  BY <1>0, <1>5 DEF allVars, vars, callVars, bindVars, BindingIsAStage
<1>6. QED
  BY <1>1, <1>2, <1>3, <1>4, <1>5, Zenon DEF CallNext

LEMMA BindInvKept == BindTypeOK /\ BindInv /\ [CallNext]_allVars => BindInv'
<1> SUFFICES ASSUME BindTypeOK, BindInv, [CallNext]_allVars PROVE BindInv'
  OBVIOUS
<1>1. CASE BindStep
  <2>1. pc = "run" /\ pc' = pc
    BY <1>1 DEF BindStep, vars, callVars
  <2>2. QED
    BY <1>1, <2>1, StartBindingKeeps, BindOneKeeps, HandOverKeeps DEF BindStep
<1>2. CASE ~BindStep
  BY <1>2, OtherSteps, OthersKeep
<1>3. QED
  BY <1>1, <1>2

-----------------------------------------------------------------------------
(* The statement of the call                                               *)

LEMMA SqlKept ==
  ASSUME [CallNext]_allVars
  PROVE  sql' = sql \/ phase' \notin {"binding", "bound"}
<1>1. CASE StartCall
  BY <1>1 DEF StartCall, Give
<1>2. CASE BindStep
  BY <1>2 DEF BindStep, vars, callVars
<1>3. CASE CallStep
  <2>1. pc' = "idle" \/ sql' = sql
    <3>1. CASE Get
      BY <3>1 DEF Get, GetHits, GetPrepares, GetThrows, End
    <3>2. CASE Attempt
      BY <3>2 DEF Attempt, ResetSucceeds, ResetFails, RunSucceeds, RunFails, RunLosesAnswer,
                  StoreSucceeds, StoreFails, AttemptThrows, Fail, Goto, End
    <3>3. CASE Recovery
      BY <3>3 DEF Recovery, RecoverSucceeds, RecoverThrows, ReprepareSucceeds, ReprepareThrows,
                  Goto, GoRound, End
    <3>4. QED
      BY <1>3, <3>1, <3>2, <3>3, Zenon DEF CallStep, Attempt
  <2>2. pc' = "idle" => phase' = "none"
    BY <1>3 DEF CallStep, Follow, Release
  <2>3. QED
    BY <2>1, <2>2
<1>4. CASE MoveConnection
  BY <1>4 DEF MoveConnection, vars, callVars
<1>5. CASE OutsideCalls
  BY <1>5 DEF OutsideCalls, SessionEnds, Connect, Close, PingThrows, TextThrows, Transact,
              DropResult, callVars
<1>6. CASE UNCHANGED allVars
  BY <1>6 DEF allVars, vars, callVars
<1>7. QED
  BY <1>1, <1>2, <1>3, <1>4, <1>5, <1>6 DEF CallNext

LEMMA FitKept == BindTypeOK /\ BindInv /\ ArgumentsFit /\ [CallNext]_allVars => ArgumentsFit'
<1> SUFFICES ASSUME BindTypeOK, BindInv, ArgumentsFit, [CallNext]_allVars PROVE ArgumentsFit'
  OBVIOUS
<1>1. CASE BindStep
  <2>1. sql' = sql /\ pc' = pc /\ pc = "run"
    BY <1>1 DEF BindStep, vars, callVars
  <2>2. CASE StartBinding(Params[sql])
    BY <2>1, <2>2, StartBindingKeeps DEF ArgumentsFit
  <2>3. CASE BindOne \/ HandOver
    BY <2>1, <2>3 DEF BindOne, HandOver, ArgumentsFit
  <2>4. QED
    BY <1>1, <2>2, <2>3 DEF BindStep
<1>2. CASE ~BindStep
  <2>1. UNCHANGED <<phase, given>> \/ phase' \notin {"binding", "bound"}
    BY <1>2, OtherSteps, OthersKeep
  <2>2. QED
    BY <2>1, SqlKept DEF ArgumentsFit
<1>3. QED
  BY <1>1, <1>2

\* Only a statement whose arguments are bound takes effect.
LEMMA EffectNeedsBinds ==
  ASSUME TypeOK, [CallNext]_allVars, HasEffect
  PROVE  phase = "bound"
<1>1. effects \in [first : Nat, retry : Nat]
  BY DEF TypeOK
<1>2. effects' # effects /\ effects' # NoEffect
  BY <1>1 DEF HasEffect, NoEffect
<1>3. CASE StartCall
  BY <1>2, <1>3 DEF StartCall, Call
<1>4. CASE CallStep
  BY <1>2, <1>4
     DEF CallStep, Get, GetHits, GetPrepares, GetThrows, ResetSucceeds, ResetFails, AttemptThrows,
         StoreSucceeds, StoreFails, Recovery, RecoverSucceeds, RecoverThrows, ReprepareSucceeds,
         ReprepareThrows, histVars
<1>5. CASE BindStep \/ MoveConnection \/ UNCHANGED allVars
  BY <1>2, <1>5 DEF BindStep, MoveConnection, allVars, vars, histVars
<1>6. CASE OutsideCalls
  BY <1>2, <1>6 DEF OutsideCalls, SessionEnds, Connect, Close, PingThrows, TextThrows, Transact,
                    DropResult, histVars
<1>7. QED
  BY <1>3, <1>4, <1>5, <1>6 DEF CallNext

LEMMA BoundMeansSent ==
  ASSUME BindTypeOK, BindInv, ArgumentsFit, phase = "bound"
  PROVE  /\ Len(Received) = Params[sql]
         /\ \A i \in DOMAIN given : Good(Received[i], i)
<1>1. PICK n \in Nat : n = Len(given) /\ n = Len(handed)
                      /\ DOMAIN given = 1..n /\ DOMAIN handed = 1..n
  BY DEF BindTypeOK
<1>2. Received = [i \in 1..n |-> Read(buffer, handed[i])]
  BY <1>1 DEF Received
<1>3. Len(Received) = n
  <2> DEFINE R(i) == Read(buffer, handed[i])
  <2> HIDE DEF R
  <2>1. Len([i \in 1..n |-> R(i)]) = n
    OBVIOUS
  <2>2. QED
    BY <1>2, <2>1 DEF R
<1>4. \A i \in 1..n : Good(Read(buffer, handed[i]), i)
  BY <1>1 DEF BindInv, BindsLead, Leads
<1>5. QED
  BY <1>1, <1>2, <1>3, <1>4 DEF ArgumentsFit

\* Whatever the number of parameters, the attempts and the losses of the session:
\* each argument is sent in its place, as the caller passed it, except that a
\* std::string&& is sent as moving has left it when it is bound a second time.
THEOREM ArgumentsAlwaysArrive == CallSpec => ArgumentsArrive
<1>1. CallInit => BindTypeOK /\ BindInv /\ ArgumentsFit
  <2> SUFFICES ASSUME CallInit PROVE BindTypeOK /\ BindInv /\ ArgumentsFit
    OBVIOUS
  <2>1. phase = "none" /\ given = <<>>
    BY DEF CallInit, BindInit
  <2>2. BindTypeOK
    BY BindInitTypeOK DEF CallInit
  <2>3. QED
    BY <2>1, <2>2 DEF BindInv, RoomForAll, BindsLead, OwnKept, BindingIsAStage, ArgumentsFit
<1>2. BindTypeOK /\ BindInv /\ ArgumentsFit /\ TypeOK /\ [CallNext]_allVars
        => [HasEffect =>
              /\ Len(Received) = Params[sql]
              /\ \A i \in DOMAIN given :
                    Received[i] = IF given[i].form = "moved" /\ rounds > 1
                                  THEN Emptied ELSE given[i].value]_allVars
  BY EffectNeedsBinds, BoundMeansSent DEF Good
<1>3. CallSpec => []TypeOK
  BY CallsAreCalls, TypeCorrect, PTL
<1>4. QED
  BY <1>1, <1>2, <1>3, BindTypeKept, BindInvKept, FitKept, PTL DEF CallSpec, ArgumentsArrive
-----------------------------------------------------------------------------
(* The work that is left                                                   *)

LEMMA StageRanks ==
  /\ Stages["idle"] = 0 /\ Stages["reprepare"] = 1 /\ Stages["recover"] = 2
  /\ Stages["store"] = 3 /\ Stages["run"] = 4 /\ Stages["reset"] = 5 /\ Stages["get"] = 6
  BY DEF Stages

\* A step of the call leaves fewer stages: what follows a failure has a lower
\* rank, and the only way back to the first stage spends the retry.
LEMMA CallStepAdvances ==
  ASSUME TypeOK, EffectsByStep, CallStep
  PROVE  StagesLeft' < StagesLeft
<1>0. pc \in PC /\ retried \in BOOLEAN
  BY TypeParts DEF CallTyped, FlagsTyped
<1>1. CASE GetHits \/ GetPrepares
  BY <1>0, <1>1, StageRanks DEF GetHits, GetPrepares, StagesLeft
<1>2. CASE GetThrows \/ AttemptThrows
  BY <1>0, <1>2, StageRanks DEF GetThrows, AttemptThrows, End, StagesLeft
<1>3. CASE ResetSucceeds \/ ResetFails
  BY <1>0, <1>3, StageRanks DEF ResetSucceeds, ResetFails, Fail, Goto, End, StagesLeft
<1>4. CASE RunSucceeds
  BY <1>0, <1>4, StageRanks DEF RunSucceeds, Goto, End, StagesLeft
<1>5. CASE RunFails \/ RunLosesAnswer
  BY <1>0, <1>5, StageRanks DEF RunFails, RunLosesAnswer, Fail, Goto, End, StagesLeft
<1>6. CASE StoreSucceeds \/ StoreFails
  BY <1>0, <1>6, StageRanks DEF StoreSucceeds, StoreFails, Fail, Goto, End, StagesLeft
<1>7. CASE RecoverSucceeds \/ RecoverThrows
  BY <1>0, <1>7, StageRanks DEF RecoverSucceeds, RecoverThrows, Goto, End, StagesLeft
<1>8. CASE ReprepareSucceeds
  <2>1. ~retried
    BY <1>8 DEF EffectsByStep, ReprepareSucceeds
  <2>2. QED
    BY <1>0, <1>8, <2>1, StageRanks DEF ReprepareSucceeds, GoRound, StagesLeft
<1>9. CASE ReprepareThrows
  BY <1>0, <1>9, StageRanks DEF ReprepareThrows, End, StagesLeft
<1>10. QED
  BY <1>1, <1>2, <1>3, <1>4, <1>5, <1>6, <1>7, <1>8, <1>9, Zenon DEF CallStep, Get, Recovery

\* A step of bind_fn stays in its stage and has one thing less to do.
LEMMA BindStepAdvances ==
  ASSUME BindTypeOK, BindStep
  PROVE  StagesLeft' = StagesLeft /\ BindsLeft' < BindsLeft
<1>1. pc' = pc /\ retried' = retried
  BY DEF BindStep, vars, callVars
<1>2. StagesLeft' = StagesLeft
  BY <1>1 DEF StagesLeft
<1>3. Len(given) \in Nat /\ Len(binds) \in Nat
      /\ (phase = "binding" => Len(binds) <= Len(given))
  BY DEF BindTypeOK
<1>4. CASE StartBinding(Params[sql])
  <2>1. phase = "given" /\ given' = given
        /\ (phase' = "bound" \/ (phase' = "binding" /\ binds' = <<>>))
    BY <1>4 DEF StartBinding
  <2>2. QED
    BY <1>2, <1>3, <2>1 DEF BindsLeft
<1>5. CASE BindOne
  <2>1. phase = "binding" /\ Len(binds) < Len(given) /\ UNCHANGED <<phase, given>>
    BY <1>5 DEF BindOne
  <2>2. Len(binds') = Len(binds) + 1
    <3>1. own[Argument] \in Content
      BY <2>1, OwnTyped
    <3>2. ASSUME NEW s \in Store, Put(s, own[Argument]) PROVE Len(binds') = Len(binds) + 1
      BY <2>1, <3>1, <3>2, PutTyped
    <3>3. CASE BindScalar \/ BindCopy \/ BindMove
      BY <3>2, <3>3 DEF BindScalar, BindCopy, BindMove, Store
    <3>4. CASE BindNull
      BY <3>4 DEF BindNull, BindTypeOK, NullPointer, Pointer
    <3>5. QED
      BY <1>5, <3>3, <3>4 DEF BindOne
  <2>3. QED
    BY <1>2, <1>3, <2>1, <2>2 DEF BindsLeft
<1>6. CASE HandOver
  <2>1. phase = "binding" /\ Len(binds) = Len(given) /\ phase' = "bound"
    BY <1>6 DEF HandOver
  <2>2. QED
    BY <1>2, <1>3, <2>1 DEF BindsLeft
<1>7. QED
  BY <1>4, <1>5, <1>6 DEF BindStep

\* Whatever the server does and however many parameters there are, each step of
\* a call brings it nearer to its end: at most two attempts, one recovery.
THEOREM CallsAlwaysAdvance == CallSpec => CallsAdvance
<1>1. TypeOK /\ BindTypeOK /\ EffectsByStep /\ [CallNext]_allVars
        => [pc # "idle" /\ <<pc, phase, binds>>' # <<pc, phase, binds>>
              => \/ StagesLeft' < StagesLeft
                 \/ StagesLeft' = StagesLeft /\ BindsLeft' < BindsLeft]_allVars
  <2> SUFFICES ASSUME TypeOK, BindTypeOK, EffectsByStep, [CallNext]_allVars,
                      pc # "idle", <<pc, phase, binds>>' # <<pc, phase, binds>>
               PROVE  \/ StagesLeft' < StagesLeft
                      \/ StagesLeft' = StagesLeft /\ BindsLeft' < BindsLeft
    OBVIOUS
  <2>1. CASE BindStep \/ CallStep
    BY <2>1, BindStepAdvances, CallStepAdvances
  <2>2. CASE StartCall \/ MoveConnection \/ UNCHANGED allVars
    BY <2>2 DEF StartCall, Call, MoveConnection, allVars, vars, callVars, bindVars
  <2>3. CASE OutsideCalls
    BY <2>3 DEF OutsideCalls, SessionEnds, Connect, Close, PingThrows, TextThrows, Transact,
                DropResult, callVars, bindVars
  <2>4. QED
    BY <2>1, <2>2, <2>3 DEF CallNext
<1>2. Init => EffectsByStep
  BY DEF Init, NoEffect, EffectsByStep
<1>3. Spec => []EffectsByStep
  BY <1>2, TypeCorrect, EffectsKept, PTL DEF Spec
<1>4. CallSpec => []TypeOK /\ []EffectsByStep
  BY <1>3, CallsAreCalls, TypeCorrect, PTL
<1>5. QED
  BY <1>1, <1>4, BindingTyped, PTL DEF CallSpec, CallsAdvance

-----------------------------------------------------------------------------
(* What holds of a connection, with the binding in it                      *)

\* The guarantees of PreparedConnection are those of the composition: whatever
\* a bind_fn does, it does not reach the session, the cache or the transaction.
THEOREM ConnectionGuarantees ==
  CallSpec => /\ []TypeOK /\ []CacheIsAMap /\ []StatementsAccounted
              /\ []CacheOfThisSession /\ []RetriedOnce
              /\ SuccessIsReal /\ OnlyRetryEscapes /\ ImplementsCache
  BY CallsAreCalls, TypeCorrect, CacheAlwaysAMap, NoStatementLeaks, CacheNeverStale,
     AtMostOneRetry, SuccessAlwaysReal, FirstAttemptsStayInside, DequeImplementsCache, PTL
=============================================================================
