---------------------------- MODULE ParamBinding ----------------------------
(***************************************************************************)
(* How the arguments of a prepared call reach libmysqlclient:              *)
(* prepare_and_bind_params() and the bind_param specialisations            *)
(* (src/include/fox-mysql/connection_prepared.hpp), and                    *)
(* bind_params_runtime() for a vector<Param> (src/src/connection.cpp).     *)
(*                                                                         *)
(* A bind is a pointer.  It points into one of two vectors that belong to  *)
(* the Connection, param_string_buffers_ and param_scalar_buffers_; these  *)
(* move when they grow beyond their capacity, and the pointers do not      *)
(* follow.  The library copies the binds and reads through them when the   *)
(* statement is executed, which is later, and perhaps a second time.       *)
(*                                                                         *)
(* The module describes the steps of binding.  PreparedCall puts them into *)
(* the calls of a connection.                                              *)
(***************************************************************************)
EXTENDS Naturals, Sequences

CONSTANTS
    Value,     \* what a caller may pass, up to its type
    Null,      \* SQL NULL
    Emptied,   \* the content of a std::string that was moved from
    Garbage    \* what is read through a pointer to freed memory

ASSUME ValueAssumption == {Null, Emptied, Garbage} \cap Value = {}

\* How an argument is given.  "scalar": int, long long, double, float.
\* "copied": a literal, a const char*, a string_view, an lvalue std::string, a
\* string in a vector<Param>.  "moved": an rvalue std::string.  "null": nullptr,
\* or a const char* that is null.
Form == {"scalar", "copied", "moved", "null"}

Arg == [form : Form \ {"null"}, value : Value] \cup [form : {"null"}, value : {Null}]

Store == {"strings", "scalars"}
Pointer == [to : Store \cup {"null", "freed"}, slot : Nat]
NullPointer == [to |-> "null", slot |-> 0]
Freed == [to |-> "freed", slot |-> 0]

VARIABLES
    \* the call
    phase,    \* "none", "given", "binding", "bound"
    given,    \* the arguments as the caller passed them
    own,      \* what the caller's objects contain now
    rounds,   \* how often bind_fn has begun to bind in this call
    \* the connection
    buffer,   \* param_string_buffers_ and param_scalar_buffers_
    room,     \* their capacities
    binds,    \* param_binds_, as far as it is filled
    \* the library
    handed    \* its copy of the binds

bindVars == <<phase, given, own, rounds, buffer, room, binds, handed>>

BindInit ==
    /\ phase = "none" /\ given = <<>> /\ own = <<>> /\ rounds = 0
    /\ buffer = [s \in Store |-> <<>>]
    /\ room = [s \in Store |-> 0]
    /\ binds = <<>> /\ handed = <<>>

\* What is read through a pointer when the vectors contain b.
Read(b, p) ==
    CASE p.to = "null" -> Null
      [] p.to = "freed" -> Garbage
      [] OTHER -> IF p.slot \in DOMAIN b[p.to] THEN b[p.to][p.slot] ELSE Garbage

\* The pointers of ps, after the vectors in S have moved their elements.
Loosened(ps, S) == [i \in DOMAIN ps |-> IF ps[i].to \in S THEN Freed ELSE ps[i]]

-----------------------------------------------------------------------------

\* execute_prepared() or query_prepared() is called with these arguments.
Give(args) ==
    /\ phase = "none"
    /\ phase' = "given" /\ given' = args
    /\ own' = [i \in DOMAIN args |-> args[i].value]
    /\ rounds' = 0
    /\ UNCHANGED <<buffer, room, binds, handed>>

\* The number of arguments against mysql_stmt_param_count().
AnyNumberFits(n) == n \in Nat
Fits(n) == Len(given) = n

\* reserve(n) makes room before the first element is put in.
NoReserve(n) == room
Reserved(n) == [s \in Store |-> IF room[s] < n THEN n ELSE room[s]]

\* Without arguments nothing is touched.
StartBinding(n) ==
    /\ phase = "given" /\ Fits(n)
    /\ IF n = 0
       THEN /\ phase' = "bound"
            /\ handed' = <<>>
            /\ UNCHANGED <<rounds, buffer, room, binds>>
       ELSE /\ phase' = "binding" /\ rounds' = rounds + 1
            /\ buffer' = [s \in Store |-> <<>>]
            /\ room' = Reserved(n)
            /\ binds' = <<>>
            /\ handed' = Loosened(handed, {s \in Store : room'[s] # room[s]})
    /\ UNCHANGED <<given, own>>

\* The arguments do not fit the statement: an exception, before anything moves.
Mismatch(n) == phase = "given" /\ ~Fits(n)

\* The slot was a static thread_local once, shared by all arguments of a type.
PutInSharedSlot(s, v) ==
    /\ buffer' = [buffer EXCEPT ![s] = <<v>>]
    /\ binds' = Append(binds, [to |-> s, slot |-> 1])
    /\ UNCHANGED <<room, handed>>

\* emplace_back() or push_back() on one of the vectors, which moves when full.
Put(s, v) ==
    LET moves == Len(buffer[s]) >= room[s]
        loose == IF moves THEN {s} ELSE {}
    IN  /\ buffer' = [buffer EXCEPT ![s] = Append(@, v)]
        /\ room' = IF moves THEN [room EXCEPT ![s] = 2 * @ + 1] ELSE room
        /\ binds' = Append(Loosened(binds, loose), [to |-> s, slot |-> Len(buffer[s]) + 1])
        /\ handed' = Loosened(handed, loose)

Argument == Len(binds) + 1

\* bind_param(), specialised for int, long long, double and float.
BindScalar ==
    /\ given[Argument].form = "scalar"
    /\ Put("scalars", own[Argument])
    /\ UNCHANGED own

\* ... for const char* and std::string_view.
BindCopy ==
    /\ given[Argument].form = "copied"
    /\ Put("strings", own[Argument])
    /\ UNCHANGED own

\* ... for std::string&&.
BindMove ==
    /\ given[Argument].form = "moved"
    /\ Put("strings", own[Argument])
    /\ own' = [own EXCEPT ![Argument] = Emptied]

\* ... for std::nullptr_t, and for a const char* that is null.
BindNull ==
    /\ given[Argument].form = "null"
    /\ binds' = Append(binds, NullPointer)
    /\ UNCHANGED <<buffer, room, handed, own>>

BindOne ==
    /\ phase = "binding" /\ Len(binds) < Len(given)
    /\ BindScalar \/ BindCopy \/ BindMove \/ BindNull
    /\ UNCHANGED <<phase, given, rounds>>

\* bind_parameters(): mysql_stmt_bind_param() copies the binds.  param_binds_ is
\* not read again before the next call has cleared it.
HandOver ==
    /\ phase = "binding" /\ Len(binds) = Len(given)
    /\ phase' = "bound"
    /\ handed' = binds /\ binds' = <<>>
    /\ UNCHANGED <<given, own, rounds, buffer, room>>

\* The loop goes round: bind_fn is going to be called again.
BindAgain ==
    /\ phase' = "given"
    /\ UNCHANGED <<given, own, rounds, buffer, room, binds, handed>>

\* The call returns or throws.  What the vectors and the library's binds still
\* contain is nobody's any more: here it is gone, so that a call which made use
\* of it would have nothing to send.  Only the capacity of the vectors stays.
Release ==
    /\ phase' = "none"
    /\ given' = <<>> /\ own' = <<>> /\ rounds' = 0
    /\ buffer' = [s \in Store |-> <<>>] /\ binds' = <<>> /\ handed' = <<>>
    /\ UNCHANGED room

\* Connection(Connection&&): the statements go to the new object, the vectors
\* that their binds point into do not.
NewVectors ==
    /\ phase = "none"
    /\ room' = [s \in Store |-> 0]
    /\ UNCHANGED <<phase, given, own, rounds, buffer, binds, handed>>

-----------------------------------------------------------------------------

\* What the server gets when it is sent the statement now.
Received == [i \in DOMAIN handed |-> Read(buffer, handed[i])]

\* Types, and how far a call in each phase has come.
BindTypeOK ==
    /\ phase \in {"none", "given", "binding", "bound"}
    /\ given \in Seq(Arg)
    /\ own \in Seq(Value \cup {Null, Emptied}) /\ Len(own) = Len(given)
    /\ rounds \in Nat
    /\ buffer \in [Store -> Seq(Value \cup {Null, Emptied})]
    /\ room \in [Store -> Nat]
    /\ binds \in Seq(Pointer) /\ handed \in Seq(Pointer)
    /\ phase = "binding" => Len(binds) <= Len(given)
    /\ phase = "bound" => Len(handed) = Len(given)
=============================================================================
