---------------------------- MODULE PreparedCall ----------------------------
(***************************************************************************)
(* A connection and the binding of arguments together: the bind_fn that    *)
(* execute_prepared_with() and query_prepared_with() call in every         *)
(* attempt, between mysql_stmt_reset() and mysql_stmt_execute()            *)
(* (src/include/fox-mysql/connection_prepared.hpp).                        *)
(*                                                                         *)
(* PreparedConnection decides how a call proceeds, ParamBinding what its   *)
(* bind_fn does; a step of the call outside of bind_fn leaves the binds    *)
(* alone.                                                                  *)
(***************************************************************************)
EXTENDS PreparedConnection, ParamBinding

CONSTANTS
    Params,      \* how many parameters each text has: mysql_stmt_param_count()
    Arguments    \* the argument lists that callers use

ASSUME ParamsAssumption == Params \in [Sql -> Nat]
ASSUME ArgumentsAssumption == Arguments \subseteq Seq(Arg)

allVars == <<vars, bindVars>>

CallInit == Init /\ BindInit

\* What a step of the call means for its arguments.
Follow ==
    \/ pc' = "idle" /\ Release
    \/ pc' = "get" /\ BindAgain
    \/ pc' \notin {"idle", "get"} /\ UNCHANGED bindVars

StartCall ==
    \E text \in Sql, rows \in BOOLEAN, args \in Arguments : Call(text, rows) /\ Give(args)

BindStep ==
    /\ pc = "run"
    /\ StartBinding(Params[sql]) \/ BindOne \/ HandOver
    /\ UNCHANGED vars

\* bind_fn throws if the numbers differ, or if mysql_stmt_bind_param() fails.
BindingMayThrow == Mismatch(Params[sql]) \/ (phase = "binding" /\ Len(binds) = Len(given))

CallStep ==
    /\ \/ Get \/ ResetSucceeds \/ ResetFails
       \/ phase = "bound" /\ (RunSucceeds \/ RunFails \/ RunLosesAnswer)
       \/ AttemptThrows /\ (pc = "run" => BindingMayThrow \/ phase = "bound")
       \/ StoreSucceeds \/ StoreFails \/ Recovery
    /\ Follow

\* Connection(Connection&&): for the statements and the session nothing but
\* the address of the Connection changes.
MoveConnection == pc = "idle" /\ NewVectors /\ UNCHANGED vars

OutsideCalls ==
    /\ \/ SessionEnds \/ Connect \/ Close \/ PingThrows \/ TextThrows
       \/ \E begins \in BOOLEAN : Transact(begins)
       \/ \E r \in Result : DropResult(r)
    /\ UNCHANGED bindVars

CallNext == StartCall \/ BindStep \/ CallStep \/ MoveConnection \/ OutsideCalls

CallSpec == CallInit /\ [][CallNext]_allVars

\* As in PreparedConnection; the steps of binding wait for nobody.
FairCallSpec == CallSpec /\ WF_allVars(BindStep \/ CallStep)

-----------------------------------------------------------------------------
(* Properties                                                              *)

\* Whenever a statement takes effect, the server has got as many arguments as
\* it has parameters, each in its place: no pointer dangles, no two arguments share
\* a slot, none is left over from another call, whatever attempt it is, and also
\* after the connection has been moved.  In the first binding of a call each is what
\* the caller passed; in a second one a std::string&& is what moving has left of
\* it (connection_prepared.hpp:293), all others are what the caller passed still
\* ("变参版行为与重构前一致", connection_prepared.hpp:13).
ArgumentsArrive ==
    [][HasEffect =>
          /\ Len(Received) = Params[sql]
          /\ \A i \in DOMAIN given :
                Received[i] = IF given[i].form = "moved" /\ rounds > 1
                              THEN Emptied ELSE given[i].value]_allVars

\* A call comes nearer to its end with every step it takes, whether the step
\* succeeds or fails: fewer stages of at most two attempts are left, or, in the
\* same stage, fewer arguments to bind.  The loop, the binding inside it and the
\* recovery cannot keep each other going ("可恢复错误重试一次").
Stages == [idle |-> 0, reprepare |-> 1, recover |-> 2, store |-> 3, run |-> 4,
           reset |-> 5, get |-> 6]
StagesLeft == Stages[pc] + IF retried \/ pc = "idle" THEN 0 ELSE 6
BindsLeft ==
    CASE phase = "given" -> Len(given) + 2
      [] phase = "binding" -> Len(given) - Len(binds) + 1
      [] OTHER -> 0

CallsAdvance ==
    [][pc # "idle" /\ <<pc, phase, binds>>' # <<pc, phase, binds>>
         => \/ StagesLeft' < StagesLeft
            \/ StagesLeft' = StagesLeft /\ BindsLeft' < BindsLeft]_allVars

\* "注意 bind_fn 在重试时会被再次调用, 因此它不能移走外部状态"
\* (connection_prepared.hpp:12): what an attempt sends does not depend on how
\* often bind_fn was called before.
EveryAttemptSendsTheSame ==
    [][HasEffect =>
          \A i \in DOMAIN given : Received[i] = given[i].value]_allVars
=============================================================================
