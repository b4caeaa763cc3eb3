--------------------------- MODULE StatementQueue ---------------------------
(***************************************************************************)
(* What Database::AsynchronousDatabase with one connection promises the    *)
(* game: statements are executed one at a time in the order in which they  *)
(* were issued, each answer waits until the callbacks are polled, in any   *)
(* order, and a close may drop what no worker has taken.                   *)
(***************************************************************************)
EXTENDS Sequences, Naturals

CONSTANTS Statements,  \* what can be issued
          Outcomes     \* what the server can answer

VARIABLES pending,     \* statements issued and not executed, in order
          answered     \* <<statement, outcome>>: executed, callback not run yet

vars == <<pending, answered>>

Init == pending = <<>> /\ answered = {}

Issue(statement) ==
    /\ pending' = Append(pending, statement)
    /\ UNCHANGED answered

Execute(outcome) ==
    /\ pending # <<>>
    /\ answered' = answered \cup {<<Head(pending), outcome>>}
    /\ pending' = Tail(pending)

Collect(answers) ==
    /\ answers \subseteq answered
    /\ answered' = answered \ answers
    /\ UNCHANGED pending

Drop ==
    /\ \E taken \in {0, 1} : taken <= Len(pending) /\ pending' = SubSeq(pending, 1, taken)
    /\ UNCHANGED answered

Next ==
    \/ \E statement \in Statements : Issue(statement)
    \/ \E outcome \in Outcomes : Execute(outcome)
    \/ \E answer \in answered : Collect({answer})
    \/ Drop

Spec == Init /\ [][Next]_vars
=============================================================================
