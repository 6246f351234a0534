------------------------------ MODULE Requests ------------------------------
(***************************************************************************)
(* What an async generator promises to the script that drives it: every    *)
(* call of next, throw or return is a request; requests are answered one   *)
(* by one, in the order they were made; once an answer was not a yielded   *)
(* value, no later one is.                                                 *)
(***************************************************************************)
EXTENDS Integers, Sequences

CONSTANT Types       \* next, throw, return

VARIABLES
    queue,           \* unanswered requests: [id, type]
    asked,           \* requests so far
    answers          \* answers so far: [id, how]

vars == <<queue, asked, answers>>

Init == queue = << >> /\ asked = 0 /\ answers = << >>

Ask(type) ==
    /\ asked' = asked + 1
    /\ queue' = Append(queue, [id |-> asked + 1, type |-> type])
    /\ UNCHANGED answers

Answer(how) ==
    /\ queue # << >>
    /\ how = "value" => \A n \in DOMAIN answers : answers[n].how = "value"
    /\ answers' = Append(answers, [id |-> Head(queue).id, how |-> how])
    /\ queue' = Tail(queue)
    /\ UNCHANGED asked

Next == \/ \E type \in Types : Ask(type)
        \/ \E how \in {"value", "done", "error"} : Answer(how)

Spec == Init /\ [][Next]_vars
=============================================================================
