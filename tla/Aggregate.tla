----------------------------- MODULE Aggregate -----------------------------
(***************************************************************************)
(* What Promise.all, allSettled, any and race promise, without counters,   *)
(* vectors or flags.  A call collects elements until its iteration ends or *)
(* fails; elements report, in any order and as often as they like; the     *)
(* result is decided by the first event that decides it and never again.   *)
(***************************************************************************)
EXTENDS Integers, Sequences

CONSTANTS
    Values,      \* what an element may report
    Thrown       \* what a failed iteration rejects with

VARIABLES
    kind,        \* the combinator called
    status,      \* of its iteration: open, ended, failed
    size,        \* elements so far
    log,         \* the reports so far: [i, how, v]
    result       \* the promise returned: [state, value]

vars == <<kind, status, size, log, result>>

Pending == [state |-> "pending", value |-> << >>]

Init ==
    /\ kind \in {"all", "allSettled", "any", "race"}
    /\ status = "open" /\ size = 0 /\ log = << >> /\ result = Pending

\* Every element reported in one of the ways given.
Everyone(hows, n, l) == \A i \in 1..n : \E r \in DOMAIN l : l[r].i = i /\ l[r].how \in hows
Anyone(how, l) == \E r \in DOMAIN l : l[r].how = how

\* The first report of each element in one of the ways given.
First(i, hows, l) ==
    LET mine == {r \in DOMAIN l : l[r].i = i /\ l[r].how \in hows}
    IN  l[CHOOSE r \in mine : \A q \in mine : r <= q]
ByElement(hows, n, l) == [i \in 1..n |-> First(i, hows, l).v]
WithStatus(n, l) == [i \in 1..n |->
    LET r == First(i, {"fulfilled", "rejected"}, l) IN <<r.how, r.v>>]

\* The decision reached by status s, n elements and reports l, if any.
Decision(s, n, l) ==
    LET yes(v) == [state |-> "fulfilled", value |-> v]
        no(v) == [state |-> "rejected", value |-> v]
        last == l[Len(l)].v
        fulfils ==
            CASE kind = "all"        -> s = "ended" /\ Everyone({"fulfilled"}, n, l)
              [] kind = "allSettled" -> s = "ended" /\ Everyone({"fulfilled", "rejected"}, n, l)
              [] kind \in {"any", "race"} -> Anyone("fulfilled", l)
        rejects ==
            CASE kind \in {"all", "race"} -> Anyone("rejected", l)
              [] kind = "any"        -> s = "ended" /\ Everyone({"rejected"}, n, l)
              [] kind = "allSettled" -> FALSE
    IN  CASE s = "failed" -> no(Thrown)
          [] s # "failed" /\ fulfils ->
                yes(CASE kind = "all" -> ByElement({"fulfilled"}, n, l)
                      [] kind = "allSettled" -> WithStatus(n, l)
                      [] OTHER -> last)
          [] s # "failed" /\ ~fulfils /\ rejects ->
                no(IF kind = "any" THEN ByElement({"rejected"}, n, l) ELSE last)
          [] OTHER -> Pending

\* The result follows whatever happened, unless it was decided before.
Decide ==
    result' = IF result = Pending THEN Decision(status', size', log') ELSE result

AddElement ==
    /\ status = "open" /\ size' = size + 1
    /\ UNCHANGED <<kind, status, log, result>>

Report(i, how, v) ==
    /\ log' = Append(log, [i |-> i, how |-> how, v |-> v])
    /\ UNCHANGED <<kind, status, size>>
    /\ Decide

Finish(s) ==
    /\ status = "open" /\ status' = s
    /\ UNCHANGED <<kind, size, log>>
    /\ Decide

Next ==
    \/ AddElement
    \/ \E i \in 1..size, how \in {"fulfilled", "rejected"}, v \in Values : Report(i, how, v)
    \/ Finish("ended") \/ Finish("failed")

Spec == Init /\ [][Next]_vars
=============================================================================
