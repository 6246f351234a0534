---------------------------- MODULE Combinators ----------------------------
(***************************************************************************)
(* One call of Promise.all, allSettled, any or race                        *)
(* (builtins/BuiltinPromise.cpp) and the functions it hands to its elements *)
(* (runtime/PromiseObject.cpp).                                            *)
(*                                                                         *)
(* The elements are arbitrary objects with a then method: they may call    *)
(* what they were given at once, later, repeatedly, both of a pair, and    *)
(* while the call still iterates, since the iterator, the resolve method   *)
(* of the constructor, every then and the iterator's return are script.    *)
(* The constructor is %Promise%: its capability takes the first outcome.   *)
(***************************************************************************)
EXTENDS Integers, Sequences

CONSTANTS
    Values,      \* what an element may report
    Thrown,      \* an exception of the script code called
    Undefined,   \* an entry of values that is not filled
    MaxElements, \* bound on what the iterator yields
    MaxReports   \* bound on the calls of the functions handed out

ASSUME CombinatorsAssumption ==
    /\ MaxElements \in Nat /\ MaxReports \in Nat
    /\ Thrown \notin Values /\ Undefined \notin Values

VARIABLES
    kind,          \* the combinator called
    phase,         \* the script code the call waits for, or returned
    done,          \* iteratorRecord->m_done
    failed,        \* an exception of script code cut the iteration short
    values,        \* values, or errors for any
    remaining,     \* *remainingElementsCount
    alreadyCalled, \* *alreadyCalled of each element
    result,        \* the promise of the capability
    size,          \* elements whose then was given functions
    log            \* the calls of those functions, for the abstract view

combVars == <<kind, phase, done, failed, values, remaining, alreadyCalled,
              result, size, log>>

CombInit ==
    /\ kind \in {"all", "allSettled", "any", "race"}
    /\ phase = "begin" /\ done = FALSE /\ failed = FALSE
    /\ values = << >> /\ remaining = 1 /\ alreadyCalled = << >>
    /\ result = [state |-> "pending", value |-> << >>]
    /\ size = 0 /\ log = << >>

\* The resolve and reject functions of the capability: the first call counts.
Settle(st, v) ==
    result' = IF result.state = "pending" THEN [state |-> st, value |-> v] ELSE result

\* The handler of the builtin: reject with the exception and return.
Catch(v) ==
    /\ Settle("rejected", v)
    /\ failed' = TRUE /\ phase' = "returned"

\* GetPromiseResolve and GetIterator.
Begin ==
    /\ phase = "begin"
    /\ \/ phase' = "step" /\ UNCHANGED <<failed, result>>
       \/ Catch(Thrown)
    /\ UNCHANGED <<kind, done, values, remaining, alreadyCalled, size, log>>

\* The element functions once the counter is zero: all and allSettled resolve
\* with the values, any rejects with an AggregateError of them.
Complete(vs) == IF kind = "any" THEN Settle("rejected", vs) ELSE Settle("fulfilled", vs)

\* iteratorStep and iteratorValue yield another value.
StepValue ==
    /\ phase = "step" /\ size < MaxElements
    /\ values' = IF kind = "race" THEN values ELSE Append(values, Undefined)
    /\ phase' = "resolve"
    /\ UNCHANGED <<kind, done, failed, remaining, alreadyCalled, result, size, log>>

\* iteratorStep or iteratorValue throws: the iterator is not closed again.
StepThrows ==
    /\ phase = "step"
    /\ done' = TRUE
    /\ Catch(Thrown)
    /\ UNCHANGED <<kind, values, remaining, alreadyCalled, size, log>>

\* The counter's own part is not taken back.
FaultyStepEnd ==
    /\ phase = "step"
    /\ done' = TRUE /\ phase' = "returned"
    /\ UNCHANGED <<kind, failed, values, remaining, alreadyCalled, result, size, log>>

\* The iterator is exhausted.  race keeps no counter.  any throws its
\* AggregateError to the handler, which finds the iterator done.
StepEnd ==
    LET left == remaining - 1 IN
    /\ phase = "step"
    /\ done' = TRUE /\ phase' = "returned"
    /\ remaining' = IF kind = "race" THEN remaining ELSE left
    /\ IF kind # "race" /\ left = 0 THEN Complete(values) ELSE UNCHANGED result
    /\ UNCHANGED <<kind, failed, values, alreadyCalled, size, log>>

\* Call(promiseResolve) and the new element functions, before then is called.
PromiseResolve ==
    /\ phase = "resolve"
    /\ \/ /\ phase' = "then" /\ size' = size + 1
          /\ remaining' = IF kind = "race" THEN remaining ELSE remaining + 1
          /\ alreadyCalled' = IF kind = "race" THEN alreadyCalled ELSE Append(alreadyCalled, FALSE)
       \/ phase' = "closing" /\ UNCHANGED <<size, remaining, alreadyCalled>>
    /\ UNCHANGED <<kind, done, failed, values, result, log>>

\* then returns, or throws.
ThenReturns ==
    /\ phase = "then"
    /\ phase' \in {"step", "closing"}
    /\ UNCHANGED <<kind, done, failed, values, remaining, alreadyCalled, result, size, log>>

\* iteratorClose with a throw completion throws: that completion, or what getting
\* the return method threw.
IteratorClose ==
    /\ phase = "closing"
    /\ Catch(Thrown)
    /\ UNCHANGED <<kind, done, values, remaining, alreadyCalled, size, log>>

\* The report goes through an element function rather than to the capability.
ThroughElement(how) ==
    \/ kind = "all" /\ how = "fulfilled"
    \/ kind = "any" /\ how = "rejected"
    \/ kind = "allSettled"

\* What the element function stores.
Stored(how, v) == IF kind = "allSettled" THEN <<how, v>> ELSE v

\* The promiseAll..., promiseAllSettled... and promiseAny...ElementFunction.
ElementFunction(i, how, v) ==
    LET filled == [values EXCEPT ![i] = Stored(how, v)]
        left == remaining - 1
    IN  IF alreadyCalled[i]
        THEN UNCHANGED <<alreadyCalled, values, remaining, result>>
        ELSE /\ alreadyCalled' = [alreadyCalled EXCEPT ![i] = TRUE]
             /\ values' = filled
             /\ remaining' = left
             /\ IF left = 0 THEN Complete(filled) ELSE UNCHANGED result

\* An element calls one of the two functions its then was given.
Report(i, how, v) ==
    /\ Len(log) < MaxReports
    /\ log' = Append(log, [i |-> i, how |-> how, v |-> v])
    /\ IF ThroughElement(how)
       THEN ElementFunction(i, how, v)
       ELSE Settle(how, v) /\ UNCHANGED <<alreadyCalled, values, remaining>>
    /\ UNCHANGED <<kind, phase, done, failed, size>>

CombNext ==
    \/ Begin \/ StepValue \/ StepThrows \/ StepEnd
    \/ PromiseResolve \/ ThenReturns \/ IteratorClose
    \/ \E i \in 1..size, how \in {"fulfilled", "rejected"}, v \in Values : Report(i, how, v)

CombSpec == CombInit /\ [][CombNext]_combVars
-----------------------------------------------------------------------------
(* Properties.                                                             *)

\* remainingElementsCount never goes below zero nor above one more than the
\* number of elements, whatever the elements report and how often
\* (promiseAllResolveElementFunction and the other element functions).
CombTypeOK ==
    /\ result.state \in {"pending", "fulfilled", "rejected"}
    /\ remaining \in 0..(MaxElements + 1)
    /\ alreadyCalled \in Seq(BOOLEAN) /\ Len(alreadyCalled) <= Len(values)

\* The iteration as the abstract specification sees it.
Status == IF phase # "returned" THEN "open" ELSE IF failed THEN "failed" ELSE "ended"

CombAbstract == INSTANCE Aggregate WITH status <- Status

\* The counter that starts at one, the flags and the vector of the code decide
\* every call as its definition by all reports says: at the report or the end
\* of the iteration that decides it, once, with every element's first report
\* in its place - though elements report repeatedly and while the call still
\* iterates, and the iteration fails at any point
\* (builtinPromiseAll and the element functions).
ImplementsAggregate == CombAbstract!Spec
=============================================================================
