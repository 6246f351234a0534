-------------------------- MODULE AsyncGenerators --------------------------
(***************************************************************************)
(* One async generator object: its request queue and state                 *)
(* (runtime/AsyncGeneratorObject.cpp) and the pausing and resuming of its   *)
(* body (runtime/ExecutionPauser.cpp, runtime/ScriptAsyncFunctionObject.cpp).*)
(*                                                                         *)
(* The functions call one another recursively: a yield resolves a request  *)
(* and resumes the next one before the pause it belongs to has ended.  As   *)
(* nothing the callers do afterwards touches the queue or the state, the   *)
(* recursion is the chain of control points below.  The body is arbitrary. *)
(* Two things script could do are left out: a then getter on               *)
(* Object.prototype, which would run in the middle of                      *)
(* asyncGeneratorResolve, and a return value whose constructor getter      *)
(* throws.                                                                 *)
(***************************************************************************)
EXTENDS Integers, Sequences

CONSTANTS
    MaxRequests,   \* bound on the calls of next, throw and return
    MaxAwaits      \* bound on the awaits of the body

ASSUME AsyncGeneratorsAssumption == MaxRequests \in Nat /\ MaxAwaits \in Nat

Types == {"Next", "Throw", "Return"}

VARIABLES
    gstate,        \* m_asyncGeneratorState
    queue,         \* m_asyncGeneratorQueue: [id, type]
    control,       \* idle: no code of the generator runs; resume: about to run
                   \* asyncGeneratorResumeNext; body, awaited: the body runs,
                   \* resumed by a request or by an await
    awaits,        \* reactions of awaits still to run
    processors,    \* return processors still to run
    asked,         \* requests so far
    answers,       \* answers given: [id, how]
    pauses         \* awaits so far

genVars == <<gstate, queue, control, awaits, processors, asked, answers, pauses>>

\* After GeneratorsInitialize.
GenInit ==
    /\ gstate = "SuspendedStart" /\ queue = << >> /\ control = "idle"
    /\ awaits = 0 /\ processors = 0
    /\ asked = 0 /\ answers = << >> /\ pauses = 0

InBody == control \in {"body", "awaited"}

\* asyncGeneratorEnqueue resumes unless the generator executes.
MustResume == gstate # "Executing"

\* asyncGeneratorEnqueue, called by any script code: also by the body itself.
Enqueue(type) ==
    /\ control \in {"idle", "body", "awaited"}
    /\ asked < MaxRequests /\ asked' = asked + 1
    /\ queue' = Append(queue, [id |-> asked + 1, type |-> type])
    /\ control' = IF MustResume THEN "resume" ELSE control
    /\ UNCHANGED <<gstate, awaits, processors, answers, pauses>>

\* The newest request is answered.
FaultyAnswer(how) ==
    /\ answers' = Append(answers, [id |-> queue[Len(queue)].id, how |-> how])
    /\ queue' = SubSeq(queue, 1, Len(queue) - 1)

\* asyncGeneratorResolve and asyncGeneratorReject up to their last call.
Answer(how) ==
    /\ answers' = Append(answers, [id |-> Head(queue).id, how |-> how])
    /\ queue' = Tail(queue)

\* asyncGeneratorResumeNext: nothing to do.
ResumeNothing ==
    /\ control = "resume"
    /\ gstate = "AwaitingReturn" \/ queue = << >>
    /\ control' = "idle"
    /\ UNCHANGED <<gstate, queue, awaits, processors, asked, answers, pauses>>

ResumeReady == control = "resume" /\ gstate # "AwaitingReturn" /\ queue # << >>

\* A generator that has not started is completed by an abrupt request.
Finished == \/ gstate = "Completed"
            \/ gstate = "SuspendedStart" /\ Head(queue).type # "Next"

\* The state does not say that a return waits.
FaultyResumeReturn ==
    /\ ResumeReady /\ Finished /\ Head(queue).type = "Return"
    /\ gstate' = "Completed"
    /\ processors' = processors + 1
    /\ control' = "idle"
    /\ UNCHANGED <<queue, awaits, asked, answers, pauses>>

\* A return on a completed generator waits for its value.
ResumeReturn ==
    /\ ResumeReady /\ Finished /\ Head(queue).type = "Return"
    /\ gstate' = "AwaitingReturn"
    /\ processors' = processors + 1
    /\ control' = "idle"
    /\ UNCHANGED <<queue, awaits, asked, answers, pauses>>

\* Another request on a completed generator is answered, and the next looked at.
ResumeFinished ==
    /\ ResumeReady /\ Finished /\ Head(queue).type # "Return"
    /\ gstate' = "Completed"
    /\ Answer(IF Head(queue).type = "Throw" THEN "error" ELSE "done")
    /\ UNCHANGED <<control, awaits, processors, asked, pauses>>

\* The body is resumed: ExecutionPauser::start.
ResumeBody ==
    /\ ResumeReady /\ ~Finished
    /\ gstate' = "Executing"
    /\ control' = "body"
    /\ UNCHANGED <<queue, awaits, processors, asked, answers, pauses>>

\* awaitOperationBeforePause and the pause for it.
BodyAwaits ==
    /\ InBody
    /\ pauses < MaxAwaits /\ pauses' = pauses + 1
    /\ awaits' = awaits + 1
    /\ control' = "idle"
    /\ UNCHANGED <<gstate, queue, processors, asked, answers>>

\* The functions of an await resume the body though its reaction has run.
FaultyAwaitReaction ==
    /\ control = "idle"
    /\ awaits' = awaits - 1
    /\ control' = "awaited"
    /\ UNCHANGED <<gstate, queue, processors, asked, answers, pauses>>

\* awaitFulfilledFunctions, awaitRejectedFunctions
AwaitReaction ==
    /\ control = "idle" /\ awaits > 0
    /\ awaits' = awaits - 1
    /\ control' = "awaited"
    /\ UNCHANGED <<gstate, queue, processors, asked, answers, pauses>>

\* A yield follows an await of its operand: pause, which resolves the request.
BodyYields ==
    /\ control = "awaited"
    /\ gstate' = "SuspendedYield"
    /\ Answer("value")
    /\ control' = "resume"
    /\ UNCHANGED <<awaits, processors, asked, pauses>>

\* The next request is not looked at.
FaultyBodyEnds ==
    /\ InBody
    /\ gstate' = "Completed"
    /\ \E how \in {"done", "error"} : Answer(how)
    /\ control' = "idle"
    /\ UNCHANGED <<awaits, processors, asked, pauses>>

\* The body ends, normally or by an exception: the end of ExecutionPauser::start.
BodyEnds ==
    /\ InBody
    /\ gstate' = "Completed"
    /\ \E how \in {"done", "error"} : Answer(how)
    /\ control' = "resume"
    /\ UNCHANGED <<awaits, processors, asked, pauses>>

\* asyncGeneratorResumeNextReturnProcessorFulfilledFunction and ...Rejected...
ReturnProcessor ==
    /\ control = "idle" /\ processors > 0
    /\ processors' = processors - 1
    /\ gstate' = "Completed"
    /\ \E how \in {"done", "error"} : Answer(how)
    /\ control' = "resume"
    /\ UNCHANGED <<awaits, asked, pauses>>

ResumeNext == ResumeNothing \/ ResumeReturn \/ ResumeFinished \/ ResumeBody
Body == BodyAwaits \/ BodyYields \/ BodyEnds
Reaction == AwaitReaction \/ ReturnProcessor

GenNext == (\E type \in Types : Enqueue(type)) \/ ResumeNext \/ Body \/ Reaction

GenSpec == GenInit /\ [][GenNext]_genVars

\* C++ code and the body run on; what the body awaits settles, and the host
\* runs the jobs.
GenFairness == WF_genVars(ResumeNext) /\ WF_genVars(Body) /\ WF_genVars(Reaction)
-----------------------------------------------------------------------------
(* Properties.                                                             *)

\* The queue and the state are what AsyncGeneratorObject.h declares, and no
\* reaction of an await and no return processor runs that was not made
\* (awaitFulfilledFunctions, asyncGeneratorResumeNextReturnProcessor...).
GenTypeOK ==
    /\ gstate \in {"Executing", "Completed", "AwaitingReturn", "SuspendedStart", "SuspendedYield"}
    /\ queue \in Seq([id : 1..MaxRequests, type : Types])
    /\ control \in {"idle", "resume", "body", "awaited"}
    /\ awaits \in Nat /\ processors \in Nat
    /\ asked \in 0..MaxRequests /\ pauses \in 0..MaxAwaits

\* The assertions of asyncGeneratorResumeNext ("Assert: state is not
\* "executing"") and of asyncGeneratorResolve and asyncGeneratorReject ("Assert:
\* queue is not an empty List") hold wherever the functions are reached; and
\* whenever no code of the generator runs, exactly one thing is due to wake it
\* up - an await's reaction or a return processor - or no request waits.
OneContinuation ==
    /\ control = "resume" =>
          /\ gstate # "Executing" /\ awaits = 0
          /\ processors = (IF gstate = "AwaitingReturn" THEN 1 ELSE 0)
    /\ InBody => gstate = "Executing" /\ queue # << >> /\ awaits + processors = 0
    /\ control = "idle" =>
          IF gstate \in {"Executing", "AwaitingReturn"}
          THEN /\ queue # << >>
               /\ awaits = (IF gstate = "Executing" THEN 1 ELSE 0)
               /\ awaits + processors = 1
          ELSE queue = << >> /\ awaits + processors = 0

GenAbstract == INSTANCE Requests

\* However requests, awaits, yields, jobs and the end of the body are
\* interleaved, requests are answered once each and in order, and no value is
\* yielded after the generator was done (asyncGeneratorResolve).
ImplementsRequests == GenAbstract!Spec

\* Every request is answered, also those queued behind a return that waits for
\* its value and those made by the body itself (asyncGeneratorResumeNext).
RequestsSettle ==
    \A id \in 1..MaxRequests :
        (asked >= id) ~> (\E n \in DOMAIN answers : answers[n].id = id)
=============================================================================
