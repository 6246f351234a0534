----------------------- MODULE AsyncGeneratorsProofs -----------------------
(***************************************************************************)
(* Proofs about AsyncGenerators: its continuations are unique and it        *)
(* implements Requests, for any bounds on requests and awaits.             *)
(***************************************************************************)
EXTENDS AsyncGenerators, SequenceTheorems, TLAPS

\* As long as the generator has not completed, every answer was a value.
ValuesFirst ==
    gstate \in {"SuspendedStart", "SuspendedYield", "Executing"} =>
        \A n \in DOMAIN answers : answers[n].how = "value"

AnswersTyped ==
    answers \in Seq([id : 1..MaxRequests, how : {"value", "done", "error"}])

\* The request of a return that waits for its value stays in the queue.
ReturnQueued == gstate = "AwaitingReturn" => queue # << >>

\* The inductive invariant.
GenInv == GenTypeOK /\ AnswersTyped /\ OneContinuation /\ ReturnQueued /\ ValuesFirst

\* What removing the oldest request and recording its answer does.
LEMMA AnswerStep ==
    ASSUME GenTypeOK, AnswersTyped, queue # << >>,
           NEW how \in {"value", "done", "error"}, Answer(how)
    PROVE  /\ queue' \in Seq([id : 1..MaxRequests, type : Types])
           /\ answers' \in Seq([id : 1..MaxRequests, how : {"value", "done", "error"}])
           /\ DOMAIN answers' = 1..(Len(answers) + 1)
           /\ \A n \in DOMAIN answers : answers'[n] = answers[n]
           /\ answers'[Len(answers) + 1].how = how
  <1>1. Head(queue) \in [id : 1..MaxRequests, type : Types] /\ Tail(queue) \in Seq([id : 1..MaxRequests, type : Types])
    BY HeadTailProperties DEF GenTypeOK
  <1>2. [id |-> Head(queue).id, how |-> how] \in [id : 1..MaxRequests, how : {"value", "done", "error"}]
    BY <1>1
  <1> QED
    BY <1>1, <1>2 DEF Answer, AnswersTyped

\* A new request never leaves the queue empty.
LEMMA EnqueueStep ==
    ASSUME GenTypeOK, NEW type \in Types, Enqueue(type)
    PROVE  /\ queue' \in Seq([id : 1..MaxRequests, type : Types])
           /\ queue' # << >>
           /\ asked' \in 0..MaxRequests
  <1>1. asked + 1 \in 1..MaxRequests /\ asked' = asked + 1
    BY AsyncGeneratorsAssumption DEF GenTypeOK, Enqueue
  <1>2. [id |-> asked + 1, type |-> type] \in [id : 1..MaxRequests, type : Types]
    BY <1>1
  <1>3. queue' = Append(queue, [id |-> asked + 1, type |-> type])
    BY DEF Enqueue
  <1>4. queue' \in Seq([id : 1..MaxRequests, type : Types]) /\ Len(queue') = Len(queue) + 1 /\ Len(queue) \in Nat
    BY <1>2, <1>3 DEF GenTypeOK
  <1> QED
    BY <1>1, <1>4 DEF GenTypeOK

LEMMA GenInvInit == GenInit => GenInv
  BY AsyncGeneratorsAssumption
  DEF GenInit, GenInv, GenTypeOK, AnswersTyped, OneContinuation, ReturnQueued, ValuesFirst, InBody

LEMMA GenInvNext == GenInv /\ [GenNext]_genVars => GenInv'
  <1> SUFFICES ASSUME GenInv, [GenNext]_genVars PROVE GenInv'
    OBVIOUS
  <1> USE AsyncGeneratorsAssumption DEF GenInv
  <1>1. ASSUME NEW type \in Types, Enqueue(type) PROVE GenInv'
    <2>1. queue' \in Seq([id : 1..MaxRequests, type : Types]) /\ queue' # << >> /\ asked' \in 0..MaxRequests
      BY <1>1, EnqueueStep
    <2>2. GenTypeOK' /\ AnswersTyped'
      BY <1>1, <2>1 DEF Enqueue, MustResume, GenTypeOK, AnswersTyped
    <2>3. OneContinuation'
      BY <1>1, <2>1 DEF Enqueue, MustResume, GenTypeOK, OneContinuation, InBody
    <2>4. ReturnQueued' /\ ValuesFirst'
      BY <1>1, <2>1 DEF Enqueue, ReturnQueued, ValuesFirst
    <2> QED
      BY <2>2, <2>3, <2>4
  <1>2. CASE ResumeNothing
    BY <1>2 DEF ResumeNothing, GenTypeOK, AnswersTyped, OneContinuation, ReturnQueued, ValuesFirst, InBody
  <1>3. CASE ResumeReturn
    BY <1>3 DEF ResumeReturn, ResumeReady, Finished, GenTypeOK, AnswersTyped, OneContinuation, ReturnQueued, ValuesFirst, InBody
  <1>4. CASE ResumeFinished
    <2> DEFINE how == IF Head(queue).type = "Throw" THEN "error" ELSE "done"
    <2>1. queue # << >> /\ Answer(how) /\ how \in {"value", "done", "error"}
      BY <1>4 DEF ResumeFinished, ResumeReady
    <2> HIDE DEF how
    <2>2. GenTypeOK' /\ AnswersTyped'
      BY <1>4, <2>1, AnswerStep DEF ResumeFinished, ResumeReady, GenTypeOK, AnswersTyped
    <2>3. OneContinuation' /\ ReturnQueued' /\ ValuesFirst'
      BY <1>4 DEF ResumeFinished, ResumeReady, GenTypeOK, OneContinuation, ReturnQueued, ValuesFirst, InBody
    <2> QED
      BY <2>2, <2>3
  <1>5. CASE ResumeBody
    BY <1>5 DEF ResumeBody, ResumeReady, Finished, GenTypeOK, AnswersTyped, OneContinuation, ReturnQueued, ValuesFirst, InBody
  <1>6. CASE BodyAwaits
    BY <1>6 DEF BodyAwaits, GenTypeOK, AnswersTyped, OneContinuation, ReturnQueued, ValuesFirst, InBody
  <1>7. CASE BodyYields
    <2>1. queue # << >> /\ Answer("value")
      BY <1>7 DEF BodyYields, OneContinuation, InBody
    <2>2. GenTypeOK' /\ AnswersTyped'
      BY <1>7, <2>1, AnswerStep DEF BodyYields, GenTypeOK, AnswersTyped
    <2>3. OneContinuation' /\ ReturnQueued'
      BY <1>7 DEF BodyYields, GenTypeOK, OneContinuation, ReturnQueued, InBody
    <2>4. ValuesFirst'
      <3>1. \A n \in DOMAIN answers : answers[n].how = "value"
        BY <1>7 DEF BodyYields, OneContinuation, InBody, ValuesFirst
      <3>2. \A n \in DOMAIN answers' : n = Len(answers) + 1 \/ n \in DOMAIN answers
        BY <2>1, AnswerStep DEF AnswersTyped
      <3> QED
        BY <2>1, <3>1, <3>2, AnswerStep DEF ValuesFirst
    <2> QED
      BY <2>2, <2>3, <2>4
  <1>8. CASE BodyEnds
    <2>1. PICK how \in {"done", "error"} : Answer(how)
      BY <1>8 DEF BodyEnds
    <2>2. queue # << >>
      BY <1>8 DEF BodyEnds, OneContinuation, InBody
    <2>3. GenTypeOK' /\ AnswersTyped'
      BY <1>8, <2>1, <2>2, AnswerStep DEF BodyEnds, GenTypeOK, AnswersTyped
    <2>4. OneContinuation' /\ ReturnQueued' /\ ValuesFirst'
      BY <1>8 DEF BodyEnds, GenTypeOK, OneContinuation, ReturnQueued, ValuesFirst, InBody
    <2> QED
      BY <2>3, <2>4
  <1>9. CASE AwaitReaction
    BY <1>9 DEF AwaitReaction, GenTypeOK, AnswersTyped, OneContinuation, ReturnQueued, ValuesFirst, InBody
  <1>10. CASE ReturnProcessor
    <2>1. PICK how \in {"done", "error"} : Answer(how)
      BY <1>10 DEF ReturnProcessor
    <2>2. queue # << >>
      BY <1>10 DEF ReturnProcessor, OneContinuation, GenTypeOK
    <2>3. GenTypeOK' /\ AnswersTyped'
      BY <1>10, <2>1, <2>2, AnswerStep DEF ReturnProcessor, GenTypeOK, AnswersTyped
    <2>4. OneContinuation' /\ ReturnQueued' /\ ValuesFirst'
      BY <1>10 DEF ReturnProcessor, GenTypeOK, OneContinuation, ReturnQueued, ValuesFirst, InBody
    <2> QED
      BY <2>3, <2>4
  <1>11. CASE UNCHANGED genVars
    BY <1>11 DEF genVars, GenTypeOK, AnswersTyped, OneContinuation, ReturnQueued, ValuesFirst, InBody
  <1> QED
    BY <1>1, <1>2, <1>3, <1>4, <1>5, <1>6, <1>7, <1>8, <1>9, <1>10, <1>11
    DEF GenNext, ResumeNext, Body, Reaction

LEMMA GenInvAlways == GenSpec => []GenInv
  BY GenInvInit, GenInvNext, PTL DEF GenSpec

\* The assertions of asyncGeneratorResumeNext, asyncGeneratorResolve and
\* asyncGeneratorReject hold wherever these are reached, and an idle generator
\* has exactly one continuation due or no request waiting.
THEOREM ContinuationIsUnique == GenSpec => []OneContinuation
  BY GenInvAlways, PTL DEF GenInv

\* Type correctness: the queue holds requests only, and a reaction of an await or a
\* return processor that was not made never runs.
THEOREM GenTypeCorrect == GenSpec => []GenTypeOK
  BY GenInvAlways, PTL DEF GenInv

\* An answer of the code is an answer of the abstract specification.
LEMMA AnswerRefines ==
    ASSUME GenInv, NEW how \in {"value", "done", "error"}, Answer(how), queue # << >>,
           asked' = asked, how # "value" \/ gstate = "Executing"
    PROVE  GenAbstract!Next
  BY DEF GenInv, ValuesFirst, Answer, GenAbstract!Answer, GenAbstract!Next

\* Every step of the code is a step or a stutter of the abstract specification.
LEMMA StepRefines == GenInv /\ [GenNext]_genVars => [GenAbstract!Next]_GenAbstract!vars
  <1> SUFFICES ASSUME GenInv, [GenNext]_genVars PROVE [GenAbstract!Next]_GenAbstract!vars
    OBVIOUS
  <1>1. ASSUME NEW type \in Types, Enqueue(type) PROVE GenAbstract!Next
    BY <1>1 DEF Enqueue, GenAbstract!Next, GenAbstract!Ask
  <1>2. CASE ResumeNothing \/ ResumeReturn \/ ResumeBody \/ BodyAwaits \/ AwaitReaction \/ UNCHANGED genVars
    BY <1>2 DEF ResumeNothing, ResumeReturn, ResumeBody, BodyAwaits, AwaitReaction, genVars, GenAbstract!vars
  <1>3. CASE ResumeFinished
    <2> DEFINE how == IF Head(queue).type = "Throw" THEN "error" ELSE "done"
    <2>1. queue # << >> /\ Answer(how) /\ how \in {"done", "error"} /\ asked' = asked
      BY <1>3 DEF ResumeFinished, ResumeReady
    <2> HIDE DEF how
    <2> QED
      BY <2>1, AnswerRefines
  <1>4. CASE BodyYields
    <2>1. queue # << >> /\ Answer("value") /\ asked' = asked /\ gstate = "Executing"
      BY <1>4 DEF BodyYields, GenInv, OneContinuation, InBody
    <2> QED
      BY <2>1, AnswerRefines
  <1>5. CASE BodyEnds
    <2>1. PICK how \in {"done", "error"} : Answer(how)
      BY <1>5 DEF BodyEnds
    <2>2. queue # << >> /\ asked' = asked
      BY <1>5 DEF BodyEnds, GenInv, OneContinuation, InBody
    <2> QED
      BY <2>1, <2>2, AnswerRefines
  <1>6. CASE ReturnProcessor
    <2>1. PICK how \in {"done", "error"} : Answer(how)
      BY <1>6 DEF ReturnProcessor
    <2>2. queue # << >> /\ asked' = asked
      BY <1>6 DEF ReturnProcessor, GenInv, OneContinuation, GenTypeOK
    <2> QED
      BY <2>1, <2>2, AnswerRefines
  <1> QED
    BY <1>1, <1>2, <1>3, <1>4, <1>5, <1>6 DEF GenNext, ResumeNext, Body, Reaction

\* The queue of the code implements the abstract queue: answers go to the oldest
\* request, once each, and no value follows the end of the generator
\* (asyncGeneratorResolve, asyncGeneratorReject).
THEOREM RequestsImplemented == GenSpec => ImplementsRequests
  <1>1. GenInit => GenAbstract!Init
    BY DEF GenInit, GenAbstract!Init
  <1> QED
    BY <1>1, StepRefines, GenInvAlways, PTL DEF GenSpec, ImplementsRequests, GenAbstract!Spec
=============================================================================
