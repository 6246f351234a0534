------------------------------ MODULE Promises ------------------------------
(***************************************************************************)
(* Promises and the job queue (src/runtime/PromiseObject.cpp, Job.cpp,      *)
(* JobQueue.cpp, VMInstance.cpp and the constructor and then of             *)
(* src/builtins/BuiltinPromise.cpp), driven by arbitrary scripts.           *)
(*                                                                          *)
(* Script code runs in frames on a stack: the script itself, an executor, a *)
(* reaction handler, the getter of a "then" property, the then method of a  *)
(* user object.  In any of them it may make promises, call then, await,     *)
(* and call the resolving functions it was handed.  When the stack is empty *)
(* the job loop takes the next job; a frame "prompt" stands for the shell    *)
(* waiting for a script outside its job loop.                                *)
(*                                                                          *)
(* Promises, pairs of resolving functions ("records", named after the       *)
(* alreadyResolved record a pair shares) and reactions are numbered in the  *)
(* order they are made; 0 stands for none.  The constructors are the        *)
(* built-in ones (no subclasses) and Promise.prototype.then is not patched. *)
(*                                                                          *)
(* An operator whose name starts with Faulty is a plausible bug in the      *)
(* operator that follows it; the specification does not use it.             *)
(***************************************************************************)
EXTENDS Naturals, Sequences, FiniteSets

CONSTANTS
    Objects,     \* the objects scripts resolve with: "thenable", "accessor"
    ThenCalls,   \* pairs: which of the two arguments of a call of then is callable
    ScriptsThrow,\* whether a script may end with an uncaught exception
    MaxOps,      \* bound: operations of scripts that make new work
    MaxPromises, \* bound: promises, large enough for MaxOps
    MaxRecords   \* bound: pairs of resolving functions, large enough for MaxOps

ASSUME PromisesAssumption ==
    /\ Objects \subseteq {"thenable", "accessor"}
    /\ ThenCalls \subseteq BOOLEAN \X BOOLEAN
    /\ ScriptsThrow \in BOOLEAN
    /\ MaxOps \in Nat /\ MaxPromises \in Nat /\ MaxRecords \in Nat

VARIABLES
    np,        \* how many promises there are
    state,     \* PromiseObject::m_state
    result,    \* PromiseObject::m_promiseResult
    fulfillReactions, rejectReactions, \* the reactions of a pending promise
    nr,        \* how many pairs of resolving functions there are
    records,   \* the pairs: promise, alreadyResolved, known to script code
    jobs,      \* JobQueue::m_jobs
    stack,     \* the frames in which script code runs, innermost first
    unhandled, \* the promises a host knows as rejected without handler
    reg,       \* history: reg[i] is the promise reaction i was made for
    ran,       \* history: the reactions whose job was run
    follows,   \* history: the promise a promise was last resolved with
    ops        \* operations made so far

promiseVars == <<np, state, result, fulfillReactions, rejectReactions>>
vars == <<np, state, result, fulfillReactions, rejectReactions, nr, records, jobs,
          stack, unhandled, reg, ran, follows, ops>>

Promises == 1 .. MaxPromises
Records == 1 .. MaxRecords
Created == 1 .. np
States == {"Pending", "FulFilled", "Rejected"}

\* Values: a primitive, an error, a promise, an object with a then method and an
\* object whose "then" property is an accessor.
Primitive == [type |-> "primitive", promise |-> 0]
Error == [type |-> "error", promise |-> 0]
PromiseValue(p) == [type |-> "promise", promise |-> p]
ObjectValue(o) == [type |-> o, promise |-> 0]
Values == [type : {"primitive", "error", "promise", "thenable", "accessor"},
           promise : 0 .. MaxPromises]

\* What scripts resolve with; all but the primitive are objects that cost work.
Resolutions ==
    {Primitive} \cup {PromiseValue(p) : p \in Created} \cup {ObjectValue(o) : o \in Objects}

\* Handlers: Identity and Thrower stand for a handler that is not callable;
\* Resolve and Reject are the functions of a record.
Handlers == [kind : {"Identity", "Thrower", "User", "Resolve", "Reject"},
             rec : 0 .. MaxRecords]
Plain(kind) == [kind |-> kind, rec |-> 0]
Reaction(id, handler, cap) == [id |-> id, handler |-> handler, cap |-> cap]
Reactions == [id : Nat \ {0}, handler : Handlers, cap : 0 .. MaxRecords]

FaultyReactionJob(reaction, argument) ==    \* the outcome is not passed on
    [kind |-> "reaction", reaction |-> reaction, argument |-> Primitive, promise |-> 0]
ReactionJob(reaction, argument) ==
    [kind |-> "reaction", reaction |-> reaction, argument |-> argument, promise |-> 0]
NoReaction == Reaction(0, Plain("Identity"), 0)
ThenableJob(p, thenable) ==
    [kind |-> "thenable", reaction |-> NoReaction, argument |-> thenable, promise |-> p]
Job == [kind : {"reaction", "thenable"}, reaction : Reactions \cup {NoReaction},
        argument : Values, promise : 0 .. MaxPromises]

Frame(kind, r, value) == [kind |-> kind, rec |-> r, value |-> value]
Frames == [kind : {"prompt", "script", "executor", "handler", "native", "getter", "then"},
           rec : 0 .. MaxRecords, value : Values]

\* A record of createResolvingFunctions; exposed when script code gets the pair.
Record(p, exposed) == [promise |-> p, alreadyResolved |-> FALSE, exposed |-> exposed]

Init ==
    /\ np = 0 /\ nr = 0 /\ ops = 0
    /\ state = [p \in Promises |-> "Pending"]
    /\ result = [p \in Promises |-> Primitive]
    /\ fulfillReactions = [p \in Promises |-> <<>>]
    /\ rejectReactions = [p \in Promises |-> <<>>]
    /\ records = [r \in Records |-> Record(0, FALSE)]
    /\ jobs = <<>> /\ stack = <<Frame("prompt", 0, Primitive)>> /\ unhandled = {}
    /\ reg = <<>> /\ ran = {}
    /\ follows = [p \in Promises |-> 0]

-----------------------------------------------------------------------------
(* The operations of PromiseObject.  q is the job queue and st the stack     *)
(* before the operation.                                                     *)

\* The last reaction goes first; the reactions are cleared without being queued.
FaultyTriggered(q, reactions, v) ==
    q \o [i \in 1 .. Len(reactions) |-> ReactionJob(reactions[Len(reactions) + 1 - i], v)]
FaultyTriggeredNone(q, reactions, v) == q

\* triggerPromiseReactions.
Triggered(q, reactions, v) ==
    q \o [i \in 1 .. Len(reactions) |-> ReactionJob(reactions[i], v)]

ClearReactions(p) ==
    /\ fulfillReactions' = [fulfillReactions EXCEPT ![p] = <<>>]
    /\ rejectReactions' = [rejectReactions EXCEPT ![p] = <<>>]

\* PromiseObject::fulfill.
Fulfill(p, v, q) ==
    /\ state' = [state EXCEPT ![p] = "FulFilled"]
    /\ result' = [result EXCEPT ![p] = v]
    /\ jobs' = Triggered(q, fulfillReactions[p], v)
    /\ ClearReactions(p)
    /\ UNCHANGED unhandled

\* The test is the wrong way round.
FaultyHasRejectHandlers(p) == rejectReactions[p] = <<>>

HasRejectHandlers(p) == rejectReactions[p] # <<>>

\* PromiseObject::reject; without handlers the host is told.
Reject(p, v, q) ==
    /\ state' = [state EXCEPT ![p] = "Rejected"]
    /\ result' = [result EXCEPT ![p] = v]
    /\ jobs' = Triggered(q, rejectReactions[p], v)
    /\ ClearReactions(p)
    /\ unhandled' = IF HasRejectHandlers(p) THEN unhandled ELSE unhandled \cup {p}

KeepPromises == UNCHANGED <<state, result, fulfillReactions, rejectReactions, unhandled>>

\* PromiseObject::then: the reaction pair is kept, or its job is queued at once.
PerformThen(p, onFulfilled, onRejected, cap, q) ==
    LET id == Len(reg) + 1
    IN  /\ reg' = Append(reg, p)
        /\ UNCHANGED <<state, result>>
        /\ \/ /\ state[p] = "Pending"
              /\ fulfillReactions' = [fulfillReactions EXCEPT ![p] =
                                        Append(@, Reaction(id, onFulfilled, cap))]
              /\ rejectReactions' = [rejectReactions EXCEPT ![p] =
                                       Append(@, Reaction(id, onRejected, cap))]
              /\ jobs' = q
              /\ UNCHANGED unhandled
           \/ /\ state[p] = "FulFilled"
              /\ jobs' = Append(q, ReactionJob(Reaction(id, onFulfilled, cap), result[p]))
              /\ UNCHANGED <<fulfillReactions, rejectReactions, unhandled>>
           \/ /\ state[p] = "Rejected"
              /\ jobs' = Append(q, ReactionJob(Reaction(id, onRejected, cap), result[p]))
              /\ unhandled' = unhandled \ {p}
              /\ UNCHANGED <<fulfillReactions, rejectReactions>>

\* The pair can be used again.
FaultyUsed(r) == records

\* The pair has been used.
Used(r) == [records EXCEPT ![r].alreadyResolved = TRUE]

\* The thenable is taken for a plain value, or its job is not queued.
FaultyAdopt(p, x, q) ==
    /\ Fulfill(p, x, q)
    /\ follows' = [follows EXCEPT ![p] = x.promise]
FaultyAdoptNever(p, x, q) ==
    /\ jobs' = q /\ KeepPromises
    /\ follows' = [follows EXCEPT ![p] = x.promise]

\* p is resolved with the thenable x: it stays pending until the thenable's then
\* has been called, in a job of its own.
Adopt(p, x, q) ==
    /\ jobs' = Append(q, ThenableJob(p, x)) /\ KeepPromises
    /\ follows' = [follows EXCEPT ![p] = x.promise]

\* promiseResolveFunctions.  An accessor's getter is script code: the function
\* goes on when its frame ends.
CallResolve(r, x, q, st) ==
    LET p == records[r].promise
    IN  \/ /\ records[r].alreadyResolved
           /\ jobs' = q /\ stack' = st
           /\ KeepPromises /\ UNCHANGED <<records, follows>>
        \/ /\ ~records[r].alreadyResolved
           /\ records' = Used(r)
           /\ \/ /\ x = PromiseValue(p)              \* self resolution
                 /\ Reject(p, Error, q)
                 /\ stack' = st /\ UNCHANGED follows
              \/ /\ x.type = "primitive"
                 /\ Fulfill(p, x, q)
                 /\ stack' = st /\ UNCHANGED follows
              \/ /\ x.type \in {"promise", "thenable"} /\ x # PromiseValue(p)
                 /\ Adopt(p, x, q)
                 /\ stack' = st
              \/ /\ x.type = "accessor"
                 /\ stack' = <<Frame("getter", r, x)>> \o st
                 /\ jobs' = q /\ KeepPromises /\ UNCHANGED follows

\* The reject function does not look at alreadyResolved.
FaultyCallReject(r, x, q) ==
    /\ UNCHANGED follows
    /\ records' = Used(r)
    /\ Reject(records[r].promise, x, q)

\* promiseRejectFunctions.
CallReject(r, x, q) ==
    /\ UNCHANGED follows
    /\ \/ /\ records[r].alreadyResolved
          /\ jobs' = q
          /\ KeepPromises /\ UNCHANGED records
       \/ /\ ~records[r].alreadyResolved
          /\ records' = Used(r)
          /\ Reject(records[r].promise, x, q)

-----------------------------------------------------------------------------
(* What script code may do in its frame                                      *)

Top == Head(stack)
InScript == stack # <<>> /\ Top.kind \notin {"native", "prompt"}

\* An operation that makes new work.
Operation == ops < MaxOps /\ ops' = ops + 1

\* There is room for one more promise and for n more records.
Room(n) == np < MaxPromises /\ nr + n <= MaxRecords

\* Resolving with an object makes new work, with a primitive it does not.  Functions
\* that are used up (r = 0: no functions) do not look at the value.
Resolution(r, x) ==
    \/ x = Primitive /\ UNCHANGED ops
    \/ x # Primitive /\ r # 0 /\ ~records[r].alreadyResolved /\ Operation

\* new Promise(executor), up to the call of the executor.
NewPromise ==
    /\ InScript /\ Operation /\ Room(1)
    /\ np' = np + 1 /\ nr' = nr + 1
    /\ records' = [records EXCEPT ![nr + 1] = Record(np + 1, TRUE)]
    /\ stack' = <<Frame("executor", nr + 1, Primitive)>> \o stack
    /\ KeepPromises /\ UNCHANGED <<jobs, reg, ran, follows>>

\* What then() makes of a handler argument: a function, or the marker for the rest.
FaultyHandlerFor(callable, marker) ==    \* no marker
    IF callable THEN Plain("User") ELSE Plain("Undefined")
HandlerFor(callable, marker) == IF callable THEN Plain("User") ELSE Plain(marker)

\* Promise.prototype.then: the derived promise and its hidden functions, then the
\* reaction.
Then(p, call) ==
    /\ InScript /\ Operation /\ Room(1)
    /\ np' = np + 1 /\ nr' = nr + 1
    /\ records' = [records EXCEPT ![nr + 1] = Record(np + 1, FALSE)]
    /\ PerformThen(p, HandlerFor(call[1], "Identity"), HandlerFor(call[2], "Thrower"),
                   nr + 1, jobs)
    /\ UNCHANGED <<stack, ran, follows>>

\* await p: a reaction without capability.
Await(p) ==
    /\ InScript /\ Operation
    /\ PerformThen(p, Plain("User"), Plain("User"), 0, jobs)
    /\ UNCHANGED <<np, nr, records, stack, ran, follows>>

\* Script code calls a resolving function it was handed.
ScriptResolves(r, x) ==
    /\ InScript
    /\ records[r].exposed
    /\ Resolution(r, x)
    /\ CallResolve(r, x, jobs, stack)
    /\ UNCHANGED <<np, nr, reg, ran>>

ScriptRejects(r) ==
    /\ InScript
    /\ records[r].exposed
    /\ CallReject(r, Error, jobs)
    /\ UNCHANGED <<np, nr, stack, reg, ran, ops>>

-----------------------------------------------------------------------------
(* Frames end                                                                *)

\* The script ends and the job loop takes over.
ScriptEnds ==
    /\ stack # <<>> /\ Top.kind = "script"
    /\ stack' = Tail(stack)
    /\ KeepPromises /\ UNCHANGED <<np, nr, records, jobs, reg, ran, follows, ops>>

\* The script throws: the shell leaves evalScript without running the jobs.
ScriptThrows ==
    /\ ScriptsThrow
    /\ stack # <<>> /\ Top.kind = "script"
    /\ stack' = <<Frame("prompt", 0, Primitive)>>
    /\ KeepPromises /\ UNCHANGED <<np, nr, records, jobs, reg, ran, follows, ops>>

\* An executor or a then method returns: its value is ignored.
CalleeReturns ==
    /\ stack # <<>> /\ Top.kind \in {"executor", "then"}
    /\ stack' = Tail(stack)
    /\ KeepPromises /\ UNCHANGED <<np, nr, records, jobs, reg, ran, follows, ops>>

\* An executor or a then method throws: the reject function is called.
CalleeThrows ==
    /\ stack # <<>> /\ Top.kind \in {"executor", "then"}
    /\ CallReject(Top.rec, Error, jobs)
    /\ stack' = Tail(stack)
    /\ UNCHANGED <<np, nr, reg, ran, ops>>

\* A reaction handler returns x: the derived promise is resolved with it.
HandlerReturns(x) ==
    /\ stack # <<>> /\ Top.kind = "handler"
    /\ Resolution(Top.rec, x)
    /\ \/ /\ Top.rec # 0
          /\ CallResolve(Top.rec, x, jobs, Tail(stack))
       \/ /\ Top.rec = 0
          /\ stack' = Tail(stack)
          /\ KeepPromises /\ UNCHANGED <<records, jobs, follows>>
    /\ UNCHANGED <<np, nr, reg, ran>>

\* The error of a handler is dropped.
FaultyHandlerThrows ==
    /\ stack # <<>> /\ Top.kind = "handler"
    /\ stack' = Tail(stack)
    /\ KeepPromises /\ UNCHANGED <<np, nr, records, jobs, follows, reg, ran, ops>>

\* A reaction handler throws; without capability the job reports the error.
HandlerThrows ==
    /\ stack # <<>> /\ Top.kind = "handler"
    /\ stack' = Tail(stack)
    /\ \/ /\ Top.rec # 0
          /\ CallReject(Top.rec, Error, jobs)
       \/ /\ Top.rec = 0
          /\ KeepPromises /\ UNCHANGED <<records, jobs, follows>>
    /\ UNCHANGED <<np, nr, reg, ran, ops>>

\* A native handler has returned undefined.
NativeReturns ==
    /\ stack # <<>> /\ Top.kind = "native"
    /\ CallResolve(Top.rec, Primitive, jobs, Tail(stack))
    /\ UNCHANGED <<np, nr, reg, ran, ops>>

\* The rest of promiseResolveFunctions once the getter has given "then": a
\* function, something else, or an exception.
GetterEnds ==
    LET p == records[Top.rec].promise
    IN  /\ stack # <<>> /\ Top.kind = "getter"
        /\ stack' = Tail(stack)
        /\ \/ jobs' = Append(jobs, ThenableJob(p, Top.value)) /\ KeepPromises
           \/ Fulfill(p, Top.value, jobs)
           \/ Reject(p, Error, jobs)
        /\ UNCHANGED <<np, nr, records, reg, ran, follows, ops>>

-----------------------------------------------------------------------------
(* The job loop                                                              *)

\* VMInstance::executePendingJob: the job leaves the front of the queue.
NextJob(kind) == stack = <<>> /\ jobs # <<>> /\ Head(jobs).kind = kind

\* PromiseReactionJob::run up to the end or the call of a script handler.
RunReactionJob ==
    LET reaction == Head(jobs).reaction
        handler == reaction.handler
        argument == Head(jobs).argument
    IN  /\ NextJob("reaction")
        /\ ran' = ran \cup {reaction.id}
        /\ \/ /\ handler.kind = "Identity"
              /\ CallResolve(reaction.cap, argument, Tail(jobs), <<>>)
           \/ /\ handler.kind = "Thrower"
              /\ CallReject(reaction.cap, argument, Tail(jobs))
              /\ stack' = <<>>
           \/ /\ handler.kind = "User"
              /\ stack' = <<Frame("handler", reaction.cap, argument)>>
              /\ jobs' = Tail(jobs)
              /\ KeepPromises /\ UNCHANGED <<records, follows>>
           \/ /\ handler.kind = "Resolve"
              /\ CallResolve(handler.rec, argument, Tail(jobs),
                             <<Frame("native", reaction.cap, Primitive)>>)
           \/ /\ handler.kind = "Reject"
              /\ CallReject(handler.rec, argument, Tail(jobs))
              /\ stack' = <<Frame("native", reaction.cap, Primitive)>>
        /\ UNCHANGED <<np, nr, reg, ops>>

\* PromiseResolveThenableJob::run: new functions for the promise are handed to the
\* then method, that of Promise.prototype or one of a script.
RunThenableJob ==
    LET p == Head(jobs).promise
        thenable == Head(jobs).argument
    IN  /\ NextJob("thenable") /\ Room(2)
        /\ \/ /\ thenable.type = "promise"
              /\ np' = np + 1 /\ nr' = nr + 2
              /\ records' = [records EXCEPT ![nr + 1] = Record(p, FALSE),
                                            ![nr + 2] = Record(np + 1, FALSE)]
              /\ PerformThen(thenable.promise, [kind |-> "Resolve", rec |-> nr + 1],
                             [kind |-> "Reject", rec |-> nr + 1], nr + 2, Tail(jobs))
              /\ UNCHANGED stack
           \/ /\ thenable.type # "promise"
              /\ nr' = nr + 1
              /\ records' = [records EXCEPT ![nr + 1] = Record(p, TRUE)]
              /\ stack' = <<Frame("then", nr + 1, Primitive)>>
              /\ jobs' = Tail(jobs)
              /\ KeepPromises /\ UNCHANGED <<np, reg>>
        /\ UNCHANGED <<ran, follows, ops>>

\* The shell evaluates the next script: the queue is empty, or the last script
\* threw and its jobs wait for this one to end.
EvalScript ==
    /\ \/ stack = <<>> /\ jobs = <<>>
       \/ stack # <<>> /\ Top.kind = "prompt"
    /\ stack' = <<Frame("script", 0, Primitive)>>
    /\ KeepPromises /\ UNCHANGED <<np, nr, records, jobs, reg, ran, follows, ops>>

-----------------------------------------------------------------------------

Script ==
    \/ NewPromise
    \/ \E p \in Created : \/ Await(p)
                          \/ \E call \in ThenCalls : Then(p, call)
    \/ \E r \in 1 .. nr : ScriptRejects(r) \/ \E x \in Resolutions : ScriptResolves(r, x)

FrameEnds ==
    \/ ScriptEnds \/ ScriptThrows \/ CalleeReturns \/ CalleeThrows
    \/ \E x \in Resolutions : HandlerReturns(x)
    \/ HandlerThrows \/ NativeReturns \/ GetterEnds

RunJob == RunReactionJob \/ RunThenableJob

Next == Script \/ FrameEnds \/ RunJob \/ EvalScript

Spec == Init /\ [][Next]_vars

\* The job loop runs while there are jobs, and script code comes to an end.
FairSpec == Spec /\ WF_vars(RunJob) /\ WF_vars(FrameEnds)
-----------------------------------------------------------------------------
(* Correctness                                                              *)

\* Every variable has its type (PromiseObject.h, Job.h, JobQueue.h).
TypeOK ==
    /\ np \in 0 .. MaxPromises /\ nr \in 0 .. MaxRecords /\ ops \in Nat
    /\ state \in [Promises -> States]
    /\ result \in [Promises -> Values]
    /\ fulfillReactions \in [Promises -> Seq(Reactions)]
    /\ rejectReactions \in [Promises -> Seq(Reactions)]
    /\ records \in [Records -> [promise : 0 .. MaxPromises, alreadyResolved : BOOLEAN,
                               exposed : BOOLEAN]]
    /\ jobs \in Seq(Job) /\ stack \in Seq(Frames)
    /\ unhandled \subseteq Promises
    /\ reg \in Seq(Promises) /\ ran \subseteq Nat
    /\ follows \in [Promises -> 0 .. MaxPromises]

\* What can still settle promise p: an unused pair of resolving functions, a queued
\* thenable job that will make one, a getter that promiseResolveFunctions is in.
Unused(p) == {r \in 1 .. nr : records[r].promise = p /\ ~records[r].alreadyResolved}
Adoptions(p) == {i \in 1 .. Len(jobs) : jobs[i].kind = "thenable" /\ jobs[i].promise = p}
Getters(p) == {i \in 1 .. Len(stack) : stack[i].kind = "getter"
                                          /\ records[stack[i].rec].promise = p}

\* The reason fulfill and reject need not look at m_state: a pending promise has
\* exactly one thing that can settle it, a settled one has none, whatever script
\* code does in executors, handlers, getters and then methods.
OneResolver ==
    \A p \in Created :
      Cardinality(Unused(p)) + Cardinality(Adoptions(p)) + Cardinality(Getters(p))
        = IF state[p] = "Pending" THEN 1 ELSE 0

\* The functions of record r are held by a reaction of a promise, a job or a frame.
Holds(reaction, r) == reaction.cap = r \/ reaction.handler.rec = r
Held(r) ==
    \/ \E p \in Created : \E i \in 1 .. Len(fulfillReactions[p]) :
         Holds(fulfillReactions[p][i], r) /\ Holds(rejectReactions[p][i], r)
    \/ \E i \in 1 .. Len(jobs) : Holds(jobs[i].reaction, r)
    \/ \E i \in 1 .. Len(stack) : stack[i].rec = r

\* No derived or adopting promise is forgotten: as long as its resolving functions,
\* which no script can call, are unused, the engine still holds them.
HiddenFunctionsHeld ==
    \A r \in 1 .. nr :
      ~records[r].exposed /\ ~records[r].alreadyResolved => Held(r)

\* A settled promise keeps its state and its result.
SettledForever ==
    [][\A p \in Promises : state[p] # "Pending" =>
         state'[p] = state[p] /\ result'[p] = result[p]]_vars

\* Where reaction id is until its job has run: in the queue, or with its promise.
Queued(id) == \E i \in 1 .. Len(jobs) : jobs[i].reaction.id = id
Waits(id) ==
    \E i \in 1 .. Len(fulfillReactions[reg[id]]) : fulfillReactions[reg[id]][i].id = id

\* Every reaction is run at most once and none is lost or overtaken: one that then()
\* made has run, is queued or still waits for its promise, and is nowhere twice; those
\* of one promise run in the order of the calls of then(), whether queued or waiting.
ReactionsInOrder ==
    /\ \A id \in 1 .. Len(reg) : /\ id \notin ran <=> Queued(id) \/ Waits(id)
                                 /\ ~ (Queued(id) /\ Waits(id))
    /\ \A i \in ran : \A j \in 1 .. i : reg[j] = reg[i] => j \in ran
    /\ \A i, k \in 1 .. Len(jobs) :
         (i < k /\ jobs[i].kind = "reaction" /\ jobs[k].kind = "reaction"
            /\ reg[jobs[i].reaction.id] = reg[jobs[k].reaction.id])
           => jobs[i].reaction.id < jobs[k].reaction.id
    /\ \A p \in Created :
         /\ Len(rejectReactions[p]) = Len(fulfillReactions[p])
         /\ \A k \in 1 .. Len(fulfillReactions[p]) :
              /\ rejectReactions[p][k].id = fulfillReactions[p][k].id
              /\ \A i \in 1 .. k - 1 : fulfillReactions[p][i].id < fulfillReactions[p][k].id
              /\ \A i \in 1 .. Len(jobs) :
                   jobs[i].kind = "reaction" /\ reg[jobs[i].reaction.id] = p
                     => jobs[i].reaction.id < fulfillReactions[p][k].id

\* A queued reaction job carries the outcome of the promise it was made for: its
\* result, and a handler of the side the promise was settled on.
OutcomeDelivered ==
    \A i \in 1 .. Len(jobs) : jobs[i].kind = "reaction" =>
      LET p == reg[jobs[i].reaction.id]
          kind == jobs[i].reaction.handler.kind
      IN  /\ jobs[i].argument = result[p]
          /\ \/ state[p] = "FulFilled" /\ kind \in {"Identity", "Resolve", "User"}
             \/ state[p] = "Rejected" /\ kind \in {"Thrower", "Reject", "User"}

\* A promise that was last resolved with promise q settles after q and like q (unless
\* the value of q is an object that has to be asked for its then again).
AdoptsOutcome ==
    \A p \in Created :
      LET q == follows[p]
      IN  q # 0 /\ state[p] # "Pending" =>
            /\ state[q] # "Pending"
            /\ result[q].type # "accessor" => state[p] = state[q] /\ result[p] = result[q]

\* A host that collects PromiseRejectWithNoHandler and drops what is reported with
\* PromiseHandlerAddedAfterReject knows exactly the rejected promises then() was
\* never called for.
UnhandledExact ==
    unhandled = {p \in Created : state[p] = "Rejected"
                                    /\ \A i \in 1 .. Len(reg) : reg[i] # p}

\* A script threw and the shell waits for another one, with the jobs left in the queue.
AtPrompt == stack # <<>> /\ Top.kind = "prompt"

\* The reactions of a settled promise are run in the end, or the shell is left at its
\* prompt by a script that threw.
ReactionsRun ==
    \A i \in 1 .. MaxOps :
      (i <= Len(reg) /\ state[reg[i]] # "Pending") ~> (i \in ran \/ AtPrompt)

\* A promise that follows a settled one is settled in the end, or the shell is left at
\* its prompt by a script that threw.
FollowersSettle ==
    \A p, q \in Promises :
      (follows[p] = q /\ state[q] # "Pending" /\ result[q].type # "accessor")
        ~> (state[p] # "Pending" \/ AtPrompt)
=============================================================================
