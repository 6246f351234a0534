------------------------------ MODULE Modules ------------------------------
(***************************************************************************)
(* Module linking and evaluation with top-level await                      *)
(* (parser/Script.cpp), dynamic import (interpreter/ByteCodeInterpreter.cpp)*)
(* and the host's side of it (api/EscargotPublic.cpp).                     *)
(*                                                                         *)
(* The C++ recursion over the import graph is an explicit stack of frames. *)
(* A frame that called the function of a requested module visits the same  *)
(* request again when the callee has returned; the callee's early returns  *)
(* make that second visit the continuation of the loop body.  The build is *)
(* the release one: an ASSERT that would fail does not stop the program.   *)
(*                                                                         *)
(* A scenario fixes what the host serves: the import graph, the kind of    *)
(* each module and what goes wrong when it is loaded or linked.            *)
(***************************************************************************)
EXTENDS Integers, FiniteSets, SequencesExt

CONSTANTS
    Module,      \* the modules the host can load
    None,        \* no module
    Scenarios,   \* [requests, kind, fault] records, one is chosen at the start
    HostCalls,   \* the ScriptRef functions the host uses: execute, instantiate, evaluate
    BodiesThrow, \* a module body may throw (a JSON module may not parse)
    MaxCalls     \* bound on import() and host calls together

Kinds == {"sync", "async", "json"}
Faults == {"none",       \* every import and re-export resolves
           "unresolved", \* resolveExport finds nothing, or is ambiguous
           "noDefault",  \* resolveExport throws for a missing "default"
           "notFound"}   \* the host cannot load the module

ASSUME ModulesAssumption ==
    /\ None \notin Module
    /\ MaxCalls \in Nat
    /\ BodiesThrow \in BOOLEAN
    /\ HostCalls \subseteq {"execute", "instantiate", "evaluate"}
    /\ \A s \in Scenarios :
          /\ s.requests \in [Module -> Seq(Module)]
          /\ s.kind \in [Module -> Kinds]
          /\ s.fault \in [Module -> Faults]
          /\ \A m \in Module : s.kind[m] = "json" => s.requests[m] = << >>
          /\ \A m \in Module : s.fault[m] \in {"unresolved", "noDefault"} => s.requests[m] # << >>

VARIABLES
    requests,   \* m_requestedModules, as the host resolves them
    kind,       \* topCodeBlock()->isAsync(), or no code block at all (JSON)
    fault,      \* what goes wrong when the module is loaded or linked
    loaded,     \* modules with m_didCallLoadedCallback
    md,         \* Script::ModuleData of every module
    frames,     \* C++ calls in progress, innermost first
    stack,      \* the stack of the walk in progress, last pushed first
    index,      \* the index of the walk in progress
    call,       \* who started the walk in progress
    jobs,       \* the job queue
    imports,    \* the promises returned by import()
    calls,      \* import() and host calls so far
    running,    \* suspended executions of each async module body
    runs,       \* times each body was started
    done,       \* modules whose body came to its end
    deps,       \* async dependencies each module ever registered with
    found,      \* the cycle root that a walk gave each module
    escaped,    \* an exception left asyncModuleFulfilled or asyncModuleRejected
    crashed     \* the program died: byte code or a code block was used that is not there

scenario == <<requests, kind, fault>>
env == <<requests, kind, fault, loaded>>
history == <<runs, done, deps, found>>
vars == <<requests, kind, fault, loaded, md, frames, stack, index, call, jobs, imports,
          calls, running, runs, done, deps, found, escaped, crashed>>

NoCall == [op |-> "none", m |-> None, p |-> 0]
Frame(f, m, i) == [fn |-> f, m |-> m, i |-> i]
Idle == frames = << >> /\ ~crashed
Top == Head(frames)
In(f) == ~crashed /\ frames # << >> /\ Top.fn = f

\* Initial ModuleData; a JSON module is created linked, with its record.
ModuleData(k, m) ==
    [status |-> IF k = "json" THEN "Linked" ELSE "Unlinked",
     error |-> FALSE, record |-> k = "json", dfsIndex |-> 0, dfsAncestorIndex |-> 0,
     cycleRoot |-> IF k = "json" THEN m ELSE None,
     asyncEvaluating |-> FALSE, topLevelCapability |-> "none",
     asyncParentModules |-> << >>, pendingAsyncDependencies |-> 0,
     asyncPendingPromises |-> << >>]

Init ==
    /\ \E s \in Scenarios : requests = s.requests /\ kind = s.kind /\ fault = s.fault
    /\ md = [m \in Module |-> ModuleData(kind[m], m)]
    /\ frames = << >> /\ stack = << >> /\ index = 0 /\ call = NoCall
    /\ jobs = << >> /\ imports = << >> /\ calls = 0
    /\ running = [m \in Module |-> 0]
    /\ runs = [m \in Module |-> 0] /\ done = {} /\ deps = [m \in Module |-> 0]
    /\ loaded = {} /\ found = [m \in Module |-> md[m].cycleRoot]
    /\ escaped = FALSE /\ crashed = FALSE

isExecuted(m) == md[m].status \in {"Evaluating", "Evaluated"}

\* The promises named by ps get the state st.
Settled(ps, st) == [p \in DOMAIN imports |->
    IF p \in ps THEN [imports[p] EXCEPT !.state = st] ELSE imports[p]]

-----------------------------------------------------------------------------
(* import() and the host's answer to it.                                   *)

\* notifyHostImportModuleDynamicallyResult: the error of an executed module is
\* looked at here, the script itself runs in the job.
Import(m) ==
    /\ Idle
    /\ calls < MaxCalls /\ calls' = calls + 1
    /\ imports' = Append(imports, [m |-> m, state |-> "queued"])
    /\ LET fails == fault[m] = "notFound" \/ (isExecuted(m) /\ md[m].error)
       IN  jobs' = Append(jobs, [fn |-> IF fails THEN "importRejected" ELSE "importResolved",
                                 m |-> m, p |-> Len(imports) + 1])
    /\ loaded' = IF fault[m] = "notFound" THEN loaded ELSE loaded \union {m}
    /\ UNCHANGED <<scenario, md, frames, stack, index, call, running, history, escaped, crashed>>

\* callDynamicImportRejected
ImportRejected ==
    /\ Idle /\ jobs # << >> /\ Head(jobs).fn = "importRejected"
    /\ imports' = Settled({Head(jobs).p}, "rejected")
    /\ jobs' = Tail(jobs)
    /\ UNCHANGED <<env, calls, md, frames, stack, index, call, running, history, escaped, crashed>>

\* An import() never waits for an async module.
FaultyImportReturns(m, p, data) ==
    md' = data /\ imports' = Settled({p}, "fulfilled")

\* The second half of callDynamicImportResolved, when the script has run.
ImportReturns(m, p, data) ==
    IF data[m].asyncEvaluating
    THEN /\ md' = [data EXCEPT ![m].asyncPendingPromises = Append(@, p)]
         /\ imports' = Settled({p}, "waiting")
    ELSE /\ md' = data
         /\ imports' = Settled({p}, "fulfilled")

\* callDynamicImportResolved: execute the script unless it was executed.
ImportResolved ==
    LET j == Head(jobs) IN
    /\ Idle /\ jobs # << >> /\ j.fn = "importResolved"
    /\ jobs' = Tail(jobs)
    /\ IF isExecuted(j.m)
       THEN ImportReturns(j.m, j.p, md) /\ UNCHANGED <<frames, call>>
       ELSE /\ call' = [op |-> "import", m |-> j.m, p |-> j.p]
            /\ frames' = <<Frame("moduleLinking", j.m, 1)>>
            /\ UNCHANGED <<md, imports>>
    /\ index' = 0 /\ stack' = << >>
    /\ UNCHANGED <<env, calls, running, history, escaped, crashed>>

\* ScriptRef::execute, moduleInstantiate and moduleEvaluate.  The guards are
\* what the functions require of their caller.
HostMayCall(op, m) ==
    /\ Idle
    /\ calls < MaxCalls
    /\ op \in HostCalls /\ fault[m] # "notFound"
    /\ CASE op = "execute"     -> md[m].status \in {"Unlinked", "Linked"}
         [] op = "instantiate" -> md[m].status \in {"Unlinked", "Linked", "Evaluated"}
         [] op = "evaluate"    -> md[m].status \in {"Linked", "Evaluated"}

\* execute and moduleInstantiate make sure that the loaded callback was called, with the
\* context of the module's code block; a JSON module has none.
NoContext(op, m) == op # "evaluate" /\ kind[m] = "json" /\ m \notin loaded

HostCall(op, m) ==
    /\ HostMayCall(op, m) /\ ~NoContext(op, m)
    /\ calls' = calls + 1
    /\ loaded' = IF op = "evaluate" THEN loaded ELSE loaded \union {m}
    /\ call' = [op |-> op, m |-> m, p |-> 0]
    /\ frames' = <<IF op = "evaluate" THEN Frame("moduleEvaluation", m, 0)
                                      ELSE Frame("moduleLinking", m, 1)>>
    /\ index' = 0 /\ stack' = << >>
    /\ UNCHANGED <<scenario, md, jobs, imports, running, history, escaped, crashed>>

HostCallDies(op, m) ==
    /\ HostMayCall(op, m) /\ NoContext(op, m)
    /\ calls' = calls + 1
    /\ crashed' = TRUE
    /\ UNCHANGED <<env, md, frames, stack, index, call, jobs, imports, running, history, escaped>>

\* The call in progress ends with the module data given; an import() settles.
CallReturns(data) ==
    /\ frames' = << >> /\ stack' = << >> /\ index' = 0 /\ call' = NoCall
    /\ IF call.op = "import" THEN ImportReturns(call.m, call.p, data)
                             ELSE md' = data /\ UNCHANGED imports

\* ... or with an exception, which the sandbox of an import() turns into a
\* rejection and the host's own call sees.
CallThrows(data) ==
    /\ frames' = << >> /\ stack' = << >> /\ index' = 0 /\ call' = NoCall
    /\ md' = data
    /\ imports' = IF call.op = "import" THEN Settled({call.p}, "rejected") ELSE imports

-----------------------------------------------------------------------------
(* Linking.                                                                *)

NeedsLink(m) == md[m].status \notin {"Linking", "Linked", "Evaluated"}

\* The head of innerModuleLinking and of innerModuleEvaluation.
Enter(f, m, st) ==
    /\ md' = [md EXCEPT ![m].status = st,
                        ![m].dfsIndex = index, ![m].dfsAncestorIndex = index]
    /\ index' = index + 1
    /\ stack' = <<m>> \o stack
    /\ frames' = <<Frame(f, m, 1)>> \o frames

\* The stack down to m: what the loop at the end of a walk function pops.
Popped(m) == SubSeq(stack, 1, CHOOSE i \in DOMAIN stack : stack[i] = m)
AfterPop(m) == SubSeq(stack, Len(Popped(m)) + 1, Len(stack))
IsCycleRoot(m) == md[m].dfsAncestorIndex = md[m].dfsIndex

\* moduleLinking: the entry module has been walked, or needs no walk.
LinkCall ==
    /\ In("moduleLinking")
    /\ IF NeedsLink(Top.m)
       THEN Enter("innerModuleLinking", Top.m, "Linking") /\ UNCHANGED <<call, imports>>
       ELSE IF call.op = "instantiate"
       THEN CallReturns(md)
       ELSE /\ frames' = <<Frame("moduleEvaluation", Top.m, 0)>>
            /\ index' = 0 /\ stack' = << >>
            /\ UNCHANGED <<md, call, imports>>
    /\ UNCHANGED <<env, calls, jobs, running, history, escaped, crashed>>

\* The ancestor index of a request that is being linked is ignored.
FaultyLinkRequest ==
    LET m == Top.m
        r == requests[m][Top.i]
    IN  /\ In("innerModuleLinking")
        /\ Top.i <= Len(requests[m])
        /\ IF fault[r] = "notFound"
           THEN CallThrows(md)
           ELSE IF NeedsLink(r)
           THEN Enter("innerModuleLinking", r, "Linking") /\ UNCHANGED <<call, imports>>
           ELSE /\ frames' = <<Frame(Top.fn, m, Top.i + 1)>> \o Tail(frames)
                /\ UNCHANGED <<md, stack, index, call, imports>>
        /\ loaded' = IF fault[r] = "notFound" THEN loaded ELSE loaded \union {r}
        /\ UNCHANGED <<scenario, calls, jobs, running, history, escaped, crashed>>

\* One request of innerModuleLinking.
LinkRequest ==
    LET m == Top.m
        r == requests[m][Top.i]
    IN  /\ In("innerModuleLinking")
        /\ Top.i <= Len(requests[m])
        /\ IF fault[r] = "notFound"
           THEN CallThrows(md)                       \* loadModuleFromScript
           ELSE IF NeedsLink(r)
           THEN Enter("innerModuleLinking", r, "Linking") /\ UNCHANGED <<call, imports>>
           ELSE /\ md' = IF md[r].status = "Linking" /\ md[r].dfsAncestorIndex < md[m].dfsAncestorIndex
                         THEN [md EXCEPT ![m].dfsAncestorIndex = md[r].dfsAncestorIndex]
                         ELSE md
                /\ frames' = <<Frame(Top.fn, m, Top.i + 1)>> \o Tail(frames)
                /\ UNCHANGED <<stack, index, call, imports>>
        /\ loaded' = IF fault[r] = "notFound" THEN loaded ELSE loaded \union {r}
        /\ UNCHANGED <<scenario, calls, jobs, running, history, escaped, crashed>>

\* The walk is not undone.
FaultyUnlink(data) == data

\* moduleLinking undoes a walk that returned an error.
Unlink(data) == [m \in Module |->
    IF m \in ToSet(stack)
    THEN [data[m] EXCEPT !.status = "Unlinked", !.record = FALSE,
                         !.dfsIndex = 0, !.dfsAncestorIndex = 0]
    ELSE data[m]]

\* The end of innerModuleLinking: moduleInitializeEnvironment, then the pop.
\* A missing "default" is thrown out of resolveExport; the record exists then
\* when an import asked for it, not yet when a re-export did.
LinkEnd ==
    LET m == Top.m
        made == [md EXCEPT ![m].record = TRUE]
    IN  /\ In("innerModuleLinking")
        /\ Top.i > Len(requests[m])
        /\ \/ fault[m] = "unresolved" /\ CallThrows(Unlink(md))
           \/ fault[m] = "noDefault" /\ \E data \in {md, made} : CallThrows(data)
           \/ /\ fault[m] \notin {"unresolved", "noDefault"}
              /\ IF IsCycleRoot(m)
                 THEN /\ md' = [x \in Module |-> IF x \in ToSet(Popped(m))
                                  THEN [made[x] EXCEPT !.status = "Linked"] ELSE made[x]]
                      /\ stack' = AfterPop(m)
                 ELSE md' = made /\ UNCHANGED stack
              /\ frames' = Tail(frames)
              /\ UNCHANGED <<index, call, imports>>
        /\ UNCHANGED <<env, calls, jobs, running, history, escaped, crashed>>

-----------------------------------------------------------------------------
(* Evaluation.                                                             *)

NeedsEvaluation(m) == md[m].status \notin {"Evaluating", "Evaluated"}

\* moduleEvaluation up to the walk.
EvaluateCall ==
    LET m == Top.m
        rooted == IF md[m].status = "Evaluated" THEN [md EXCEPT ![m].cycleRoot = m] ELSE md
    IN  /\ In("moduleEvaluation") /\ Top.i = 0
        /\ IF md[m].topLevelCapability # "none"
           THEN CallReturns(rooted)
           ELSE /\ md' = [rooted EXCEPT ![m].topLevelCapability = "pending"]
                /\ frames' = <<Frame("moduleEvaluation", m, 1)>>
                /\ UNCHANGED <<stack, index, call, imports>>
        /\ UNCHANGED <<env, calls, jobs, running, history, escaped, crashed>>

\* moduleEvaluation after a walk that returned an error.
FailWalk ==
    CallThrows([m \in Module |->
        [md[m] EXCEPT !.status = IF m \in ToSet(stack) THEN "Evaluated" ELSE @,
                      !.error = @ \/ m \in ToSet(stack),
                      !.topLevelCapability = IF m = call.m THEN "rejected" ELSE @]])

\* moduleEvaluation around the walk.  An index of zero says that there was none:
\* an error found then is an earlier one.  A JSON module keeps the error of its
\* own walk to itself.
EvaluateReturns ==
    LET m == Top.m IN
    /\ In("moduleEvaluation") /\ Top.i = 1
    /\ IF NeedsEvaluation(m)
       THEN /\ Enter("innerModuleEvaluation", m, "Evaluating")
            /\ UNCHANGED <<call, imports>>
       ELSE IF index = 0 /\ md[m].error
       THEN FailWalk
       ELSE CallReturns(IF md[m].asyncEvaluating THEN md
                        ELSE [md EXCEPT ![m].topLevelCapability = "resolved"])
    /\ UNCHANGED <<env, calls, jobs, running, history, escaped, crashed>>

\* An evaluated module stands for itself, though its cycle may not be complete.
FaultyStandsFor(r) == r

\* The module that a requested one is awaited through.
StandsFor(r) == IF md[r].status = "Evaluating" THEN r ELSE md[r].cycleRoot

\* One request of innerModuleEvaluation.  An evaluated module stands for the
\* root of its cycle; one that is being evaluated for itself.
EvaluateRequest ==
    LET m == Top.m
        r == requests[m][Top.i]
        q == StandsFor(r)
        anc == IF q = r /\ md[r].status = "Evaluating" /\ md[r].dfsAncestorIndex < md[m].dfsAncestorIndex
               THEN md[r].dfsAncestorIndex ELSE md[m].dfsAncestorIndex
    IN  /\ In("innerModuleEvaluation")
        /\ Top.i <= Len(requests[m])
        /\ IF fault[r] = "notFound"
           THEN CallThrows(md) /\ UNCHANGED deps
           ELSE IF NeedsEvaluation(r)
           THEN /\ Enter("innerModuleEvaluation", r, "Evaluating")
                /\ UNCHANGED <<call, imports, deps>>
           ELSE IF md[r].status = "Evaluated" /\ (md[r].error \/ md[q].error)
           THEN FailWalk /\ UNCHANGED deps
           ELSE /\ md' = [md EXCEPT
                      ![m].dfsAncestorIndex = anc,
                      ![m].pendingAsyncDependencies = @ + IF md[q].asyncEvaluating THEN 1 ELSE 0,
                      ![q].asyncParentModules = IF md[q].asyncEvaluating THEN Append(@, m) ELSE @]
                /\ deps' = [deps EXCEPT ![m] = @ + IF md[q].asyncEvaluating THEN 1 ELSE 0]
                /\ frames' = <<Frame(Top.fn, m, Top.i + 1)>> \o Tail(frames)
                /\ UNCHANGED <<stack, index, call, imports>>
        /\ loaded' = IF fault[r] = "notFound" THEN loaded ELSE loaded \union {r}
        /\ UNCHANGED <<scenario, calls, jobs, running, runs, done, found, escaped, crashed>>

\* Every module of a cycle becomes its own root.
FaultyPopCycle(m, data) ==
    /\ IF IsCycleRoot(m)
       THEN /\ md' = [x \in Module |-> IF x \in ToSet(Popped(m))
                        THEN [data[x] EXCEPT !.status = "Evaluated", !.cycleRoot = x] ELSE data[x]]
            /\ found' = [x \in Module |-> IF x \in ToSet(Popped(m)) THEN x ELSE found[x]]
            /\ stack' = AfterPop(m)
       ELSE md' = data /\ UNCHANGED <<stack, found>>
    /\ frames' = Tail(frames)
    /\ UNCHANGED <<index, call, imports>>

\* The end of innerModuleEvaluation: pop the cycle the module is the root of.
PopCycle(m, data) ==
    /\ IF IsCycleRoot(m)
       THEN /\ md' = [x \in Module |-> IF x \in ToSet(Popped(m))
                        THEN [data[x] EXCEPT !.status = "Evaluated", !.cycleRoot = m] ELSE data[x]]
            /\ found' = [x \in Module |-> IF x \in ToSet(Popped(m)) THEN m ELSE found[x]]
            /\ stack' = AfterPop(m)
       ELSE md' = data /\ UNCHANGED <<stack, found>>
    /\ frames' = Tail(frames)
    /\ UNCHANGED <<index, call, imports>>

AtEvaluateEnd == In("innerModuleEvaluation") /\ Top.i > Len(requests[Top.m])

\* A JSON module: a parse error is kept, the walk goes on.
EvaluateSynthetic ==
    LET m == Top.m IN
    /\ AtEvaluateEnd /\ kind[m] = "json"
    /\ \E fails \in {FALSE, BodiesThrow} :
          /\ PopCycle(m, [md EXCEPT ![m].error = @ \/ fails])
          /\ done' = IF fails THEN done ELSE done \union {m}
    /\ runs' = [runs EXCEPT ![m] = @ + 1]
    /\ UNCHANGED <<env, calls, jobs, running, deps, escaped, crashed>>

\* A module that waits for an async dependency does not run yet.
EvaluateDeferred ==
    LET m == Top.m IN
    /\ AtEvaluateEnd /\ kind[m] # "json" /\ md[m].pendingAsyncDependencies > 0
    /\ PopCycle(m, [md EXCEPT ![m].asyncEvaluating = TRUE])
    /\ UNCHANGED <<env, calls, jobs, running, runs, done, deps, escaped, crashed>>

\* moduleExecuteAsyncModule: the body runs to its first await.
EvaluateAsync ==
    LET m == Top.m IN
    /\ AtEvaluateEnd /\ kind[m] = "async" /\ md[m].pendingAsyncDependencies = 0
    /\ PopCycle(m, [md EXCEPT ![m].asyncEvaluating = TRUE])
    /\ running' = [running EXCEPT ![m] = @ + 1]
    /\ runs' = [runs EXCEPT ![m] = @ + 1]
    /\ UNCHANGED <<env, calls, jobs, done, deps, escaped, crashed>>

\* moduleExecute of a module without top-level await.
EvaluateSync ==
    LET m == Top.m IN
    /\ AtEvaluateEnd /\ kind[m] = "sync" /\ md[m].pendingAsyncDependencies = 0
    /\ runs' = [runs EXCEPT ![m] = @ + 1]
    /\ \/ PopCycle(m, md) /\ done' = done \union {m}
       \/ BodiesThrow /\ FailWalk /\ UNCHANGED <<done, found>>
    /\ UNCHANGED <<env, calls, jobs, running, deps, escaped, crashed>>

-----------------------------------------------------------------------------
(* Top-level await: completion of async bodies.                            *)

\* The awaited body ends and its promise's reaction becomes a job.
BodyEnds(m) ==
    /\ Idle /\ running[m] > 0
    /\ running' = [running EXCEPT ![m] = @ - 1]
    /\ \E fails \in {FALSE, BodiesThrow} :
          /\ jobs' = Append(jobs, [fn |-> IF fails THEN "asyncModuleRejected" ELSE "asyncModuleFulfilled",
                                   m |-> m, p |-> 0])
          /\ done' = IF fails THEN done ELSE done \union {m}
    /\ UNCHANGED <<env, calls, md, frames, stack, index, call, imports, runs, deps, found, escaped, crashed>>

\* asyncModuleFulfilledFunction and asyncModuleRejectedFunction
BodyJob ==
    LET j == Head(jobs) IN
    /\ Idle /\ jobs # << >> /\ j.fn \in {"asyncModuleFulfilled", "asyncModuleRejected"}
    /\ frames' = <<Frame(j.fn, j.m, 0)>>
    /\ jobs' = Tail(jobs)
    /\ UNCHANGED <<env, calls, md, stack, index, call, imports, running, history, escaped, crashed>>

\* asyncModuleFulfilled before its loop; nothing to do unless async evaluating.
FulfilledBegin ==
    /\ In("asyncModuleFulfilled") /\ Top.i = 0
    /\ IF md[Top.m].asyncEvaluating
       THEN /\ md' = [md EXCEPT ![Top.m].asyncEvaluating = FALSE]
            /\ frames' = <<Frame(Top.fn, Top.m, 1)>> \o Tail(frames)
       ELSE UNCHANGED md /\ frames' = Tail(frames)
    /\ UNCHANGED <<env, calls, stack, index, call, jobs, imports, running, history, escaped, crashed>>

\* "m_pendingAsyncDependencies &&" asks the Optional whether it has a value.
ReadyToRun(data, q) == ~data[q].error

\* One parent of a module that was fulfilled.  A sync body drops its byte code
\* when it has run: a second execution has none.
FulfilledParent ==
    LET m == Top.m
        q == md[m].asyncParentModules[Top.i]
        data == [md EXCEPT ![q].pendingAsyncDependencies = @ - 1]
        rest == <<Frame(Top.fn, m, Top.i + 1)>> \o Tail(frames)
    IN  /\ In("asyncModuleFulfilled") /\ Top.i \in 1..Len(md[m].asyncParentModules)
        /\ IF ~ReadyToRun(data, q)
           THEN /\ md' = data /\ frames' = rest
                /\ UNCHANGED <<running, runs, done, crashed>>
           ELSE IF data[q].cycleRoot = None          \* an empty Optional
           THEN /\ crashed' = TRUE
                /\ UNCHANGED <<md, frames, running, runs, done>>
           ELSE IF data[data[q].cycleRoot].error
           THEN /\ md' = data /\ frames' = Tail(frames)
                /\ UNCHANGED <<running, runs, done, crashed>>
           ELSE /\ runs' = [runs EXCEPT ![q] = @ + 1]
                /\ IF kind[q] = "async"
                   THEN /\ md' = [data EXCEPT ![q].asyncEvaluating = TRUE]
                        /\ running' = [running EXCEPT ![q] = @ + 1]
                        /\ frames' = rest /\ UNCHANGED <<done, crashed>>
                   ELSE /\ md' = data
                        /\ UNCHANGED running
                        /\ crashed' = (runs[q] > 0)
                        /\ \E fails \in {FALSE, BodiesThrow} :
                              /\ frames' = <<Frame(IF fails THEN "asyncModuleRejected"
                                                            ELSE "asyncModuleFulfilled", q, 0)>> \o rest
                              /\ done' = IF fails THEN done ELSE done \union {q}
        /\ UNCHANGED <<env, calls, stack, index, call, jobs, imports, deps, found, escaped>>

\* The promises are forgotten.
FaultyFulfilledEnd ==
    LET m == Top.m IN
    /\ In("asyncModuleFulfilled") /\ Top.i > Len(md[m].asyncParentModules)
    /\ md' = [md EXCEPT ![m].asyncPendingPromises = << >>]
    /\ frames' = Tail(frames)
    /\ UNCHANGED <<env, calls, stack, index, call, jobs, imports, running, history, escaped, crashed>>

\* After the parents: the import() calls that wait for this module.
FulfilledEnd ==
    LET m == Top.m IN
    /\ In("asyncModuleFulfilled") /\ Top.i > Len(md[m].asyncParentModules)
    /\ imports' = Settled(ToSet(md[m].asyncPendingPromises), "fulfilled")
    /\ md' = [md EXCEPT ![m].asyncPendingPromises = << >>]
    /\ frames' = Tail(frames)
    /\ UNCHANGED <<env, calls, stack, index, call, jobs, running, history, escaped, crashed>>

\* asyncModuleRejected before its loop.
RejectedBegin ==
    /\ In("asyncModuleRejected") /\ Top.i = 0
    /\ IF md[Top.m].asyncEvaluating
       THEN /\ md' = [md EXCEPT ![Top.m].error = TRUE, ![Top.m].asyncEvaluating = FALSE]
            /\ frames' = <<Frame(Top.fn, Top.m, 1)>> \o Tail(frames)
       ELSE UNCHANGED md /\ frames' = Tail(frames)
    /\ UNCHANGED <<env, calls, stack, index, call, jobs, imports, running, history, escaped, crashed>>

\* The parents are not told.
FaultyRejectedParent ==
    LET m == Top.m IN
    /\ In("asyncModuleRejected") /\ Top.i \in 1..Len(md[m].asyncParentModules)
    /\ frames' = <<Frame(Top.fn, m, Top.i + 1)>> \o Tail(frames)
    /\ UNCHANGED <<env, calls, md, stack, index, call, jobs, imports, running, history, escaped, crashed>>

\* One parent of a module that was rejected.
RejectedParent ==
    LET m == Top.m IN
    /\ In("asyncModuleRejected") /\ Top.i \in 1..Len(md[m].asyncParentModules)
    /\ frames' = <<Frame(Top.fn, md[m].asyncParentModules[Top.i], 0),
                   Frame(Top.fn, m, Top.i + 1)>> \o Tail(frames)
    /\ UNCHANGED <<env, calls, md, stack, index, call, jobs, imports, running, history, escaped, crashed>>

\* After the parents: the top-level capability, then the import() calls that
\* wait, or an exception through every caller when there is none.
RejectedEnd ==
    LET m == Top.m
        waiting == ToSet(md[m].asyncPendingPromises)
    IN  /\ In("asyncModuleRejected") /\ Top.i > Len(md[m].asyncParentModules)
        /\ imports' = Settled(waiting, "rejected")
        /\ md' = [md EXCEPT ![m].asyncPendingPromises = << >>,
                            ![m].topLevelCapability = IF @ = "pending" THEN "rejected" ELSE @]
        /\ frames' = IF waiting = {} THEN << >> ELSE Tail(frames)
        /\ escaped' = (escaped \/ waiting = {})
        /\ UNCHANGED <<env, calls, stack, index, call, jobs, running, history, crashed>>

-----------------------------------------------------------------------------
Walk == \/ LinkCall \/ LinkRequest \/ LinkEnd
        \/ EvaluateCall \/ EvaluateReturns \/ EvaluateRequest
        \/ EvaluateSynthetic \/ EvaluateDeferred \/ EvaluateAsync \/ EvaluateSync
        \/ FulfilledBegin \/ FulfilledParent \/ FulfilledEnd
        \/ RejectedBegin \/ RejectedParent \/ RejectedEnd

Job == ImportRejected \/ ImportResolved \/ BodyJob

Next ==
    \/ \E m \in Module : Import(m) \/ BodyEnds(m)
    \/ \E op \in HostCalls, m \in Module : HostCall(op, m) \/ HostCallDies(op, m)
    \/ Job
    \/ Walk

Spec == Init /\ [][Next]_vars

\* The C++ code runs on, a host drains the job queue, and a body that awaits is
\* resumed.
FairSpec ==
    /\ Spec
    /\ WF_vars(Walk) /\ WF_vars(Job)
    /\ WF_vars(\E m \in Module : BodyEnds(m))
-----------------------------------------------------------------------------
(* Properties.                                                             *)

\* The reference the walks are measured against: a module reaches another one
\* when every set that has it and all that its members request has the other.
Closed(g, S) == \A m \in S : ToSet(g[m]) \subseteq S
ReachesIn(g, m, r) == \A S \in SUBSET Module : (m \in S /\ Closed(g, S)) => r \in S
Reaches(m, r) == ReachesIn(requests, m, r)
SameCycle(m, r) == Reaches(m, r) /\ Reaches(r, m)

\* No module ever waited for two async dependencies.
OneDependencyEach == \A m \in Module : deps[m] <= 1

\* The modules that moduleEvaluation has made the root of their cycle although the walk
\* had not: moduleEvaluate was called for an evaluated member.
Rerooted == {m \in Module : md[m].cycleRoot # found[m]}

\* A module that counts as linked has its environment record, and so has every
\* module it requests: a walk that returns an error half way (innerModuleLinking) takes
\* back exactly the modules whose cycle was not finished.  An error that is thrown is
\* another matter, see LinkFailureUnlinks.
LinkedClosure ==
    \A m \in Module : md[m].status \in {"Linked", "Evaluating", "Evaluated"} =>
        /\ md[m].record
        /\ \A r \in ToSet(requests[m]) : md[r].status \in {"Linked", "Evaluating", "Evaluated"}

\* Between calls no module is left half way: a walk that succeeds or returns an
\* error leaves no module Linking or Evaluating (moduleLinking, moduleEvaluation).  A
\* walk that throws does, see LinkFailureUnlinks.
NothingHalfWay ==
    Idle => \A m \in Module : md[m].status \notin {"Linking", "Evaluating"}

\* moduleLinking says of a failure that "this module's [[Status]] remains
\* "unlinked"".
LinkFailureUnlinks ==
    Idle => \A m \in Module : md[m].status # "Linking"

\* The two uses of Tarjan's algorithm find the cycles of the import graph, whatever the
\* host calls in between: the root of an evaluated module is in its cycle, and the
\* evaluated modules of a cycle share one root, except those that moduleEvaluate has made
\* their own root since.
CycleRoots ==
    Idle => \A m \in Module : (md[m].status = "Evaluated" /\ md[m].cycleRoot # None) =>
        /\ SameCycle(m, md[m].cycleRoot)
        /\ \A r \in Module : (SameCycle(m, r) /\ {m, r} \intersect Rerooted = {})
                                => md[r].cycleRoot = md[m].cycleRoot

\* moduleEvaluation says "If module.[[Status]] is evaluated, set module to
\* module.[[CycleRoot]]": the root of an evaluated module is read there, and stays.
RootsKept ==
    [][\A m \in Module : md[m].status = "Evaluated" => md'[m].cycleRoot = md[m].cycleRoot]_vars

\* All that a module requests outside its own cycle has come to its end.
DependenciesDone(m) ==
    \A r \in ToSet(requests[m]) : ~SameCycle(m, r) => \A x \in Module : Reaches(r, x) => x \in done

\* A body starts once, after all it requests outside its cycle came to its end,
\* however the async bodies are interleaved (innerModuleEvaluation,
\* asyncModuleFulfilled) - as long as no module waits for two async
\* dependencies and no root was overwritten.
DependenciesFirst ==
    [][\A m \in Module : (runs'[m] > runs[m] /\ OneDependencyEach /\ Rerooted = {}) =>
          runs[m] = 0 /\ DependenciesDone(m)]_vars

\* asyncModuleFulfilled says of the parent it is about to execute "If
\* m.[[PendingAsyncDependencies]] is 0".
AllDependenciesFirst ==
    [][\A m \in Module : runs'[m] > runs[m] => DependenciesDone(m)]_vars

\* A failed module fails every evaluated module that reaches it, seen through
\* the root of its cycle - unless an exception cut the propagation short, or a
\* root was overwritten.
ErrorsReachParents ==
    (Idle /\ OneDependencyEach /\ Rerooted = {} /\ ~escaped) =>
        \A m, r \in Module :
            (/\ md[m].status = "Evaluated" /\ md[m].cycleRoot # None
             /\ Reaches(m, r) /\ md[r].status = "Evaluated" /\ md[r].error)
            => md[md[m].cycleRoot].error

\* An import() is fulfilled when all the imported module reaches has come to
\* its end: for a module that did not fail and is the root of its cycle, as
\* callDynamicImportResolved asks the module itself, not its root, whether it
\* still evaluates.
FulfilledImportsComplete ==
    (OneDependencyEach /\ Rerooted = {}) => \A p \in DOMAIN imports :
        LET m == imports[p].m IN
        (imports[p].state = "fulfilled" /\ ~md[m].error /\ md[m].cycleRoot = m)
            => \A x \in Module : Reaches(m, x) => x \in done

\* Every import() settles, or an exception went to the host instead, or the program died.
ImportSettles ==
    \A p \in 1..MaxCalls :
        (p \in DOMAIN imports /\ OneDependencyEach)
            ~> (\/ p \in DOMAIN imports /\ imports[p].state \in {"fulfilled", "rejected"}
                \/ escaped \/ crashed \/ ~OneDependencyEach)

=============================================================================
