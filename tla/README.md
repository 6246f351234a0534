# Escargot: a TLA+ verification project

Escargot is a JavaScript engine. Most of it is a sequential interpreter and a
library of built-ins, which the test262 suite covers well. This project models
the parts in which several actors or several steps have to agree and which tests
hardly reach:

* the **persistent code cache**: processes that share a directory, crash and
  lose power;
* **Atomics.wait, waitAsync and notify**: threads, mutexes and condition
  variables;
* **promises and the job queue**: script code that re-enters the engine from
  executors, handlers, getters and `then` methods;
* **module linking and evaluation**: two depth-first walks over cyclic import
  graphs, top-level await, dynamic import and failures half way;
* **consumers of promises**: the combinators `Promise.all`, `allSettled`, `any`,
  `race`, and the request queue of async generators, each shown to implement an
  abstract specification.

Paths below are relative to the repository's `src/`.

## Files

| File | Contents |
|---|---|
| `CodeCache.tla` | code cache and the part of `ScriptParser::initializeScript` that drives it |
| `CodeCacheProofs.tla` | TLAPS proofs about `CodeCache`: types and lock; lists, sessions and files |
| `AtomicsWait.tla` | wait, waitAsync, notify and the event loop that settles asynchronous waits |
| `AtomicsWaitProofs.tla` | TLAPS proofs about `AtomicsWait` |
| `Promises.tla` | promise state machine, resolving functions, reaction and thenable jobs |
| `PromisesProofs.tla` | TLAPS proofs about `Promises` |
| `Modules.tla` | linking, evaluation, top-level await, dynamic import |
| `ModulesProofs.tla` | TLAPS proofs about the two walks of `Modules` |
| `ModulesEvaluationProofs.tla` | TLAPS proofs about the order of bodies, errors and imports of `Modules` |
| `Combinators.tla`, `Aggregate.tla` | a call of all, allSettled, any or race, and what its result means |
| `CombinatorsProofs.tla` | TLAPS proofs about `Combinators`, its refinement of `Aggregate` included |
| `AsyncGenerators.tla`, `Requests.tla` | an async generator, and the queue it promises to be |
| `AsyncGeneratorsProofs.tla` | TLAPS proofs about `AsyncGenerators`, its refinement of `Requests` included |
| `SequenceLemmas.tla` | what the proofs need about removing, adding and counting entries of sequences |
| `MCCodeCache.tla`, `MCAtomicsWait.tla`, `MCPromises.tla`, `MCModules.tla` | constants for TLC |
| `MCConsumers.tla` | `Combinators` and `AsyncGenerators` side by side for TLC |
| `*.cfg` | one per run, named like the run |
| `PROJECT.json` | components, runs, mutants, map from definitions to lines, findings, hazards, theorems |

`tlc -config X.cfg MCModule` repeats a run, `tlapm M.tla` checks the proofs of a module
`M` (`ModulesEvaluationProofs` takes about twenty minutes, `PromisesProofs` and `ModulesProofs` some ten minutes each, the others less). Operators whose name starts with
`Faulty` are plausible bugs in the operator that follows them. The specifications
do not use them; each shows that some property would notice the bug.

## Inventory

| Component | State | Operations | Interaction | What is hard |
|---|---|---|---|---|
| Code cache (`codecache/CodeCache.*`) | `m_enabled`, `m_status`, `m_cacheList`, the session context, the writer's buffer; files in the cache directory; flock on the directory | initialize, searchCache, load session, store session, eviction, writeCacheList, clear, clearAll | called by `ScriptParser`, `ByteCodeGenerator`, `VMInstance` | crashes between file operations, no fsync, ignored results of fflush, two processes, two versions |
| Script initialisation (`parser/ScriptParser.cpp`) | `m_codeBlockCacheInfo` | initializeScript | code cache, parser, generator | exceptions in the middle of a session |
| Waiter lists (`runtime/Global.*`) | list of `Waiter`s: mutex, condition variable, items | waiter(address) | shared by all VMs of a process | lost and misdirected wakeups |
| Atomics (`builtins/BuiltinAtomics.cpp`) | – | wait, waitAsync, notify, read-modify-write | waiter lists, VM async data, worker threads | mutex released between check and sleep, timeouts racing notify |
| Async waiter jobs (`runtime/VMInstance.cpp`) | `m_asyncWaiterData`, its mutex, `m_pendingAsyncWaiterCount` | waitEvent…, executePendingJob… | workers, shell loop | join with a mutex held |
| Promises (`runtime/PromiseObject.*`, `builtins/BuiltinPromise.cpp`) | `m_state`, `m_promiseResult`, two lists of reactions; alreadyResolved records | constructor, resolving functions, then, await | job queue, script code | re-entrancy, single settlement, order |
| Job queue (`runtime/Job.*`, `JobQueue.*`) | list of jobs | enqueue, next, run, clear by context | promises, shell loop | jobs that queue jobs |
| Shell and $262 agents (`shell/Shell.cpp`) | event loop; agent threads, broadcast buffer, reports | evalScript, agent.* | everything above | threads, broadcast protocol |
| Promise combinators (`builtins/BuiltinPromise.cpp`, element functions in `PromiseObject.cpp`) | values, remaining-elements counter, alreadyCalled flags, the iterator's done | all, allSettled, any, race, element functions | iterator, resolve, then and return are script; capability of a promise | elements that report at once, repeatedly, or while the call iterates |
| Async generators (`runtime/AsyncGeneratorObject.cpp`, `ExecutionPauser.cpp`) | request queue, state; paused body | enqueue, resume, resolve, reject, return processors; pause, start | promise jobs, await of async functions | a yield that resumes the body before its own pause ends; requests behind a waiting return |
| Modules (`parser/Script.cpp`, import in `ByteCodeInterpreter.cpp`, `EscargotPublic.cpp`) | `ModuleData`: status, dfs indices, cycle root, error, async parents and counters, waiting import() promises | instantiate, evaluate, execute, import(), async callbacks | host loader, promise jobs | cycles across walks, failure in the middle, async bodies completing in any order |
| Backing stores, array buffers | reference counts, shared length | grow, detach, share | agents | races on the length |
| Debugger | connection, breakpoints, message buffer | send, receive, stop, restart | socket, interpreter | partial messages |
| Map, Set and iterators | entry vectors, positions | set, delete, clear, next | script code | mutation while iterating |
| Weak references, finalization | cells, callbacks | register, cleanup | collector, job queue | collection at any time |
| Compressible and reloadable strings | representation flag, reference use count | compress, load | collector, clock | stale pointers |
| Lexer, parser, bytecode, interpreter, object model, built-ins, Intl, heap, WebAssembly, public API | sequential data | – | – | language semantics; left to tests |

`PROJECT.json` lists every component with its status and, under `hazards`, the
places where these difficulties bite, with the properties that watch them.

## CodeCache

One process is one VM instance with one `CodeCache` object; the constants give the
sources, their hashes, the versions the processes were built with and which faults
may happen. The disk is `files` (one data file per hash) and `listFile`. `cache[p]`
is the object: `enabled`, `status`, `list` (`m_cacheList`), and the context (`path`,
`entry`, `table`, `offset`, `buffer`). `pc[p]` says where `initialize` or
`initializeScript` of `p` is; an action is one file operation of the code, because a
crash may separate two of them.

* Construction: `LockCacheDir` (flock), `InitCacheList`, and their failures.
* Load session: `PrepareCacheLoading`, the string table, the tree and the bytecode,
  `PostCacheLoading`. A stage after a failed one does nothing, as in the code.
* Store session: `CacheMiss`, `Parse`, `PrepareCacheWriting`, three
  `StoreSection`s, `PostCacheWriting` with eviction, `WriteCacheList`.
* `ClearCacheDir` removes one file per step; `Clear`, `Destroy`, `Crash`,
  `LosePower`, `Tick`.

A section of a data file is one cell, so offsets and sizes count cells; a partially
written cell is `TORN`. Failures are explicit: fopen and fwrite failures are seen by
the code; failures of fflush and fclose (`FlushFails`) are not. A power failure keeps
a prefix of one data file (several files when power fails again before anything
runs) and may cut the list file.

Assumptions: `stat` fails only when there is no list file; a power failure shortens
files and does not fill blocks with zeros; the machine runs one file system on which
unlink is atomic. That a script may get the code of another source with the same hash
is how the cache is designed (sources are not compared), so the properties ask for the
code of *one* source with that hash.

Properties:

* `ExclusiveDirectory`: whoever has an enabled cache or is anywhere between flock and
  `clear()` holds the lock.
* `ListedFilesSound`: whatever crashed, the list lays entries out as a complete session
  does, and the file of an entry is the image of one source, or missing, or shorter
  than the list says.
* `LoadCorrect`: nothing but the section that was asked for is ever decoded, not even
  from a damaged file. The reason is that the string table is last in the file and
  read first: a file that lost anything fails at once.
* `ReadyBetweenScripts`: what the assertions of `prepareCacheLoading`,
  `prepareCacheWriting` and `setCodeBlockCacheInfo` need between two scripts. It holds when
  the generator does not throw (`CodeCache_crash`) and not when it does: see the list of what
  the models show, below.
* `MemoryMatchesDisk`: the lists in memory and on disk agree between two scripts, also
  after a generator threw in the middle of a session (`CodeCache_limit`). A session that was
  left open is bounded by `MaxStray`, the cells the sessions of one process may leave in front of
  the next one.
* `ListWithinLimit`, `ListedFilesNotRewritten`: checked with the throwing generator as well.

## AtomicsWait

An agent is a thread with a VM; a worker is the thread `waitAsync` starts. `list` is
`Waiter::m_waiterList` by block address; a critical section in which nothing blocks is
one action guarded by its mutex being free, and the two places that hold a mutex across
blocking calls (`doWait` while it registers a worker, the drain while it joins) record
it in `wl` and `dm`. A condition variable is the set of threads with `pc = "sleep"`;
`notify_one` wakes any of them, as the C++ standard allows. `BlockAddress` computes what
the code computes, scaling included.

Properties: `NoStaleItem` (no wait leaves an item behind), `PendingExact` (the counter
that lets the event loop sleep), `SettledOnce` (a promise is fulfilled once and its
entry goes after the thread has ended), `ItemsAccounted` (a thread in a wait has its item in the
list or was counted by a notify, and not both, so the waiters of a cell and the results of
`Atomics.notify` add up for every count and every kind of wakeup), `EarlyReportNotified` (a worker that
reports although it was never woken found its item taken by a notify, also in the race of its
thread's start with notify), and the liveness properties `NotifiedSettles`, `DrainTerminates`,
`TimedWaitReturns`. `NotifiedSettles` has one excuse, for which the code is to blame: all waiters of a
list share a condition variable, so `notify_one` may wake another waiter than the one whose item
it takes, and the one that was taken sleeps on where no later notify finds it.

Fairness: weak fairness of each thread's own steps, of the event loop entering
`waitEventFromAnotherThread` while it has waiters (`Shell.cpp` loops on
`hasPendingJobFromAnotherThread`) and of timers. Script code is under no fairness.

## Promises

Promises, pairs of resolving functions ("records", after the `alreadyResolved` record a
pair shares) and reactions are numbered in the order they are made. Script code is
arbitrary: it runs in frames on `stack` and may in each of them make promises, call
`then` with or without handlers, await, and call every resolving function it was handed
(`exposed`). The functions of derived promises and those handed to the built-in `then`
are hidden from it. `CallResolve` and `CallReject` are the bodies of
`promiseResolveFunctions` and `promiseRejectFunctions`; when the former meets an accessor
it pushes a frame for the getter and goes on in `GetterEnds`. A native handler that may
run a getter is split in the same way (`NativeReturns`). `RunReactionJob` and
`RunThenableJob` are the `run` methods; `EvalScript` is the shell starting a script, on an
empty queue or, at its prompt, after a script that threw and left its jobs behind.

Properties:

* `OneResolver`: a pending promise has exactly one thing that can settle it (an unused
  record, a queued thenable job, a getter in progress) and a settled one has none. This
  is why `fulfill` and `reject`, which do not look at `m_state`, settle a promise once.
* `HiddenFunctionsHeld`: the functions of a derived promise are not forgotten before
  they are used.
* `ReactionsInOrder`: what `then` made has run, is queued or waits, never two of these, and the
  reactions of one promise run, are queued and wait in the order of the calls.
* `OutcomeDelivered`, `AdoptsOutcome`: a job and an adopting promise get the outcome of
  their promise.
* `UnhandledExact`: a host that pairs the two reject events knows exactly the rejected
  promises that nobody called `then` on.
* `SettledForever`, `ReactionsRun`, `FollowersSettle`.

Fairness: the job loop of `Shell.cpp` runs jobs while there are any, and script code
comes to an end. The second is an assumption on scripts. After a script that ends with an uncaught
exception the shell leaves `evalScript` without running the jobs, and whether another script follows
is up to its user: the liveness properties excuse what is still due while the shell stands at
that prompt (`AtPrompt`), and nothing else.

Not modelled: subclasses and patched `then` (so `newPromiseCapability` only takes its fast
path), `finally`, `Promise.resolve`, promise hooks, hosts that clear the queue or call
`fulfill` and `reject` directly.

## Modules

A scenario fixes what the host serves: the import graph, which modules have top-level
await or are JSON, and what goes wrong when a module is loaded or linked (`fault`).
`md[m]` is `Script::ModuleData`. The recursion of `innerModuleLinking`,
`innerModuleEvaluation`, `asyncModuleFulfilled` and `asyncModuleRejected` is an explicit
stack of `frames`; a frame visits a request again when the call for it has returned, and the
early returns of the callee make that visit the rest of the loop body. `stack` and `index`
are those of the walk. One action is one iteration of a loop or one end of a function, so
that every early return and every exception is a step of its own.

* `Import` is `import()` up to the host's answer (`notifyHostImportModuleDynamicallyResult`),
  `ImportResolved` and `ImportRejected` are the jobs that follow; `HostCall` is a host using
  `execute`, `moduleInstantiate` or `moduleEvaluate`.
* `LinkCall`, `LinkRequest`, `LinkEnd`: `moduleLinking` and `innerModuleLinking`. An error that is
  *returned* undoes the walk (`Unlink`), one that is *thrown* does not.
* `EvaluateCall`, `EvaluateReturns`, `EvaluateRequest` and the four ends of
  `innerModuleEvaluation` (JSON, deferred, async, sync).
* `BodyEnds`, `BodyJob`, `Fulfilled...`, `Rejected...`: completion of async bodies.
  `ReadyToRun` is the condition of `Script.cpp:1162` as compiled.

`runs`, `done`, `deps` and `found` (the cycle root a walk gave each module) are history. `loaded` is
`m_didCallLoadedCallback`. `crashed` stops a behaviour in which the code would
dereference a null pointer: a synchronous body executed again after its bytecode was dropped, or a
JSON module instantiated or executed by the host before its loaded callback was called
(`HostCallDies`: the callback wants the context of a code block, and there is none).
`escaped` says that `asyncModuleRejected` threw to its caller.

Abstractions: what a name resolves to is one of four outcomes; exceptions are not `undefined`
(an error of that value would be taken for none at `Script.cpp:844`); `import()` and host
calls come between walks. A host may call `moduleEvaluate` for any evaluated module; when that is a member of
a cycle and not its root, the code makes it its own root (`Script.cpp:781`), and it is in
`Rerooted` from then on. Names that do not resolve and missing `default` exports are faults of modules that request something.

Properties: `LinkedClosure` (a linked module has its record and so has all it requests),
`NothingHalfWay` (both where an error of linking is returned, not thrown), `CycleRoots` (against `Reaches`: a module is reached if it is in every set that is
closed under requests; `MCModules` assumes, and TLC checks for every scenario, that this is what
`Graphs` calls connected), `DependenciesFirst` (a body starts once, after all it reaches outside its cycle ended),
`ErrorsReachParents`, `FulfilledImportsComplete`, `ImportSettles`. The last four are
stated for modules that register with at most one async dependency, because line 1162 breaks
them beyond that (`Modules_dependencies`), two of them for behaviours without an escaped
exception (the first item of the list after the findings), and the three safety properties among them while no root was overwritten
(`Modules_evaluateAgain`). `CycleRoots` makes an exception for the overwritten modules only.

Fairness (`FairSpec`): weak fairness of the C++ code running on, of the job queue being drained
and of awaiting bodies being resumed. `import()` and host calls are under none.

## Combinators and Aggregate

One call of a combinator. The iterator, `resolve`, `then` and the iterator's `return` are script,
so `phase` names the script code the call waits for, and `Report`, an element calling one of the
functions its `then` got, may happen in all of them, any number of times. `log` remembers
the reports. `Aggregate` defines the result from the reports alone: `all` is decided by the first
rejection, or when every element has fulfilled and the iteration ended, with the first value of
each in its place; and so on for the others. `ImplementsAggregate` says that the counter that
starts at one, the `alreadyCalled` flags and the shared vector compute exactly that, at
the step that decides it.

The four functions are near copies of one another, in `builtins/BuiltinPromise.cpp`, and a definition stands for its lines in all of
them. `PROJECT.json` names one copy for each; the others are:

| Definition | all | race | allSettled | any |
|---|---|---|---|---|
| `Begin` | 101–128 | 246–274 | 529–556 | 691–720 |
| `CombInit` (vector, counter) | 133–139 | – | 423–428 | 596–601 |
| `StepThrows` | 144–152, 171–179 | 282–290, 300–309 | 433–441, 460–469 | 607–613, 636–645 |
| `StepEnd` | 153–169 | 291–298 | 443–458 | 615–634 |
| `StepValue` | 180–181 | – | 471–472 | 646–647 |
| `PromiseResolve` | 182–203 | 311–312 | 473–509 | 648–667 |
| `ThenReturns` | 204–209 | 313–316 | 510–514 | 669–674 |
| `Catch` | 211–229 | 318–335 | 562–585 | 726–740 |

## AsyncGenerators and Requests

`gstate` and `queue` are those of the object, `control` says whether its code runs, `awaits` and
`processors` count the reactions that will run it again. The functions call one another
recursively (a yield resolves a request, which resumes the body for the next one inside the
first pause); nothing their callers do afterwards touches queue or state, so the recursion is the
chain of control points `resume`, `body`, `awaited`. The body is arbitrary, with the one constraint
that the generator emits an await before every yield (`YieldExpressionNode.h`).

`Requests` is the abstract queue: a request is answered once, the oldest first, and no value is
yielded after an answer that was not one. `ImplementsRequests` is the refinement,
`OneContinuation` the invariant behind it, and `RequestsSettle` the liveness the abstract
specification leaves open. Fairness: weak fairness of the C++ code, of the body (which ends or
awaits), and of the reactions of what it awaits.

Not modelled: a `then` getter on `Object.prototype`, which would run script in the middle of
`asyncGeneratorResolve` and could meet the assertion at `AsyncGeneratorObject.cpp:129`; a return
value whose `constructor` getter throws, which leaves the generator awaiting its return for
ever; and `m_pausedCode`, the prologue with which a body is re-entered. After a nested resumption the
outer `pause` rebuilds it from the outer yield's block nesting (`ExecutionPauser.cpp:302`)
while the resume position is already that of the inner pause; what the body does then is
covered by its being arbitrary, whether it is the right code is not.

## Runs

| Run | Shows | Bounds | States |
|---|---|---|---|
| `CodeCache_crash` | lock, directory, loads, lists and the state between scripts under crashes, power failures and file failures, seen and unseen | 2 processes of 2 versions, 3 sources with 2 hashes (a collision), 1 entry; symmetry of the colliding sources | 1,576,108 |
| `CodeCache_limit` | the lists in memory and on disk agree, the list keeps its limit and the files it names are not rewritten, also when the generator throws in the middle of a session and leaves it open | 2 processes of one version, 2 sources, 1 entry, 2 clock values, 1 stray cell; symmetry of sources | 1,601,852 |
| `AtomicsWait_safety` | items, counter and promises with every fault | 2 agents, 2 workers, counts 1 and all, 2 calls per agent | 516,949 |
| `AtomicsWait_live` | notified waits settle, the drain ends, timed waits return | 2 agents, 2 workers of one agent, counts 1 and all, 2 calls per agent, event loop without timeout, no spurious wakeups | 69,359 |
| `AtomicsWait_lostWakeup`, `_address` | violations, see below | 2 agents | |
| `Promises` | all invariants of promises; settled promises do not change, reactions run, followers settle | 4 operations that make work; `then` with every combination of handlers; scripts may throw | 47,325 |
| `Modules` | walks, cycles, errors, imports, and that every import settles | every graph of 3 modules with at most 2 requests each, up to renaming, × with or without top-level await; or a JSON module; or one module whose imports do not resolve; or one the host does not have; bodies may throw; 2 calls | 723,090 |
| `Modules_dependencies`, `_linkFails`, `_evaluateAgain` | violations, see below | 3 modules | |
| `Consumers` | combinators implement `Aggregate`; async generators implement `Requests`, run no continuation that was not made and answer every request | 3 elements, 4 reports; 5 requests, 5 awaits | 932,103 |

`MCConsumers` runs one of its two machines in each behaviour, chosen by `machine` at the start:
they share no state, so their states add up rather than multiply.

Why the bounds are enough: two processes and two versions are what a lock and a version
check tell apart; one source more than there is room for forces eviction and re-insertion at every
store, and larger limits are left to the proofs. One stray cell is a session left open after its first section, which is what
the next session starts behind. Spurious wakeups are left to
`AtomicsWait_safety`: an event loop that wakes up spuriously for ever could take the data mutex from a worker
each time it tries, which weak fairness does not exclude. Two workers on one list are what `notify_one` can confuse. Three modules are a cycle of two with a module before or
after it, a cycle of three, and a diamond's upper half; two calls let a second walk meet
what a first one left, finished, failed or waiting. Three elements and four reports leave room for
a repeated report before the last element. Five requests are one per generator state. Four
operations contain a chain of two adoptions with a reaction at its end, and a getter that
re-enters the functions being resolved. `MaxPromises` and `MaxRecords` are never reached
before `MaxOps` is: a job that found no room would show as a deadlock.

`CHECK_DEADLOCK FALSE` is used for `AtomicsWait` (an agent may wait for ever when nobody
notifies it, and scripts end), for `Modules` (a host may stop calling) and for `Consumers` (a
call returns, a script stops asking).

## Findings

Each of these is a violation run; the quoted lines are in `PROJECT.json`.

* `AtomicsWait_lostWakeup`: the synchronous wait drops the mutex between the comparison and
  adding its waiter.
* `AtomicsWait_address`: the byte offset is scaled twice.
* `Modules_dependencies`: `Script.cpp:1162` tests whether the counter of pending dependencies has
  a value, not whether it is zero. A module with two async dependencies runs when the first
  is done, and again when the second is.
* `Modules_linkFails`: when the host cannot load a requested module, the exception passes the loop
  that would undo the walk, and modules stay `Linking`. A missing `default` export is thrown in the
  same way.
* `Modules_evaluateAgain`: `moduleEvaluate` of an evaluated member of a cycle makes the member
  its own root.

The models also have the following behaviours, which no run is about. Where one limits a property,
the comment of the property says so.

* `asyncModuleRejected` throws when no `import()` waits for the module (`Script.cpp:1246`), and the
  parents later in the loops of its callers are not told; they stay async-evaluating for ever.
* When bytecode generation throws, the store session stays open and the next cacheable script finds
  the cache `IN_PROGRESS`, against the assertion at `CodeCache.cpp:405`.
* `postCacheWriting` enters `clearAll` with status FINISH although `CodeCache.cpp:287` asserts FAILED
  or NONE.
* After a restart of the machine stored time stamps can lie in the future, which `CodeCache.cpp:340`
  asserts they do not.
* A notify of one waiter may wake another than the one it takes off the list; the one taken sleeps on
  unlisted.
* A wait that notify has counted may still report a timeout.
* A host that executes a JSON module before any module requested it dereferences a null code block
  (`Script.cpp:80`).
* The promise of `moduleEvaluation` is never resolved when the module completes asynchronously.
* An `import()` of a member of an async cycle that is not its root is fulfilled before the cycle
  is complete.
* An `import()` whose job runs after the module failed in the meantime is fulfilled: the
  error was looked at when the host answered.
* An `import()` of a JSON module that does not parse is fulfilled; only modules that request it fail.

## Proofs

What the runs check on small instances, the following theorems state for every value of the
constants. Each rests on an inductive invariant that TLC checked first.

### CodeCacheProofs

For any number of processes, sources, hashes and versions and with every fault of the model:
`TypeCorrect` (`Spec => []TypeOK`) and `DirectoryIsExclusive` (`Spec => []ExclusiveDirectory`).

The inductive invariant is `IInv == TypeOK /\ SessionNamed /\ ExclusiveDirectory`.
`SessionNamed` (a process in a session knows its script and works on the file of that
script's hash) is what keeps `files[c.path]` and `HashOf[src[p]]` well typed; without it
neither of the others is inductive. Lemmas give the type of every operator on the object and
one lemma per action shows that it preserves `IInv`; `Frame` reduces an action of one process
to facts about that process. The only assumption is `CodeCacheAssumption`.

On top of `IInv`, two more inductive invariants, both checked by TLC on the constants of the runs
before they were proved. The only further assumption is `NoEntryAssumption` (the marker of
a hash without an entry is not an entry).

`ListsInv` is about the lists and holds with every fault of the model, exceptions of the generator
included. A process that uses the directory agrees with `cache_list` (or the file is torn) except
between the insertion of the entry in memory and `writeCacheList`; until then the script of
a write session is not listed; both lists keep within the limit. From it follow, for every limit and
any number of processes, `MemoryIsOnDisk`, `ListIsWithinLimit` and the action property
`ListedFilesAreNotRewritten`: the file that a store stage opens belongs to a hash that is
not in memory, hence not on disk (`TargetNotListed`, `FilesStep`).

`SessionsInv` is about sessions and data files and needs `Throws = FALSE`, as the run
`CodeCache_crash` does: a generator that throws leaves the session open, and then the next
session starts at a wrong offset. Its parts say, for each `pc`, what the object and the file
of the session hold: after `n` store stages the file is `Written(file, n, s, v)`, the first `n` sections or
fewer bytes, all of one source and version; after each load stage the file is an image and the
sections read so far are its parts; every listed file is `Written(file, 3, s, v)` or
missing. `Len(file) <= 3` in `Written` is stronger than `Damaged` and is what makes the argument
work: the string table is last and is read first, so if it can be read the file has all three
sections, whole (`ReadableImage`), and the later stages read the same file because the process
holds the lock (`SessionFrame`). Power loss keeps a prefix, which is `Written` again
(`WrittenCut`). From it follow `ListedFilesAreSound`, `LoadIsCorrect` and
`CacheIsReadyBetweenScripts`.

### AtomicsWaitProofs

For any number of agents, workers, cells and calls: `TypeCorrect`, `NoStaleItems`,
`PendingIsExact` and the action property `PromisesSettledOnce`. The inductive invariant is
`Inv == Base /\ NoStaleItem /\ DataInv /\ PendingExact /\ SettledSound`:

* `Base` adds to the types that agents and workers are at steps of their own and that a
  thread in a wait knows its cell;
* `DataInv` describes `m_asyncWaiterData`: an entry belongs to the agent that owns the
  worker, no worker has two, a worker that was registered and has not been joined has one,
  and only the thread that holds the mutex of the data is between locking and unlocking it;
* `SettledSound` says that a promise that is settled belongs to a worker that has reported and
  is the entry being joined, which is why it cannot be settled again.

On top of it, `Accounts` is inductive for every count, with spurious wakeups and failed starts of threads: `ItemsAccounted`,
and that a thread enters its list uncounted (`Uncounted`). From it follow
`ItemsAreAccounted` (`Spec => []ItemsAccounted`) and the action property `EarlyReportsNotified`
(`Spec => EarlyReportNotified`), with no assumption on what scripts pass to notify.

`NotifyReachesOwnCell`
assumes that `BlockAddress` tells the cells apart. It is the converse of the run
`AtomicsWait_address`: the address computation is the only cause of the violation shown there.

The model's `Erase` removes the first item of a thread; the code's `std::remove` would remove
all, and `NoStaleItem` says that there is never more than one.

### PromisesProofs

For any number of promises, resolving functions, scripts and operations: `PromisesTypeCorrect`,
`PromisesOneResolver`, `PromisesHiddenHeld`, `PromisesOutcomeDelivered`, `PromisesUnhandledExact`,
`PromisesAdoptOutcome`, `PromisesReactionsInOrder` and the action property
`PromisesSettledForever`. The invariant `Inv` has four parts:

* `TypeOK`;
* `PromisePart`: reactions belong to the promise they wait on, are of its side and have the
  functions their handler needs; a queued job carries the result of a promise settled on
  the side of its handler; `UnhandledExact`, with what makes it inductive (a pending promise has
  reactions if and only if `then` was called on it);
* `ControlPart`: every pair of functions, thenable job and getter is for a promise that exists,
  and their number per promise (`Owners`) is one while it is pending and zero afterwards; a
  frame has the functions it is going to call; the pair of a getter in progress is used;
* `HiddenPart`: hidden and unused pairs are held by reactions, jobs or frames.

The parts take the queue, the stack and the records as parameters, because an action is a sequence of
such changes (a job is taken, functions are used, a promise is settled, reactions are
queued). `ControlPart` has a parameter for the one promise that is about to be settled and
`HiddenPart` one for the one pair that is about to be used. `TakePair`, `PopGetter` and
`TakeThenable` open that exception and `SettleStep`, `QueueThenable`, `PushGetter` and `MakePair` close it. An
action is then a composition of these lemmas, and `ResolveStep` and `RejectStep` do it once for the bodies of the resolving functions.
`SettledForever` follows because only a promise that has a resolver is settled, and such a promise is pending.

Two further invariants are inductive relative to `Inv`.

`Adoption` (`PromisesAdoption`) says where, on its way from the followed promise to the follower, an
outcome is. A promise `p` that was last resolved with `q` and is pending is `BoundTo(p, q)`: the one
thing that can settle it is a thenable job for `q`, or a pair of functions that is `Private` to `q`:
no script and no frame has it, no capability of a reaction names it, and a reaction whose handler it is was made
by `then` on `q`. So the pair can only be called by a reaction job of `q`, which carries the
outcome of `q` on its side (`OutcomeDelivered`), and the follower ends `Alike`. The exception is `AskedAgain`: `q`
was fulfilled with an accessor, whose `then` is asked for again. `PlainOutcome` (no promise is
fulfilled with a promise or with a plain thenable) is why there is no other. `Affects(p)`
abstracts from an action what it changes for promises other than `p`; `AdoptionKept` then
leaves one promise per action to look at.

`InOrder(jobs, ran)` (`PromisesOrder`) says that reactions keep the order of their numbers wherever they are: a settled
promise has none left (`Cleared`), the two lists of a pending one have the same ascending
numbers (`Numbered`), jobs of one promise are queued in ascending order (`Ordered`), every
reaction has run, is queued or waits (`Complete`), none is queued or waits that has run (`Once`), and what ran
has overtaken nothing of its promise (`RanFirst`). `Cleared` is the part without which settling a promise
could put its reactions behind later ones: a queued job is of a settled promise, so when a promise
is settled none of its jobs is queued. Queue and history are parameters, so that taking a
job (`OrderTaken`) and what it does (`OrderSettled`, `OrderQueued`, `OrderThen`) compose.

### ModulesProofs

For every scenario in which the host can load every module that is requested and no requested `default` export is
missing (`Loadable`), whatever the size of the graph and its cycles: `LinkingIsClosed`, `NoneHalfWay` and `CyclesFound`
(`Spec => [](Loadable => ...)` for `LinkedClosure`, `NothingHalfWay` and `CycleRoots`). Errors
of linking that are returned, bodies that throw, top-level await, repeated calls and imports are all included.
The hypothesis is what the run `Modules_linkFails` shows to be needed: an exception that is thrown passes the
loop that would undo the walk. The run `Modules` has such scenarios only. Nothing is assumed about the host's
calls: `moduleEvaluate` of an evaluated member of a cycle overwrites `cycleRoot`, so the invariant
speaks of `found`, what the walk gave, and `RootsKnown` relates the two (they agree, or the module is its own root).

Both walks are Tarjan's algorithm, and neither property is inductive without the invariant of
that algorithm. `ModulesInv` (`WalksFollowGraph`) says that there is no walk, or one of linking, or one of evaluation, and for
a walk:

* `Indices`: no two modules on the stack have the same index, no ancestor index is above the module's own, and inner
  calls are for modules with higher indices;
* `Calls`: a call was made for the request its caller is at; `Bottom`: the first one is for the entry module,
  which is the lowest on the stack;
* `Looked`: a request that was looked at is finished, or on the stack not below the ancestor index of the module that
  makes it;
* `Lowest`: the ancestor index of a call is at most those of the modules above it up to the next call, or will be after the second
  look at the current request;
* `Left`: a module that stays on the stack after its call has an ancestor index below its own;
* `Paths`: a call reaches all that is above it on the stack, and a module reaches the one its ancestor index names.

When a call ends with an ancestor index equal to its own, `Left` and `Paths` make what is above it on the
stack one strongly connected component: every such module reaches the root (by descent along
`Lowest`, `LeastElement` of `SequenceLemmas` in place of induction), and what it requests is on the stack or finished.
`RootsFound` and `LinkedFound` record the result for the modules that are finished. Reachability is defined by closed sets instead of
recursion, so that it can be reasoned about: a set closed under requests that contains a module contains all
it reaches.

### ModulesEvaluationProofs

What happens after the walks, when async bodies complete in any order: `BodiesStartInOrder`
(`Spec /\ []Loadable => DependenciesFirst`), `FailuresReachParents` and `ImportsAreComplete`
(`Spec => [](Loadable => ...)` for `ErrorsReachParents` and `FulfilledImportsComplete`), for every graph and any number of
calls. The properties themselves are about behaviours in which no module has registered with two async dependencies
(`OneDependencyEach`); the run `Modules_dependencies` shows the first of them false otherwise. They are also about
behaviours in which no root was overwritten (`Rerooted = {}`), which the run `Modules_evaluateAgain` shows is up to the host. An
overwritten root stays so (`RerootedStays`), so the invariant may assume that none was; until then the roots that
modules have are those that were found (`RootsAgree`). `Loadable` never
changes, so `[]Loadable` says no more than that the scenario is such a one.

The invariant is `EvaluationInv`, on top of `ModulesInv` (`EvaluationWaits`). A module has registered at most once, so
who waits for whom is a forest, and the invariant says for each of its edges where the news is:

* `Bookkeeping`: a module is the parent of one other at most (`Registered`), and it does not start before
  `asyncModuleFulfilled` has taken over the one it waits for (`Waiting`); `Bodies`: a body awaits, is queued as a job or has
  ended, and only one of these;
* `Calling`: the calls of `asyncModuleFulfilled` in progress have not started the parents they have not come
  to, and no two of them loop over the same module; a failed module has failed its parent, or a call of `asyncModuleRejected`
  will (`Reported`), unless an exception escaped;
* `WalkWaits`: what the walk in progress has seen. A request that was looked at is on the stack, or its cycle is complete
  and then all it reaches has ended or the module waits for the root of that cycle (`RequestsWalk`); a module that was left on
  the stack and has not ended is waited for by one below it (`TreeWalk`);
* `Findings`: the same for the cycles that were found (`Found`): each module that has not ended is waited for by a
  module of the cycle with a lower index, so that the root ends last, and waits itself for every request outside that has not
  ended; a body that was started had all of those behind it (`Starts`);
* `ImportsWait`: a promise of `import()` waits with its own module and is fulfilled when that has failed or ended.

`RootDone` is the heart of it: when the root of a cycle has ended, so has all the cycle reaches. A module of the cycle
that has not ended has a parent of lower index that has not started; the one with the least index
would be the root. So when `asyncModuleFulfilled` comes to a parent, what it waited for and all below that
has ended, and what it did not wait for had ended when it was looked at: the parent may start, although its counter
is not read (`ParentKnown`). `RootTold` is the same descent for errors. One lemma for each action
shows that it keeps the invariant; `Away`, `NoStart` and `OnlyParent` say what the steps of completion have in common,
`Below(n)` that a step replaces the innermost call by `n` others.

### CombinatorsProofs

For any number of elements and reports: `CombTypeCorrect` (the counter is between zero and one more than the number of
elements) and `CombinatorsImplementAggregate`, the refinement `CombSpec => ImplementsAggregate`. Besides `Shape` (types and phases), the invariant relates the
implementation to the history of reports: `Accounts` (the vector and the flags have an entry for every
element, the vector one more while an element is being created; `race` keeps neither), `Counter`
(`remaining` is the number of flags still down, plus one until the iteration has ended), `Collected`
(an element's `alreadyCalled` flag is up if and only if it has reported through its function, and then
the vector holds its first such report) and `Undecided` (while the result is pending the iteration has not
failed, every report went through an element function and `remaining` is not zero). The abstract
decision is computed from the reports alone, and at every step either both decide, with the same value, or
neither does. The flag counting is in `SequenceLemmas`.

### AsyncGeneratorsProofs

For any number of requests and awaits: `GenTypeCorrect` (`GenSpec => []GenTypeOK`),
`ContinuationIsUnique` (`GenSpec => []OneContinuation`) and `RequestsImplemented` (`GenSpec => ImplementsRequests`, the refinement of `Requests`).

The inductive invariant is `GenTypeOK /\ AnswersTyped /\ OneContinuation /\ ReturnQueued /\
ValuesFirst`. `ReturnQueued` (the request of a waiting return is still queued) is what makes
`OneContinuation` inductive at `ResumeNothing`; `ValuesFirst` (until it completes, a
generator has only answered with values) is what the guard of the abstract `Answer` needs. Every step
then maps to `Ask`, to `Answer` or to a stutter, with the identity as refinement mapping.

### Assumptions, and what is only model-checked

Apart from the hypotheses named above, the proofs assume the named assumptions of the modules (types of
the constants; the `No...` values are none of them), which TLC evaluates in every run.

Model-checked only: all liveness properties (`NotifiedSettles`, `TimedWaitReturns`, `DrainTerminates`,
`ReactionsRun`, `FollowersSettle`, `ImportSettles`, `RequestsSettle`), which are outside the prover's
reach, and those properties of `Modules` whose theorems assume `Loadable` in scenarios that are
not `Loadable`, where a walk may be given up half way.

## Not modelled

The engine has some 139,000 lines, and nearly all of them are outside the reach of a state
machine: the parser, the bytecode generator and the interpreter (40,000 lines) are the
semantics of a language; the object model, the built-ins, Temporal, Intl and the number
conversions (most of another 78,000 lines) are sequential library algorithms with unbounded data, for which
test262 is the better check. A model of them would be a transliteration. The parts in
which several actors or several steps have to agree are few and small, and it is those that are
modelled; the share of all lines the map covers stays low for that reason. What remains of this
kind, and is planned: `$262.agent`, growth of shared backing stores, clearing the
job queue by context, finalization registries, the debugger's message protocol.

## Plan

1. Extend the model: $262 agents with broadcast; shared backing stores; queue clearing by
   context; `Promise.resolve` and `finally` on `Promises`; mutation of Map and Set while iterating.
2. State an abstract lossy store (a lookup returns nothing or what was stored for the hash by
   this version) and show that `CodeCache` without generator exceptions implements it; state
   an abstract promise (pending, then settled for ever) and show that `Promises` implements it.
3. Extend `ModulesInv` to scenarios that are not `Loadable`: a stack that a thrown exception left behind is what
   the invariant would have to describe.
