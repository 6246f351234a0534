---------------------------- MODULE AtomicsWait ----------------------------
(***************************************************************************)
(* Atomics.wait, Atomics.waitAsync and Atomics.notify                       *)
(* (src/builtins/BuiltinAtomics.cpp), the waiter lists of Global and the    *)
(* way a VM collects finished asynchronous waits (VMInstance).              *)
(*                                                                          *)
(* An agent is a thread that runs one VM instance.  Agents share memory     *)
(* cells; each wait list has one mutex, one condition variable and a list   *)
(* of waiter items.  An asynchronous wait is carried by a worker thread     *)
(* that reports to the data of its agent's VM, which the agent's event loop *)
(* turns into settled promises.                                             *)
(*                                                                          *)
(* A critical section in which nothing can block is one action guarded by   *)
(* its mutex being free; wl and dm record a mutex only across actions.      *)
(* A waiter item is named by the thread that waits for it.                  *)
(*                                                                          *)
(* An operator whose name starts with Faulty is a plausible bug in the      *)
(* operator that follows it; the specification does not use it.             *)
(***************************************************************************)
EXTENDS Naturals, Sequences, FiniteSets, SequencesExt

CONSTANTS
    Agents,    \* threads with a VM instance
    Workers,   \* worker threads doWait may start, each at most once
    Owner,     \* Owner[w]: the agent whose waitAsync starts worker w
    Blocking,  \* agents for which Platform::canBlockExecution holds
    Cells,     \* the shared memory locations: [buf, off] with a byte offset
    Address,   \* Address[b]: where the data of buffer b starts
    Counts,    \* the counts passed to notify
    Timeouts,  \* the timeouts passed to wait: "zero", "finite", "inf"
    Spurious,  \* whether a condition variable may wake a thread by itself
    LoopTimed, \* whether the event loop waits with a timeout (the shell: 10 ms)
    MaxOps,    \* bound: calls of Atomics operations per agent
    None

ASSUME AtomicsWaitAssumption ==
    /\ Agents \cap Workers = {}
    /\ Owner \in [Workers -> Agents]
    /\ Blocking \subseteq Agents
    /\ \A c \in Cells : c.off \in Nat /\ Address[c.buf] \in Nat
    /\ Counts \subseteq Nat
    /\ Timeouts \subseteq {"zero", "finite", "inf"}
    /\ Spurious \in BOOLEAN /\ LoopTimed \in BOOLEAN
    /\ MaxOps \in Nat
    /\ None \notin Agents \cup Workers \cup Cells

Threads == Agents \cup Workers

\* The block address doWait and notify look a waiter list up with: the byte
\* offset i is added to an int32_t*, so it counts four times.
BlockAddress(c) == Address[c.buf] + 4 * c.off

Keys == {BlockAddress(c) : c \in Cells}

VARIABLES
    mem,      \* shared memory: what each cell holds, 0 or 1
    list,     \* Waiter::m_waiterList by block address
    wl,       \* the agent that holds Waiter::m_mutex across actions
    pc,       \* where each thread is
    on,       \* the cell the thread waits for
    timeout,  \* the timeout of its wait
    notified, \* whether its condition variable wait ended without timeout
    data,     \* VMInstance::m_asyncWaiterData of each agent: its workers
    reported, \* workers whose item pointer is null in that data
    pending,  \* VMInstance::m_pendingAsyncWaiterCount
    dm,       \* whether the agent holds its m_asyncWaiterDataMutex across actions
    result,   \* how the last wait of the agent or the worker's promise ended
    removed,  \* history: threads whose item a notify has taken off its list
    ops       \* Atomics calls each agent has made

shared == <<mem, list, wl>>
waitState == <<on, timeout, notified>>
vmState == <<data, reported, pending, dm>>
vars == <<mem, list, wl, pc, on, timeout, notified, data, reported, pending, dm,
          result, removed, ops>>

Results == {"none", "ok", "timed-out", "not-equal"}
AgentSteps == {"run", "register", "checked", "sleep", "woken", "eventWait",
               "execute", "drain", "join"}
WorkerSteps == {"unused", "reserved", "start", "sleep", "woken", "report",
                "erase", "exit"}

Init ==
    /\ mem = [c \in Cells |-> 0]
    /\ list = [k \in Keys |-> <<>>]
    /\ wl = [k \in Keys |-> None]
    /\ pc = [t \in Threads |-> IF t \in Agents THEN "run" ELSE "unused"]
    /\ on = [t \in Threads |-> None]
    /\ timeout = [t \in Threads |-> "inf"]
    /\ notified = [t \in Threads |-> FALSE]
    /\ data = [a \in Agents |-> <<>>]
    /\ reported = {}
    /\ pending = [a \in Agents |-> 0]
    /\ dm = [a \in Agents |-> FALSE]
    /\ result = [t \in Threads |-> "none"]
    /\ removed = {}
    /\ ops = [a \in Agents |-> 0]

Goto(t, step) == pc' = [pc EXCEPT ![t] = step]
KeyOf(t) == BlockAddress(on[t])
Sleepers(k) == {t \in Threads : pc[t] = "sleep" /\ KeyOf(t) = k}

\* The item of t is left in the list, or all items go, or only its pointer is cleared.
FaultyErase(k, t) == list
FaultyEraseAll(k, t) == [list EXCEPT ![k] = <<>>]
FaultyEraseToNull(k, t) ==
    [list EXCEPT ![k] = [i \in 1 .. Len(@) |-> IF @[i] = t THEN None ELSE @[i]]]

\* The item of t leaves the list, if it is there.  std::remove takes every pointer to
\* the item; an item is an object of its own that is pushed once (NoStaleItem).
Erase(k, t) == [list EXCEPT ![k] = RemoveFirst(@, t)]

\* The agent runs script and makes one more Atomics call.
Call(a) ==
    /\ pc[a] = "run"
    /\ ops[a] < MaxOps
    /\ ops' = [ops EXCEPT ![a] = @ + 1]

-----------------------------------------------------------------------------
(* Script operations                                                        *)

\* Atomics.store.
Store(a, c, v) ==
    /\ Call(a)
    /\ mem' = [mem EXCEPT ![c] = v]
    /\ UNCHANGED <<list, wl, pc, waitState, vmState, result, removed>>

\* doWait up to the comparison, when the value differs from the expected 0.
WaitNotEqual(a, c) ==
    /\ Call(a)
    /\ wl[BlockAddress(c)] = None
    /\ mem[c] # 0
    /\ result' = [result EXCEPT ![a] = "not-equal"]
    /\ UNCHANGED <<shared, pc, waitState, vmState, removed>>

\* Synchronous wait: the value is as expected and the mutex is released before
\* it is taken again to enter the list.
WaitSync(a, c, t) ==
    /\ Call(a)
    /\ a \in Blocking
    /\ wl[BlockAddress(c)] = None
    /\ mem[c] = 0
    /\ Goto(a, "checked")
    /\ on' = [on EXCEPT ![a] = c]
    /\ timeout' = [timeout EXCEPT ![a] = t]
    /\ removed' = removed \ {a}
    /\ UNCHANGED <<shared, notified, vmState, result>>

\* Second critical section: add the item and sleep on the condition variable.
EnterWaiterList(a) ==
    /\ pc[a] = "checked"
    /\ wl[KeyOf(a)] = None
    /\ list' = [list EXCEPT ![KeyOf(a)] = Append(@, a)]
    /\ Goto(a, "sleep")
    /\ UNCHANGED <<mem, wl, waitState, vmState, result, removed, ops>>

\* The wait returns with the mutex; the item is erased if it is still listed.
WaitReturns(a) ==
    /\ pc[a] = "woken"
    /\ wl[KeyOf(a)] = None
    /\ list' = Erase(KeyOf(a), a)
    /\ result' = [result EXCEPT ![a] = IF notified[a] THEN "ok" ELSE "timed-out"]
    /\ Goto(a, "run")
    /\ on' = [on EXCEPT ![a] = None]
    /\ timeout' = [timeout EXCEPT ![a] = "inf"]
    /\ notified' = [notified EXCEPT ![a] = FALSE]
    /\ UNCHANGED <<mem, wl, vmState, removed, ops>>

\* Asynchronous wait with timeout 0: no waiter is made.
WaitAsyncZero(a, c) ==
    /\ Call(a)
    /\ "zero" \in Timeouts
    /\ wl[BlockAddress(c)] = None
    /\ mem[c] = 0
    /\ result' = [result EXCEPT ![a] = "timed-out"]
    /\ UNCHANGED <<shared, pc, waitState, vmState, removed>>

\* Asynchronous wait: the item is listed; the mutex stays locked while the
\* worker is started and entered in the VM's data.
WaitAsync(a, c, t, w) ==
    /\ Call(a)
    /\ t # "zero"
    /\ Owner[w] = a /\ pc[w] = "unused"
    /\ wl[BlockAddress(c)] = None
    /\ mem[c] = 0
    /\ list' = [list EXCEPT ![BlockAddress(c)] = Append(@, w)]
    /\ wl' = [wl EXCEPT ![BlockAddress(c)] = a]
    /\ pc' = [pc EXCEPT ![a] = "register", ![w] = "reserved"]
    /\ on' = [on EXCEPT ![w] = c]
    /\ timeout' = [timeout EXCEPT ![w] = t]
    /\ UNCHANGED <<mem, notified, vmState, result, removed>>

\* Still in doWait: take the data mutex, start the worker, release both.
RegisterAsyncWaiter(a) ==
    /\ pc[a] = "register"
    /\ ~dm[a]
    /\ \E w \in Workers :
         /\ Owner[w] = a /\ pc[w] = "reserved"
         /\ data' = [data EXCEPT ![a] = Append(@, w)]
         /\ wl' = [wl EXCEPT ![KeyOf(w)] = None]
         /\ pc' = [pc EXCEPT ![a] = "run", ![w] = "start"]
    /\ UNCHANGED <<mem, list, waitState, reported, pending, dm, result, removed, ops>>

\* How many items notify takes off a list, and with them how many notify_one
\* calls it makes.
NotifyCount(k, n) == IF n < Len(list[k]) THEN n ELSE Len(list[k])

\* The sleepers that m calls of notify_one may wake: the standard does not say
\* which.
Wakeable(k, m) ==
    {S \in SUBSET Sleepers(k) :
        Cardinality(S) = IF m < Cardinality(Sleepers(k)) THEN m
                         ELSE Cardinality(Sleepers(k))}

\* Atomics.notify: for each of the first items a notify_one and its removal.
Notify(a, c, n) ==
    LET k == BlockAddress(c)
        m == NotifyCount(k, n)
    IN  /\ Call(a)
        /\ wl[k] = None
        /\ list' = [list EXCEPT ![k] = SubSeq(@, m + 1, Len(@))]
        /\ removed' = removed \cup {list[k][i] : i \in 1 .. m}
        /\ \E S \in Wakeable(k, m) :
             /\ pc' = [t \in Threads |-> IF t \in S THEN "woken" ELSE pc[t]]
             /\ notified' = [t \in Threads |-> t \in S \/ notified[t]]
        /\ UNCHANGED <<mem, wl, on, timeout, vmState, result>>

-----------------------------------------------------------------------------
(* The condition variable                                                   *)

\* The timeout is lost: the thread waits without one.
FaultyHasTimeout(t) == timeout[t] = "zero"

\* wait_for instead of wait.
HasTimeout(t) == timeout[t] # "inf"

\* wait_for runs out: the thread leaves the condition variable by itself.
WaitTimesOut(t) ==
    /\ pc[t] = "sleep"
    /\ HasTimeout(t)
    /\ Goto(t, "woken")
    /\ notified' = [notified EXCEPT ![t] = FALSE]
    /\ UNCHANGED <<shared, on, timeout, vmState, result, removed, ops>>

\* A spurious wakeup, which the code cannot tell from a notification.
SpuriousWakeup(t) ==
    /\ Spurious
    /\ pc[t] = "sleep"
    /\ Goto(t, "woken")
    /\ notified' = [notified EXCEPT ![t] = TRUE]
    /\ UNCHANGED <<shared, on, timeout, vmState, result, removed, ops>>

-----------------------------------------------------------------------------
(* The worker thread of an asynchronous wait                                *)

\* The worker sleeps whether or not its item is listed, or never does.
FaultyStillListed(w) == TRUE
FaultyNotListed(w) == FALSE

\* The worker only sleeps while its item is still listed.
StillListed(w) == \E i \in 1 .. Len(list[KeyOf(w)]) : list[KeyOf(w)][i] = w

WorkerStarts(w) ==
    /\ pc[w] = "start"
    /\ wl[KeyOf(w)] = None
    /\ \/ StillListed(w) /\ Goto(w, "sleep") /\ UNCHANGED notified
       \/ /\ ~StillListed(w)
          /\ Goto(w, "report")
          /\ notified' = [notified EXCEPT ![w] = TRUE]
    /\ UNCHANGED <<shared, on, timeout, vmState, result, removed, ops>>

\* The condition variable gives the mutex back and the worker releases it.
WorkerWakes(w) ==
    /\ pc[w] = "woken"
    /\ wl[KeyOf(w)] = None
    /\ Goto(w, "report")
    /\ UNCHANGED <<shared, waitState, vmState, result, removed, ops>>

\* Under the data mutex: mark the entry, count it, wake the event loop.
WorkerReports(w) ==
    LET a == Owner[w]
    IN  /\ pc[w] = "report"
        /\ ~dm[a]
        /\ reported' = reported \cup {w}
        /\ pending' = [pending EXCEPT ![a] = @ + 1]
        /\ pc' = [pc EXCEPT ![w] = "erase",
                            ![a] = IF @ = "eventWait" THEN "execute" ELSE @]
        /\ UNCHANGED <<shared, waitState, data, dm, result, removed, ops>>

\* The item is erased while the data mutex is held.
FaultyWorkerErases(w) ==
    /\ pc[w] = "erase"
    /\ wl[KeyOf(w)] = None /\ ~dm[Owner[w]]
    /\ list' = Erase(KeyOf(w), w)
    /\ Goto(w, "exit")
    /\ UNCHANGED <<mem, wl, waitState, vmState, result, removed, ops>>

\* Take the item off the list, if a timeout or a spurious wakeup left it there.
WorkerErases(w) ==
    /\ pc[w] = "erase"
    /\ wl[KeyOf(w)] = None
    /\ list' = Erase(KeyOf(w), w)
    /\ Goto(w, "exit")
    /\ UNCHANGED <<mem, wl, waitState, vmState, result, removed, ops>>

-----------------------------------------------------------------------------
(* The event loop: while (hasPendingJobFromAnotherThread()) ...             *)

\* waitEventFromAnotherThread.
WaitEvent(a) ==
    /\ pc[a] = "run"
    /\ data[a] # <<>>
    /\ ~dm[a]
    /\ Goto(a, IF pending[a] > 0 THEN "execute" ELSE "eventWait")
    /\ UNCHANGED <<shared, waitState, vmState, result, removed, ops>>

WaitEventTimesOut(a) ==
    /\ LoopTimed
    /\ pc[a] = "eventWait"
    /\ Goto(a, "run")
    /\ UNCHANGED <<shared, waitState, vmState, result, removed, ops>>

\* The event loop's condition variable may wake it by itself, too.
SpuriousEvent(a) ==
    /\ Spurious
    /\ pc[a] = "eventWait"
    /\ Goto(a, "execute")
    /\ UNCHANGED <<shared, waitState, vmState, result, removed, ops>>

\* executePendingJobFromAnotherThread holds the data mutex from here on.
ExecutePending(a) ==
    /\ pc[a] = "execute"
    /\ ~dm[a]
    /\ dm' = [dm EXCEPT ![a] = TRUE]
    /\ Goto(a, "drain")
    /\ UNCHANGED <<shared, waitState, data, reported, pending, result, removed, ops>>

\* Positions of the entries whose worker has reported.
Finished(a) == {i \in 1 .. Len(data[a]) : data[a][i] \in reported}

\* The loop finds its next reported entry and fulfills the promise.
FulfillPromise(a) ==
    /\ pc[a] = "drain"
    /\ \E i \in Finished(a) :
         /\ \A j \in Finished(a) : i <= j
         /\ result' = [result EXCEPT ![data[a][i]] =
                         IF notified[data[a][i]] THEN "ok" ELSE "timed-out"]
    /\ Goto(a, "join")
    /\ UNCHANGED <<shared, waitState, vmState, removed, ops>>

\* The entry is dropped without join().
FaultyJoinable(w) == TRUE

\* join() returns once the thread has ended.
Joinable(w) == pc[w] = "exit"

\* join() blocks until the worker is gone; then the entry is erased.
JoinWorker(a) ==
    /\ pc[a] = "join"
    /\ \E i \in Finished(a) :
         /\ \A j \in Finished(a) : i <= j
         /\ Joinable(data[a][i])
         /\ data' = [data EXCEPT ![a] = RemoveAt(@, i)]
         /\ reported' = reported \ {data[a][i]}
    /\ Goto(a, "drain")
    /\ UNCHANGED <<shared, waitState, pending, dm, result, removed, ops>>

\* The pending counter is not reset.
FaultyDrainEnds(a) ==
    /\ pc[a] = "drain"
    /\ Finished(a) = {}
    /\ dm' = [dm EXCEPT ![a] = FALSE]
    /\ Goto(a, "run")
    /\ UNCHANGED <<shared, waitState, data, reported, pending, result, removed, ops>>

DrainEnds(a) ==
    /\ pc[a] = "drain"
    /\ Finished(a) = {}
    /\ pending' = [pending EXCEPT ![a] = 0]
    /\ dm' = [dm EXCEPT ![a] = FALSE]
    /\ Goto(a, "run")
    /\ UNCHANGED <<shared, waitState, data, reported, result, removed, ops>>

-----------------------------------------------------------------------------
\* What a script may do next.
Script(a) ==
    \E c \in Cells :
      \/ \E v \in {0, 1} : Store(a, c, v)
      \/ WaitNotEqual(a, c)
      \/ \E t \in Timeouts : WaitSync(a, c, t)
      \/ WaitAsyncZero(a, c)
      \/ \E t \in Timeouts, w \in Workers : WaitAsync(a, c, t, w)
      \/ \E n \in Counts : Notify(a, c, n)

\* What an agent goes on with by itself.
Proceed(a) ==
    \/ EnterWaiterList(a) \/ WaitReturns(a) \/ RegisterAsyncWaiter(a)
    \/ ExecutePending(a) \/ FulfillPromise(a) \/ JoinWorker(a) \/ DrainEnds(a)

Loop(a) == WaitEvent(a) \/ WaitEventTimesOut(a) \/ SpuriousEvent(a)

Work(w) == WorkerStarts(w) \/ WorkerWakes(w) \/ WorkerReports(w) \/ WorkerErases(w)

Next ==
    \/ \E a \in Agents : Script(a) \/ Proceed(a) \/ Loop(a)
    \/ \E w \in Workers : Work(w)
    \/ \E t \in Threads : WaitTimesOut(t) \/ SpuriousWakeup(t)

Fairness ==
    /\ \A a \in Agents : WF_vars(Proceed(a)) /\ WF_vars(WaitEvent(a))
    /\ \A w \in Workers : WF_vars(Work(w))
    /\ \A t \in Threads : WF_vars(WaitTimesOut(t))

Spec == Init /\ [][Next]_vars

FairSpec == Spec /\ Fairness
-----------------------------------------------------------------------------
(* Correctness                                                              *)

\* Every variable has its type (Global::Waiter, VMInstance's async waiter data).
TypeOK ==
    /\ mem \in [Cells -> {0, 1}]
    /\ list \in [Keys -> Seq(Threads)]
    /\ wl \in [Keys -> Agents \cup {None}]
    /\ pc \in [Threads -> AgentSteps \cup WorkerSteps]
    /\ on \in [Threads -> Cells \cup {None}]
    /\ timeout \in [Threads -> {"zero", "finite", "inf"}]
    /\ notified \in [Threads -> BOOLEAN]
    /\ data \in [Agents -> Seq(Workers)]
    /\ reported \subseteq Workers
    /\ pending \in [Agents -> Nat]
    /\ dm \in [Agents -> BOOLEAN]
    /\ result \in [Threads -> Results]
    /\ removed \subseteq Threads
    /\ ops \in [Agents -> Nat]

\* The threads that have an item to be listed: from AddWaiter to the erase that
\* follows the condition variable wait.
MayBeListed(t) ==
    pc[t] \in {"sleep", "woken", "reserved", "start", "report", "erase"}

\* A waiter list names a thread at most once, and only while that thread is in
\* the wait the item was made for: no timeout, spurious wakeup or notification
\* leaves an item behind that a later notify would count.
NoStaleItem ==
    \A k \in Keys : \A i \in 1 .. Len(list[k]) :
      /\ MayBeListed(list[k][i])
      /\ KeyOf(list[k][i]) = k
      /\ \A j \in 1 .. Len(list[k]) : list[k][i] = list[k][j] => i = j

\* The item of t is on its waiter list.
Listed(t) == \E i \in 1 .. Len(list[KeyOf(t)]) : list[KeyOf(t)][i] = t

\* Every waiter is accounted for, whichever thread a notify_one really wakes: from
\* AddWaiter to its own erase, its item is on the list for a later notify to count, or a
\* notify has counted it, and never both.
ItemsAccounted ==
    \A t \in Threads : MayBeListed(t) => (Listed(t) <=> t \notin removed)

\* A worker that finds its item gone before it first sleeps, and reports "ok" without
\* sleeping at all, was counted by a notify in the meantime.
EarlyReportNotified ==
    [][\A w \in Workers : pc[w] = "start" /\ pc'[w] = "report" => w \in removed]_vars

\* notify only reaches threads that wait for the cell it was called with.
NotifyOwnCell ==
    [][\A a \in Agents, c \in Cells, n \in Counts : Notify(a, c, n) =>
         \A t \in removed' \ removed : on[t] = c]_vars

\* A notify of all waiters reaches every synchronous wait that has seen the
\* expected value: there is no gap between the comparison and AddWaiter.
NotifyReachesChecked ==
    [][\A a \in Agents, c \in Cells, n \in Counts :
         Notify(a, c, n) /\ n >= Cardinality(Threads) =>
           \A b \in Agents : pc[b] \in {"checked", "sleep"} /\ on[b] = c
                               => pc'[b] = "woken"]_vars

\* When nobody holds the data mutex the pending counter that decides whether the
\* event loop may sleep equals the number of finished waits in the data.
PendingExact ==
    \A a \in Agents : ~dm[a] => pending[a] = Cardinality(Finished(a))

\* An asynchronous promise is fulfilled once, with the outcome its worker had
\* reported, and its entry goes only after the worker thread has ended.
SettledOnce ==
    [][\A w \in Workers :
         /\ result'[w] # result[w] => result[w] = "none" /\ w \in reported
         /\ w \in reported /\ w \notin reported' => pc[w] = "exit" /\ result[w] # "none"]_vars

\* An asynchronous wait that a notify has taken off its list is settled in the end: no
\* wakeup is lost between the start of the worker and its sleep, nor on the way through
\* report and drain.  The one excuse is a worker that sleeps on because notify_one has
\* woken another waiter of the list in its place.
NotifiedSettles ==
    \A w \in Workers : w \in removed /\ pc[w] # "sleep" ~> result[w] # "none"

\* The event loop cannot hang in join() while it holds the data mutex.
DrainTerminates ==
    \A a \in Agents : dm[a] ~> ~dm[a]

\* A wait with a finite timeout returns, whoever notifies or not.
TimedWaitReturns ==
    \A a \in Agents : pc[a] = "checked" /\ timeout[a] # "inf" ~> pc[a] = "run"
=============================================================================
