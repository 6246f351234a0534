------------------------- MODULE AtomicsWaitProofs -------------------------
(***************************************************************************)
(* Proofs about AtomicsWait for any number of agents, workers, cells and    *)
(* calls, any layout of the buffers and any notify counts and timeouts.     *)
(***************************************************************************)
EXTENDS AtomicsWait, SequenceLemmas

-----------------------------------------------------------------------------
(* The parts of the inductive invariant                                     *)

\* Agents and workers keep to their own steps.
StepsTyped ==
    /\ \A a \in Agents : pc[a] \in AgentSteps
    /\ \A w \in Workers : pc[w] \in WorkerSteps

\* A thread in a wait knows its cell.
CellKnown ==
    /\ \A a \in Agents : pc[a] \in {"checked", "sleep", "woken"} => on[a] \in Cells
    /\ \A w \in Workers : pc[w] # "unused" => on[w] \in Cells

Base == TypeOK /\ StepsTyped /\ CellKnown

\* The address of a cell is one a waiter list may be looked up with.
LEMMA KeyInKeys ==
  ASSUME NEW c \in Cells
  PROVE  BlockAddress(c) \in Keys
  BY DEF Keys

\* Erase leaves lists of threads.
LEMMA EraseType ==
  ASSUME list \in [Keys -> Seq(Threads)], NEW k \in Keys, NEW t
  PROVE  Erase(k, t) \in [Keys -> Seq(Threads)]
<1>1. list[k] \in Seq(Threads)
  OBVIOUS
<1>2. RemoveFirst(list[k], t) \in Seq(Threads)
  BY <1>1, RemoveFirstCases, RemoveAtProperties
<1> QED
  BY <1>2 DEF Erase

\* A thread goes to another of its steps.
LEMMA GotoStep ==
  ASSUME TypeOK, StepsTyped, NEW t \in Threads, NEW step, Goto(t, step),
         \/ t \in Agents /\ step \in AgentSteps
         \/ t \in Workers /\ step \in WorkerSteps
  PROVE  /\ pc' \in [Threads -> AgentSteps \cup WorkerSteps]
         /\ StepsTyped'
         /\ pc'[t] = step
         /\ \A u \in Threads : u # t => pc'[u] = pc[u]
<1>1. pc \in [Threads -> AgentSteps \cup WorkerSteps] /\ pc' = [pc EXCEPT ![t] = step]
  BY DEF TypeOK, Goto
<1>2. \A u \in Threads : pc'[u] = IF u = t THEN step ELSE pc[u]
  BY <1>1
<1>3. StepsTyped'
  BY <1>2, AtomicsWaitAssumption DEF StepsTyped, Threads
<1>4. pc' \in [Threads -> AgentSteps \cup WorkerSteps]
  BY <1>1, <1>2
<1> QED
  BY <1>2, <1>3, <1>4

\* An agent and a worker go on together.
LEMMA GotoBoth ==
  ASSUME TypeOK, StepsTyped, NEW a \in Agents, NEW w \in Workers,
         NEW s \in AgentSteps, NEW u \in WorkerSteps,
         pc' = [t \in Threads |-> IF t = w THEN u ELSE IF t = a THEN s ELSE pc[t]]
  PROVE  /\ pc' \in [Threads -> AgentSteps \cup WorkerSteps]
         /\ StepsTyped'
         /\ pc'[a] = s /\ pc'[w] = u
         /\ \A t \in Threads : t # a /\ t # w => pc'[t] = pc[t]
<1>1. \A t \in Threads : pc[t] \in AgentSteps \cup WorkerSteps
  BY DEF TypeOK
<1>2. pc' \in [Threads -> AgentSteps \cup WorkerSteps]
  BY <1>1
<1>3. a \in Threads /\ w \in Threads /\ a # w
  BY AtomicsWaitAssumption DEF Threads
<1>4. pc'[a] = s /\ pc'[w] = u /\ \A t \in Threads : t # a /\ t # w => pc'[t] = pc[t]
  BY <1>3
<1>5. StepsTyped'
  BY <1>4, AtomicsWaitAssumption DEF StepsTyped, Threads
<1> QED
  BY <1>2, <1>4, <1>5

\* The steps an agent and a worker are named with in the actions.
LEMMA Steps ==
  /\ \A s \in {"run", "register", "checked", "sleep", "woken", "eventWait", "execute",
               "drain", "join"} : s \in AgentSteps
  /\ \A s \in {"unused", "reserved", "start", "sleep", "woken", "report", "erase", "exit"} :
       s \in WorkerSteps
  BY DEF AgentSteps, WorkerSteps

\* The base of the invariant holds initially.
LEMMA BaseInit == Init => Base
  BY AtomicsWaitAssumption
  DEF Init, Base, TypeOK, StepsTyped, CellKnown, Threads, AgentSteps, WorkerSteps, Results

\* Every step keeps the types, the steps of both kinds of thread and their cells.
LEMMA BaseNext == Base /\ [Next]_vars => Base'
<1> SUFFICES ASSUME Base, [Next]_vars PROVE Base'
  OBVIOUS
<1>0. TypeOK /\ StepsTyped /\ CellKnown
  BY DEF Base
<1> USE AtomicsWaitAssumption
<1>1. ASSUME NEW a \in Agents, NEW c \in Cells, NEW v \in {0, 1}, Store(a, c, v) PROVE Base'
  BY <1>0, <1>1 DEF Store, Call, Base, StepsTyped, CellKnown, TypeOK, Threads, Results, shared, waitState, vmState
<1>2. ASSUME NEW a \in Agents, NEW c \in Cells, WaitNotEqual(a, c) PROVE Base'
  BY <1>0, <1>2 DEF WaitNotEqual, Call, Base, StepsTyped, CellKnown, TypeOK, Threads, Results, shared, waitState, vmState
<1>3. ASSUME NEW a \in Agents, NEW c \in Cells, NEW t \in Timeouts, WaitSync(a, c, t) PROVE Base'
  <2>1. Goto(a, "checked") /\ a \in Threads
    BY <1>3 DEF WaitSync, Threads
  <2>2. /\ pc' \in [Threads -> AgentSteps \cup WorkerSteps] /\ StepsTyped' /\ pc'[a] = "checked"
        /\ \A u \in Threads : u # a => pc'[u] = pc[u]
    BY <1>0, <2>1, GotoStep, Steps
  <2>3. /\ on' \in [Threads -> Cells \cup {None}] /\ removed' \subseteq Threads
        /\ timeout' \in [Threads -> {"zero", "finite", "inf"}]
        /\ ops' \in [Agents -> Nat]
    <3>1. t \in {"zero", "finite", "inf"}
      OBVIOUS
    <3>2. timeout' \in [Threads -> {"zero", "finite", "inf"}]
      BY <1>0, <1>3, <3>1 DEF WaitSync, TypeOK
    <3>3. ops' \in [Agents -> Nat]
      BY <1>0, <1>3 DEF WaitSync, Call, TypeOK
    <3>4. on' \in [Threads -> Cells \cup {None}] /\ removed' \subseteq Threads
      BY <1>0, <1>3 DEF WaitSync, TypeOK
    <3> QED
      BY <3>2, <3>3, <3>4
  <2>4. TypeOK'
    BY <1>0, <1>3, <2>2, <2>3 DEF WaitSync, TypeOK, shared, waitState, vmState
  <2>5. CellKnown'
    BY <1>0, <1>3, <2>2 DEF WaitSync, CellKnown, TypeOK, Threads, Results, shared, waitState, vmState
  <2> QED
    BY <2>2, <2>4, <2>5 DEF Base
<1>4. ASSUME NEW a \in Agents, EnterWaiterList(a) PROVE Base'
  <2>1. list' \in [Keys -> Seq(Threads)]
    BY <1>0, <1>4, KeyInKeys, AppendProperties DEF EnterWaiterList, KeyOf, TypeOK, CellKnown, Threads
  <2>2. Goto(a, "sleep") /\ a \in Threads
    BY <1>4 DEF EnterWaiterList, Threads
  <2>3. /\ pc' \in [Threads -> AgentSteps \cup WorkerSteps] /\ StepsTyped' /\ pc'[a] = "sleep"
        /\ \A u \in Threads : u # a => pc'[u] = pc[u]
    BY <1>0, <2>2, GotoStep, Steps
  <2>4. TypeOK'
    BY <1>0, <1>4, <2>1, <2>3 DEF EnterWaiterList, Call, TypeOK, Threads, Results, shared, waitState, vmState
  <2>5. CellKnown'
    BY <1>0, <1>4, <2>3 DEF EnterWaiterList, CellKnown, TypeOK, Threads, Results, shared, waitState, vmState
  <2> QED
    BY <2>3, <2>4, <2>5 DEF Base
<1>5. ASSUME NEW a \in Agents, WaitReturns(a) PROVE Base'
  <2>1. list' \in [Keys -> Seq(Threads)]
    BY <1>0, <1>5, KeyInKeys, EraseType DEF WaitReturns, KeyOf, TypeOK, CellKnown, Threads
  <2>2. Goto(a, "run") /\ a \in Threads
    BY <1>5 DEF WaitReturns, Threads
  <2>3. /\ pc' \in [Threads -> AgentSteps \cup WorkerSteps] /\ StepsTyped' /\ pc'[a] = "run"
        /\ \A u \in Threads : u # a => pc'[u] = pc[u]
    BY <1>0, <2>2, GotoStep, Steps
  <2>4. TypeOK'
    BY <1>0, <1>5, <2>1, <2>3 DEF WaitReturns, Call, TypeOK, Threads, Results, shared, waitState, vmState
  <2>5. CellKnown'
    BY <1>0, <1>5, <2>3 DEF WaitReturns, CellKnown, TypeOK, Threads, Results, shared, waitState, vmState
  <2> QED
    BY <2>3, <2>4, <2>5 DEF Base
<1>6. ASSUME NEW a \in Agents, NEW c \in Cells, WaitAsyncZero(a, c) PROVE Base'
  BY <1>0, <1>6 DEF WaitAsyncZero, Call, Base, StepsTyped, CellKnown, TypeOK, Threads, Results, shared, waitState, vmState
<1>7. ASSUME NEW a \in Agents, NEW c \in Cells, NEW t \in Timeouts, NEW w \in Workers, WaitAsync(a, c, t, w)
      PROVE  Base'
  <2>1. list' \in [Keys -> Seq(Threads)]
    BY <1>0, <1>7, KeyInKeys, AppendProperties DEF WaitAsync, TypeOK, Threads
  <2>2. pc' = [t0 \in Threads |-> IF t0 = w THEN "reserved" ELSE IF t0 = a THEN "register" ELSE pc[t0]]
    BY <1>0, <1>7 DEF WaitAsync, TypeOK, Threads
  <2>3. /\ pc' \in [Threads -> AgentSteps \cup WorkerSteps] /\ StepsTyped'
        /\ pc'[a] = "register" /\ pc'[w] = "reserved"
        /\ \A t0 \in Threads : t0 # a /\ t0 # w => pc'[t0] = pc[t0]
    BY <1>0, <2>2, GotoBoth, Steps
  <2>4. /\ wl' \in [Keys -> Agents \cup {None}]
        /\ on' \in [Threads -> Cells \cup {None}]
        /\ timeout' \in [Threads -> {"zero", "finite", "inf"}]
        /\ ops' \in [Agents -> Nat]
    <3>1. t \in {"zero", "finite", "inf"}
      OBVIOUS
    <3>2. timeout' \in [Threads -> {"zero", "finite", "inf"}]
      BY <1>0, <1>7, <3>1 DEF WaitAsync, TypeOK
    <3>3. ops' \in [Agents -> Nat]
      BY <1>0, <1>7 DEF WaitAsync, Call, TypeOK
    <3>4. on' \in [Threads -> Cells \cup {None}]
      BY <1>0, <1>7 DEF WaitAsync, TypeOK
    <3>5. wl' \in [Keys -> Agents \cup {None}]
      BY <1>0, <1>7, KeyInKeys DEF WaitAsync, TypeOK
    <3> QED
      BY <3>2, <3>3, <3>4, <3>5
  <2>5. TypeOK'
    BY <1>0, <1>7, <2>1, <2>3, <2>4 DEF WaitAsync, TypeOK, shared, waitState, vmState
  <2>6. CellKnown'
    BY <1>0, <1>7, <2>3 DEF WaitAsync, CellKnown, TypeOK, Threads, Results, shared, waitState, vmState
  <2> QED
    BY <2>3, <2>5, <2>6 DEF Base
<1>8. ASSUME NEW a \in Agents, RegisterAsyncWaiter(a) PROVE Base'
  <2>1. PICK w \in Workers :
         /\ Owner[w] = a /\ pc[w] = "reserved"
         /\ data' = [data EXCEPT ![a] = Append(@, w)]
         /\ wl' = [wl EXCEPT ![KeyOf(w)] = None]
         /\ pc' = [pc EXCEPT ![a] = "run", ![w] = "start"]
    BY <1>8 DEF RegisterAsyncWaiter
  <2>2. pc' = [t0 \in Threads |-> IF t0 = w THEN "start" ELSE IF t0 = a THEN "run" ELSE pc[t0]]
    BY <1>0, <2>1 DEF TypeOK, Threads
  <2>3. /\ pc' \in [Threads -> AgentSteps \cup WorkerSteps] /\ StepsTyped'
        /\ pc'[a] = "run" /\ pc'[w] = "start"
        /\ \A t0 \in Threads : t0 # a /\ t0 # w => pc'[t0] = pc[t0]
    BY <1>0, <2>2, GotoBoth, Steps
  <2>4. wl' \in [Keys -> Agents \cup {None}] /\ data' \in [Agents -> Seq(Workers)]
    <3>1. wl' \in [Keys -> Agents \cup {None}]
      BY <1>0, <2>1 DEF TypeOK
    <3>2. Append(data[a], w) \in Seq(Workers)
      BY <1>0 DEF TypeOK
    <3>3. data' \in [Agents -> Seq(Workers)]
      BY <1>0, <2>1, <3>2 DEF TypeOK
    <3> QED
      BY <3>1, <3>3
  <2>5. TypeOK'
    BY <1>0, <1>8, <2>3, <2>4 DEF RegisterAsyncWaiter, TypeOK, shared, waitState, vmState
  <2>6. CellKnown'
    BY <1>0, <1>8, <2>1, <2>3 DEF RegisterAsyncWaiter, CellKnown, TypeOK, Threads, Results, shared, waitState, vmState
  <2> QED
    BY <2>3, <2>5, <2>6 DEF Base
<1>9. ASSUME NEW a \in Agents, NEW c \in Cells, NEW n \in Counts, Notify(a, c, n) PROVE Base'
  <2> DEFINE k == BlockAddress(c)
             m == NotifyCount(k, n)
  <2>1. k \in Keys /\ list[k] \in Seq(Threads) /\ m \in 0 .. Len(list[k])
    BY <1>0, KeyInKeys DEF NotifyCount, TypeOK
  <2>2. PICK S \in Wakeable(k, m) :
             /\ pc' = [t \in Threads |-> IF t \in S THEN "woken" ELSE pc[t]]
             /\ notified' = [t \in Threads |-> t \in S \/ notified[t]]
    BY <1>9 DEF Notify
  <2>3. \A t \in S : pc[t] = "sleep"
    BY <2>2 DEF Wakeable, Sleepers
  <2> HIDE DEF m, k
  <2>4. SubSeq(list[k], m + 1, Len(list[k])) \in Seq(Threads)
    BY <2>1
  <2>5. \A i \in 1 .. m : list[k][i] \in Threads
    BY <2>1
  <2>6. /\ list' = [list EXCEPT ![k] = SubSeq(@, m + 1, Len(@))]
        /\ removed' = removed \cup {list[k][i] : i \in 1 .. m}
        /\ ops[a] < MaxOps /\ ops' = [ops EXCEPT ![a] = @ + 1]
        /\ UNCHANGED <<mem, wl, on, timeout, vmState, result>>
    BY <1>9 DEF Notify, Call, m, k
  <2>7. list' \in [Keys -> Seq(Threads)] /\ removed' \subseteq Threads
    BY <1>0, <2>1, <2>4, <2>5, <2>6 DEF TypeOK
  <2>8. pc' \in [Threads -> AgentSteps \cup WorkerSteps] /\ StepsTyped'
    BY <1>0, <2>2, <2>3, Steps DEF TypeOK, StepsTyped, Threads
  <2>9. notified' \in [Threads -> BOOLEAN]
    BY <2>2
  <2>10. TypeOK'
    BY <1>0, <2>6, <2>7, <2>8, <2>9, SMTT(30) DEF TypeOK, vmState
  <2>11. CellKnown'
    BY <1>0, <2>2, <2>3, <2>6 DEF CellKnown, Threads
  <2> QED
    BY <2>8, <2>10, <2>11 DEF Base
<1>10. ASSUME NEW t \in Threads, WaitTimesOut(t) PROVE Base'
  <2>1. Goto(t, "woken")
    BY <1>10 DEF WaitTimesOut
  <2>2. pc[t] = "sleep" /\ UNCHANGED <<shared, on, timeout, vmState, result, removed, ops>>
    BY <1>10 DEF WaitTimesOut
  <2>3. /\ pc' \in [Threads -> AgentSteps \cup WorkerSteps] /\ StepsTyped' /\ pc'[t] = "woken"
        /\ \A u \in Threads : u # t => pc'[u] = pc[u]
    BY <1>0, <2>1, GotoStep, Steps DEF Threads
  <2>4. TypeOK'
    BY <1>0, <1>10, <2>2, <2>3 DEF WaitTimesOut, TypeOK, Threads, Results, shared, waitState, vmState
  <2>5. CellKnown'
    BY <1>0, <2>2, <2>3 DEF CellKnown, Threads
  <2> QED
    BY <2>3, <2>4, <2>5 DEF Base
<1>11. ASSUME NEW t \in Threads, SpuriousWakeup(t) PROVE Base'
  <2>1. Goto(t, "woken")
    BY <1>11 DEF SpuriousWakeup
  <2>2. pc[t] = "sleep" /\ UNCHANGED <<shared, on, timeout, vmState, result, removed, ops>>
    BY <1>11 DEF SpuriousWakeup
  <2>3. /\ pc' \in [Threads -> AgentSteps \cup WorkerSteps] /\ StepsTyped' /\ pc'[t] = "woken"
        /\ \A u \in Threads : u # t => pc'[u] = pc[u]
    BY <1>0, <2>1, GotoStep, Steps DEF Threads
  <2>4. TypeOK'
    BY <1>0, <1>11, <2>2, <2>3 DEF SpuriousWakeup, TypeOK, Threads, Results, shared, waitState, vmState
  <2>5. CellKnown'
    BY <1>0, <2>2, <2>3 DEF CellKnown, Threads
  <2> QED
    BY <2>3, <2>4, <2>5 DEF Base
<1>12. ASSUME NEW w \in Workers, WorkerStarts(w) PROVE Base'
  <2>1. PICK step \in {"sleep", "report"} : Goto(w, step)
    BY <1>12 DEF WorkerStarts
  <2>2. /\ pc' \in [Threads -> AgentSteps \cup WorkerSteps] /\ StepsTyped' /\ pc'[w] = step
        /\ \A u \in Threads : u # w => pc'[u] = pc[u]
    BY <1>0, <2>1, GotoStep, Steps, ZenonT(30) DEF Threads
  <2>3. notified' \in [Threads -> BOOLEAN]
    BY <1>0, <1>12 DEF WorkerStarts, TypeOK
  <2>4. TypeOK'
    BY <1>0, <1>12, <2>2, <2>3 DEF WorkerStarts, TypeOK, Threads, Results, shared, waitState, vmState
  <2>5. CellKnown'
    BY <1>0, <1>12, <2>2 DEF WorkerStarts, CellKnown, Threads
  <2> QED
    BY <2>2, <2>4, <2>5 DEF Base
<1>13. ASSUME NEW w \in Workers, WorkerWakes(w) PROVE Base'
  <2>2. Goto(w, "report") /\ w \in Threads
    BY <1>13 DEF WorkerWakes, Threads
  <2>3. /\ pc' \in [Threads -> AgentSteps \cup WorkerSteps] /\ StepsTyped' /\ pc'[w] = "report"
        /\ \A u \in Threads : u # w => pc'[u] = pc[u]
    BY <1>0, <2>2, GotoStep, Steps
  <2>4. TypeOK'
    BY <1>0, <1>13, <2>3 DEF WorkerWakes, Call, TypeOK, Threads, Results, shared, waitState, vmState
  <2>5. CellKnown'
    BY <1>0, <1>13, <2>3 DEF WorkerWakes, CellKnown, TypeOK, Threads, Results, shared, waitState, vmState
  <2> QED
    BY <2>3, <2>4, <2>5 DEF Base
<1>14. ASSUME NEW w \in Workers, WorkerReports(w) PROVE Base'
  <2> DEFINE a == Owner[w]
             s == IF pc[a] = "eventWait" THEN "execute" ELSE pc[a]
  <2>1. /\ pc[w] = "report" /\ a \in Agents
        /\ pc' = [pc EXCEPT ![w] = "erase", ![a] = IF @ = "eventWait" THEN "execute" ELSE @]
    BY <1>14 DEF WorkerReports
  <2>2. pc' = [t0 \in Threads |-> IF t0 = w THEN "erase" ELSE IF t0 = a THEN s ELSE pc[t0]]
    <3>1. a # w /\ a \in Threads /\ w \in Threads /\ pc \in [Threads -> AgentSteps \cup WorkerSteps]
      BY <1>0, <2>1 DEF TypeOK, Threads
    <3> HIDE DEF a
    <3> QED
      BY <2>1, <3>1
  <2>3. s \in AgentSteps /\ (s = pc[a] \/ s = "execute")
    BY <1>0, <2>1, Steps DEF StepsTyped
  <2> HIDE DEF s, a
  <2>4. /\ pc' \in [Threads -> AgentSteps \cup WorkerSteps] /\ StepsTyped'
        /\ pc'[a] = s /\ pc'[w] = "erase"
        /\ \A t0 \in Threads : t0 # a /\ t0 # w => pc'[t0] = pc[t0]
    <3>1. "erase" \in WorkerSteps
      BY Steps
    <3>2. a \in Agents /\ s \in AgentSteps
      BY <2>1, <2>3
    <3> QED
      BY <1>0, <2>2, <2>3, <3>1, <3>2, GotoBoth
  <2>5. reported' \subseteq Workers /\ pending' \in [Agents -> Nat]
    BY <1>0, <1>14, <2>1 DEF WorkerReports, TypeOK, a
  <2>6. TypeOK'
    BY <1>0, <1>14, <2>4, <2>5 DEF WorkerReports, TypeOK, shared, waitState, vmState
  <2>7. CellKnown'
    BY <1>0, <1>14, <2>1, <2>3, <2>4 DEF WorkerReports, CellKnown, TypeOK, Threads, Results, shared, waitState, vmState
  <2> QED
    BY <2>4, <2>6, <2>7 DEF Base
<1>15. ASSUME NEW w \in Workers, WorkerErases(w) PROVE Base'
  <2>1. list' \in [Keys -> Seq(Threads)]
    BY <1>0, <1>15, KeyInKeys, EraseType DEF WorkerErases, KeyOf, TypeOK, CellKnown, Threads
  <2>2. Goto(w, "exit") /\ w \in Threads
    BY <1>15 DEF WorkerErases, Threads
  <2>3. /\ pc' \in [Threads -> AgentSteps \cup WorkerSteps] /\ StepsTyped' /\ pc'[w] = "exit"
        /\ \A u \in Threads : u # w => pc'[u] = pc[u]
    BY <1>0, <2>2, GotoStep, Steps
  <2>4. TypeOK'
    BY <1>0, <1>15, <2>1, <2>3 DEF WorkerErases, Call, TypeOK, Threads, Results, shared, waitState, vmState
  <2>5. CellKnown'
    BY <1>0, <1>15, <2>3 DEF WorkerErases, CellKnown, TypeOK, Threads, Results, shared, waitState, vmState
  <2> QED
    BY <2>3, <2>4, <2>5 DEF Base
<1>16. ASSUME NEW a \in Agents, WaitEvent(a) PROVE Base'
  <2>2. Goto(a, IF pending[a] > 0 THEN "execute" ELSE "eventWait") /\ a \in Threads
    BY <1>16 DEF WaitEvent, Threads
  <2>3. /\ pc' \in [Threads -> AgentSteps \cup WorkerSteps] /\ StepsTyped' /\ pc'[a] = IF pending[a] > 0 THEN "execute" ELSE "eventWait"
        /\ \A u \in Threads : u # a => pc'[u] = pc[u]
    BY <1>0, <2>2, GotoStep, Steps
  <2>4. TypeOK'
    BY <1>0, <1>16, <2>3 DEF WaitEvent, Call, TypeOK, Threads, Results, shared, waitState, vmState
  <2>5. CellKnown'
    BY <1>0, <1>16, <2>3 DEF WaitEvent, CellKnown, TypeOK, Threads, Results, shared, waitState, vmState
  <2> QED
    BY <2>3, <2>4, <2>5 DEF Base
<1>17. ASSUME NEW a \in Agents, WaitEventTimesOut(a) PROVE Base'
  <2>2. Goto(a, "run") /\ a \in Threads
    BY <1>17 DEF WaitEventTimesOut, Threads
  <2>3. /\ pc' \in [Threads -> AgentSteps \cup WorkerSteps] /\ StepsTyped' /\ pc'[a] = "run"
        /\ \A u \in Threads : u # a => pc'[u] = pc[u]
    BY <1>0, <2>2, GotoStep, Steps
  <2>4. TypeOK'
    BY <1>0, <1>17, <2>3 DEF WaitEventTimesOut, Call, TypeOK, Threads, Results, shared, waitState, vmState
  <2>5. CellKnown'
    BY <1>0, <1>17, <2>3 DEF WaitEventTimesOut, CellKnown, TypeOK, Threads, Results, shared, waitState, vmState
  <2> QED
    BY <2>3, <2>4, <2>5 DEF Base
<1>18. ASSUME NEW a \in Agents, SpuriousEvent(a) PROVE Base'
  <2>2. Goto(a, "execute") /\ a \in Threads
    BY <1>18 DEF SpuriousEvent, Threads
  <2>3. /\ pc' \in [Threads -> AgentSteps \cup WorkerSteps] /\ StepsTyped' /\ pc'[a] = "execute"
        /\ \A u \in Threads : u # a => pc'[u] = pc[u]
    BY <1>0, <2>2, GotoStep, Steps
  <2>4. TypeOK'
    BY <1>0, <1>18, <2>3 DEF SpuriousEvent, Call, TypeOK, Threads, Results, shared, waitState, vmState
  <2>5. CellKnown'
    BY <1>0, <1>18, <2>3 DEF SpuriousEvent, CellKnown, TypeOK, Threads, Results, shared, waitState, vmState
  <2> QED
    BY <2>3, <2>4, <2>5 DEF Base
<1>19. ASSUME NEW a \in Agents, ExecutePending(a) PROVE Base'
  <2>2. Goto(a, "drain") /\ a \in Threads
    BY <1>19 DEF ExecutePending, Threads
  <2>3. /\ pc' \in [Threads -> AgentSteps \cup WorkerSteps] /\ StepsTyped' /\ pc'[a] = "drain"
        /\ \A u \in Threads : u # a => pc'[u] = pc[u]
    BY <1>0, <2>2, GotoStep, Steps
  <2>4. TypeOK'
    BY <1>0, <1>19, <2>3 DEF ExecutePending, Call, TypeOK, Threads, Results, shared, waitState, vmState
  <2>5. CellKnown'
    BY <1>0, <1>19, <2>3 DEF ExecutePending, CellKnown, TypeOK, Threads, Results, shared, waitState, vmState
  <2> QED
    BY <2>3, <2>4, <2>5 DEF Base
<1>20. ASSUME NEW a \in Agents, FulfillPromise(a) PROVE Base'
  <2>1. PICK i \in Finished(a) :
          result' = [result EXCEPT ![data[a][i]] =
                       IF notified[data[a][i]] THEN "ok" ELSE "timed-out"]
    BY <1>20 DEF FulfillPromise
  <2>2. result' \in [Threads -> Results]
    BY <1>0, <2>1 DEF TypeOK, Results
  <2>3. Goto(a, "join")
    BY <1>20 DEF FulfillPromise
  <2>4. /\ pc' \in [Threads -> AgentSteps \cup WorkerSteps] /\ StepsTyped' /\ pc'[a] = "join"
        /\ \A u \in Threads : u # a => pc'[u] = pc[u]
    BY <1>0, <2>3, GotoStep, Steps DEF Threads
  <2>5. TypeOK'
    BY <1>0, <1>20, <2>2, <2>4 DEF FulfillPromise, TypeOK, shared, waitState, vmState
  <2>6. CellKnown'
    BY <1>0, <1>20, <2>4 DEF FulfillPromise, CellKnown, TypeOK, Threads, Results, shared, waitState, vmState
  <2> QED
    BY <2>4, <2>5, <2>6 DEF Base
<1>21. ASSUME NEW a \in Agents, JoinWorker(a) PROVE Base'
  <2>1. PICK i \in Finished(a) : /\ data' = [data EXCEPT ![a] = RemoveAt(@, i)]
                                 /\ reported' = reported \ {data[a][i]}
    BY <1>21 DEF JoinWorker
  <2>2. RemoveAt(data[a], i) \in Seq(Workers)
    BY <1>0, <2>1, RemoveAtProperties DEF Finished, TypeOK
  <2>3. Goto(a, "drain")
    BY <1>21 DEF JoinWorker
  <2>4. /\ pc' \in [Threads -> AgentSteps \cup WorkerSteps] /\ StepsTyped' /\ pc'[a] = "drain"
        /\ \A u \in Threads : u # a => pc'[u] = pc[u]
    BY <1>0, <2>3, GotoStep, Steps DEF Threads
  <2>5. TypeOK'
    BY <1>0, <1>21, <2>1, <2>2, <2>4 DEF JoinWorker, TypeOK, Threads, Results, shared, waitState, vmState
  <2>6. CellKnown'
    BY <1>0, <1>21, <2>4 DEF JoinWorker, CellKnown, TypeOK, Threads, Results, shared, waitState, vmState
  <2> QED
    BY <2>4, <2>5, <2>6 DEF Base
<1>22. ASSUME NEW a \in Agents, DrainEnds(a) PROVE Base'
  <2>2. Goto(a, "run") /\ a \in Threads
    BY <1>22 DEF DrainEnds, Threads
  <2>3. /\ pc' \in [Threads -> AgentSteps \cup WorkerSteps] /\ StepsTyped' /\ pc'[a] = "run"
        /\ \A u \in Threads : u # a => pc'[u] = pc[u]
    BY <1>0, <2>2, GotoStep, Steps
  <2>4. TypeOK'
    BY <1>0, <1>22, <2>3 DEF DrainEnds, Call, TypeOK, Threads, Results, shared, waitState, vmState
  <2>5. CellKnown'
    BY <1>0, <1>22, <2>3 DEF DrainEnds, CellKnown, TypeOK, Threads, Results, shared, waitState, vmState
  <2> QED
    BY <2>3, <2>4, <2>5 DEF Base
<1>23. CASE UNCHANGED vars
  BY <1>0, <1>23 DEF vars, Base, TypeOK, StepsTyped, CellKnown
<1> QED
  BY <1>1, <1>2, <1>3, <1>4, <1>5, <1>6, <1>7, <1>8, <1>9, <1>10, <1>11, <1>12, <1>13, <1>14, <1>15, <1>16, <1>17, <1>18, <1>19, <1>20, <1>21, <1>22, <1>23
  DEF Next, Script, Proceed, Loop, Work

-----------------------------------------------------------------------------
(* Waiter lists                                                             *)

\* Where no list changes, the threads on one go on being in their wait.
LEMMA ListsKept ==
  ASSUME Base, NoStaleItem, UNCHANGED list,
         \A t \in Threads : MayBeListed(t) => MayBeListed(t)' /\ on'[t] = on[t]
  PROVE  NoStaleItem'
<1> SUFFICES ASSUME NEW k \in Keys, NEW i \in 1 .. Len(list[k])
             PROVE  /\ MayBeListed(list[k][i])'
                    /\ KeyOf(list[k][i])' = k
                    /\ \A j \in 1 .. Len(list[k]) : list[k][i] = list[k][j] => i = j
  BY DEF NoStaleItem
<1>1. list[k][i] \in Threads
  BY DEF Base, TypeOK
<1> QED
  BY <1>1 DEF NoStaleItem, KeyOf

\* A thread that enters a list was on none.
LEMMA ListEntered ==
  ASSUME Base, NoStaleItem, NEW k \in Keys, NEW t \in Threads,
         ~ MayBeListed(t), list' = [list EXCEPT ![k] = Append(@, t)],
         MayBeListed(t)', KeyOf(t)' = k,
         \A u \in Threads : u # t => (MayBeListed(u) => MayBeListed(u)') /\ on'[u] = on[u]
  PROVE  NoStaleItem'
<1>1. list \in [Keys -> Seq(Threads)]
  BY DEF Base, TypeOK
<1>2. \A l \in Keys : \A i \in 1 .. Len(list[l]) : list[l][i] \in Threads /\ list[l][i] # t
  BY <1>1 DEF NoStaleItem
<1>3. ASSUME NEW l \in Keys, NEW i \in 1 .. Len(list[l]), NEW u, u = list[l][i]
      PROVE  MayBeListed(u)' /\ KeyOf(u)' = l
  <2>1. u \in Threads /\ u # t /\ MayBeListed(u) /\ KeyOf(u) = l
    BY <1>2, <1>3 DEF NoStaleItem
  <2> QED
    BY <2>1 DEF KeyOf
<1>4. /\ \A l \in Keys : l # k => list'[l] = list[l]
      /\ list'[k] = Append(list[k], t)
  BY <1>1
<1>5. /\ Len(list'[k]) = Len(list[k]) + 1 /\ Len(list[k]) \in Nat
      /\ list'[k][Len(list[k]) + 1] = t
      /\ \A i \in 1 .. Len(list[k]) : list'[k][i] = list[k][i]
  BY <1>1, <1>4
<1>6. ASSUME NEW l \in Keys, l # k, NEW i \in 1 .. Len(list'[l])
      PROVE  (/\ MayBeListed(list[l][i]) /\ KeyOf(list[l][i]) = l
              /\ \A j \in 1 .. Len(list[l]) : list[l][i] = list[l][j] => i = j)'
  BY <1>3, <1>4, <1>6 DEF NoStaleItem
<1>7. ASSUME NEW i \in 1 .. Len(list'[k])
      PROVE  (/\ MayBeListed(list[k][i]) /\ KeyOf(list[k][i]) = k
              /\ \A j \in 1 .. Len(list[k]) : list[k][i] = list[k][j] => i = j)'
  <2>1. CASE i = Len(list[k]) + 1
    <3>1. list'[k][i] = t
      BY <1>5, <2>1
    <3>2. \A j \in 1 .. Len(list'[k]) : list'[k][j] = t => j = i
      BY <1>2, <1>5, <2>1
    <3> QED
      BY <3>1, <3>2
  <2>2. CASE i \in 1 .. Len(list[k])
    <3>1. list'[k][i] = list[k][i] /\ list[k][i] # t
      BY <1>2, <1>5, <2>2
    <3>2. \A j \in 1 .. Len(list'[k]) : list'[k][i] = list'[k][j] => i = j
      BY <1>5, <2>2, <3>1 DEF NoStaleItem
    <3> QED
      BY <1>3, <2>2, <3>1, <3>2
  <2> QED
    BY <1>5, <2>1, <2>2
<1> QED
  BY <1>4, <1>6, <1>7 DEF NoStaleItem

\* What Erase leaves: the same list without t.
LEMMA Erased ==
  ASSUME Base, NoStaleItem, NEW k \in Keys, NEW t, list' = Erase(k, t)
  PROVE  /\ \A l \in Keys : l # k => list'[l] = list[l]
         /\ \A i \in 1 .. Len(list'[k]) : list'[k][i] # t
         /\ \A i \in 1 .. Len(list'[k]) : \E j \in 1 .. Len(list[k]) : list'[k][i] = list[k][j]
         /\ \A i, j \in 1 .. Len(list'[k]) : list'[k][i] = list'[k][j] => i = j
         /\ \A j \in 1 .. Len(list[k]) : list[k][j] # t =>
              \E i \in 1 .. Len(list'[k]) : list'[k][i] = list[k][j]
<1>1. list \in [Keys -> Seq(Threads)] /\ list[k] \in Seq(Threads)
  BY DEF Base, TypeOK
<1>2. list'[k] = RemoveFirst(list[k], t) /\ \A l \in Keys : l # k => list'[l] = list[l]
  BY <1>1 DEF Erase
<1>3. \A i, j \in 1 .. Len(list[k]) : list[k][i] = list[k][j] => i = j
  BY DEF NoStaleItem
<1> QED
  BY <1>1, <1>2, <1>3, RemoveFirstUnique

\* A thread that leaves its list may end its wait.
LEMMA ListLeft ==
  ASSUME Base, NoStaleItem, NEW t \in Threads, KeyOf(t) \in Keys, list' = Erase(KeyOf(t), t),
         \A u \in Threads : u # t => (MayBeListed(u) => MayBeListed(u)') /\ on'[u] = on[u]
  PROVE  NoStaleItem'
<1>0. PICK k \in Keys : k = KeyOf(t)
  OBVIOUS
<1>1. /\ \A l \in Keys : l # k => list'[l] = list[l]
      /\ \A i \in 1 .. Len(list'[k]) : list'[k][i] # t
      /\ \A i \in 1 .. Len(list'[k]) : \E j \in 1 .. Len(list[k]) : list'[k][i] = list[k][j]
      /\ \A i, j \in 1 .. Len(list'[k]) : list'[k][i] = list'[k][j] => i = j
  <2>1. list' = Erase(k, t)
    BY <1>0
  <2> QED
    BY <2>1, Erased
<1>2. \A l \in Keys : \A i \in 1 .. Len(list[l]) : list[l][i] \in Threads
  BY DEF Base, TypeOK
<1>3. \A l \in Keys : l # k => \A i \in 1 .. Len(list[l]) : list[l][i] # t
  BY <1>0 DEF NoStaleItem
<1>4. ASSUME NEW l \in Keys, NEW i \in 1 .. Len(list[l]), NEW u, u = list[l][i], u # t
      PROVE  MayBeListed(u)' /\ KeyOf(u)' = l
  <2>1. u \in Threads /\ u # t /\ MayBeListed(u) /\ KeyOf(u) = l
    BY <1>2, <1>4 DEF NoStaleItem
  <2> QED
    BY <2>1 DEF KeyOf
<1>5. ASSUME NEW l \in Keys, l # k, NEW i \in 1 .. Len(list'[l])
      PROVE  (/\ MayBeListed(list[l][i]) /\ KeyOf(list[l][i]) = l
              /\ \A j \in 1 .. Len(list[l]) : list[l][i] = list[l][j] => i = j)'
  BY <1>1, <1>3, <1>4, <1>5 DEF NoStaleItem
<1>6. ASSUME NEW i \in 1 .. Len(list'[k])
      PROVE  (MayBeListed(list[k][i]) /\ KeyOf(list[k][i]) = k)'
  <2>1. PICK j \in 1 .. Len(list[k]) : list'[k][i] = list[k][j]
    BY <1>1, <1>6
  <2>2. list[k][j] # t
    BY <1>1, <1>6, <2>1
  <2> QED
    BY <1>4, <1>6, <2>1, <2>2
<1> QED
  BY <1>1, <1>5, <1>6 DEF NoStaleItem

\* What notify leaves of a list is a part of it.
LEMMA ListCut ==
  ASSUME Base, NoStaleItem, NEW k \in Keys, NEW m \in 0 .. Len(list[k]),
         list' = [list EXCEPT ![k] = SubSeq(@, m + 1, Len(@))],
         \A u \in Threads : (MayBeListed(u) => MayBeListed(u)') /\ on'[u] = on[u]
  PROVE  NoStaleItem'
<1>1. list \in [Keys -> Seq(Threads)] /\ Len(list[k]) \in Nat /\ m \in Nat /\ m <= Len(list[k])
  BY DEF Base, TypeOK
<1>2. ASSUME NEW l \in Keys, NEW i \in 1 .. Len(list[l]), NEW u, u = list[l][i]
      PROVE  MayBeListed(u)' /\ KeyOf(u)' = l
  <2>1. u \in Threads /\ MayBeListed(u) /\ KeyOf(u) = l
    BY <1>1, <1>2 DEF NoStaleItem
  <2> QED
    BY <2>1 DEF KeyOf
<1>3. /\ \A l \in Keys : l # k => list'[l] = list[l]
      /\ Len(list'[k]) = Len(list[k]) - m
      /\ \A i \in 1 .. Len(list[k]) - m : list'[k][i] = list[k][i + m]
  BY <1>1
<1>4. \A i \in 1 .. Len(list[k]) - m : i + m \in 1 .. Len(list[k])
  BY <1>1
<1>5. ASSUME NEW i \in 1 .. Len(list'[k])
      PROVE  (/\ MayBeListed(list[k][i]) /\ KeyOf(list[k][i]) = k
              /\ \A j \in 1 .. Len(list[k]) : list[k][i] = list[k][j] => i = j)'
  <2>1. i \in 1 .. Len(list[k]) - m /\ list'[k][i] = list[k][i + m] /\ i + m \in 1 .. Len(list[k])
    BY <1>3, <1>4
  <2>2. MayBeListed(list[k][i])' /\ KeyOf(list[k][i])' = k
    BY <1>2, <2>1
  <2>3. ASSUME NEW j \in 1 .. Len(list'[k]), list'[k][i] = list'[k][j] PROVE i = j
    <3>1. list'[k][j] = list[k][j + m] /\ j + m \in 1 .. Len(list[k])
      BY <1>3, <1>4
    <3>2. i + m = j + m
      BY <2>1, <2>3, <3>1 DEF NoStaleItem
    <3> QED
      BY <1>1, <3>2
  <2> QED
    BY <2>2, <2>3
<1>6. ASSUME NEW l \in Keys, l # k, NEW i \in 1 .. Len(list'[l])
      PROVE  (/\ MayBeListed(list[l][i]) /\ KeyOf(list[l][i]) = l
              /\ \A j \in 1 .. Len(list[l]) : list[l][i] = list[l][j] => i = j)'
  BY <1>2, <1>3, <1>6 DEF NoStaleItem
<1> QED
  BY <1>5, <1>6 DEF NoStaleItem

\* Every step leaves the waiter lists without stale or repeated items.
LEMMA NoStaleNext == Base /\ Base' /\ NoStaleItem /\ [Next]_vars => NoStaleItem'
<1> SUFFICES ASSUME Base, NoStaleItem, [Next]_vars PROVE NoStaleItem'
  OBVIOUS
<1>0. /\ pc \in [Threads -> AgentSteps \cup WorkerSteps] /\ on \in [Threads -> Cells \cup {None}]
      /\ StepsTyped /\ CellKnown
  BY DEF Base, TypeOK
<1> DEFINE Kept == /\ UNCHANGED list
                   /\ \A t \in Threads : MayBeListed(t) => MayBeListed(t)' /\ on'[t] = on[t]
<1> USE AtomicsWaitAssumption DEF Threads, MayBeListed, shared, waitState, vmState
<1>1. ASSUME NEW a \in Agents, NEW c \in Cells,
             \/ \E v \in {0, 1} : Store(a, c, v)
             \/ WaitNotEqual(a, c)
             \/ WaitAsyncZero(a, c)
      PROVE  Kept
  BY <1>0, <1>1 DEF Store, WaitNotEqual, WaitAsyncZero
<1>2. ASSUME NEW a \in Agents, NEW c \in Cells, NEW t \in Timeouts, WaitSync(a, c, t) PROVE Kept
  BY <1>0, <1>2 DEF WaitSync, Call, Goto
<1>3. ASSUME NEW a \in Agents, EnterWaiterList(a) PROVE NoStaleItem'
  <2>1. KeyOf(a) \in Keys /\ KeyOf(a)' = KeyOf(a)
    BY <1>0, <1>3, KeyInKeys DEF EnterWaiterList, KeyOf, CellKnown
  <2>2. /\ ~ MayBeListed(a) /\ MayBeListed(a)'
        /\ \A u \in Threads : u # a => (MayBeListed(u) => MayBeListed(u)') /\ on'[u] = on[u]
    BY <1>0, <1>3 DEF EnterWaiterList, Goto
  <2> QED
    BY <1>3, <2>1, <2>2, ListEntered DEF EnterWaiterList
<1>4. ASSUME NEW a \in Agents, WaitReturns(a) PROVE NoStaleItem'
  <2>1. KeyOf(a) \in Keys
    BY <1>0, <1>4, KeyInKeys DEF WaitReturns, KeyOf, CellKnown
  <2>2. \A u \in Threads : u # a => (MayBeListed(u) => MayBeListed(u)') /\ on'[u] = on[u]
    BY <1>0, <1>4 DEF WaitReturns, Goto
  <2> QED
    BY <1>4, <2>1, <2>2, ListLeft DEF WaitReturns
<1>5. ASSUME NEW a \in Agents, NEW c \in Cells, NEW t \in Timeouts, NEW w \in Workers,
             WaitAsync(a, c, t, w)
      PROVE  NoStaleItem'
  <2>1. BlockAddress(c) \in Keys /\ KeyOf(w)' = BlockAddress(c)
    BY <1>0, <1>5, KeyInKeys DEF WaitAsync, KeyOf
  <2>2. /\ ~ MayBeListed(w) /\ MayBeListed(w)'
        /\ \A u \in Threads : u # w => (MayBeListed(u) => MayBeListed(u)') /\ on'[u] = on[u]
    BY <1>0, <1>5 DEF WaitAsync, Call
  <2> QED
    BY <1>5, <2>1, <2>2, ListEntered DEF WaitAsync
<1>6. ASSUME NEW a \in Agents, RegisterAsyncWaiter(a) PROVE Kept
  <2>1. PICK w \in Workers : /\ Owner[w] = a /\ pc[w] = "reserved"
                             /\ pc' = [pc EXCEPT ![a] = "run", ![w] = "start"]
    BY <1>6 DEF RegisterAsyncWaiter
  <2> QED
    BY <1>0, <1>6, <2>1 DEF RegisterAsyncWaiter
<1>7. ASSUME NEW a \in Agents, NEW c \in Cells, NEW n \in Counts, Notify(a, c, n) PROVE NoStaleItem'
  <2> DEFINE k == BlockAddress(c)
             m == NotifyCount(k, n)
  <2>1. k \in Keys /\ list[k] \in Seq(Threads) /\ m \in 0 .. Len(list[k])
    BY KeyInKeys DEF NotifyCount, Base, TypeOK
  <2>2. PICK S \in Wakeable(k, m) :
             pc' = [t \in Threads |-> IF t \in S THEN "woken" ELSE pc[t]]
    BY <1>7 DEF Notify
  <2>3. /\ \A u \in Threads : (MayBeListed(u) => MayBeListed(u)') /\ on'[u] = on[u]
        /\ list' = [list EXCEPT ![k] = SubSeq(@, m + 1, Len(@))]
    BY <1>7, <2>2 DEF Notify
  <2> HIDE DEF k, m
  <2> QED
    BY <2>1, <2>3, ListCut
<1>8. ASSUME NEW t \in Threads, WaitTimesOut(t) \/ SpuriousWakeup(t) PROVE Kept
  BY <1>0, <1>8 DEF WaitTimesOut, SpuriousWakeup, Goto
<1>9. ASSUME NEW w \in Workers, WorkerStarts(w) \/ WorkerWakes(w) PROVE Kept
  BY <1>0, <1>9 DEF WorkerStarts, WorkerWakes, Goto
<1>10. ASSUME NEW w \in Workers, WorkerReports(w) PROVE Kept
  BY <1>0, <1>10 DEF WorkerReports
<1>11. ASSUME NEW w \in Workers, WorkerErases(w) PROVE NoStaleItem'
  <2>1. KeyOf(w) \in Keys
    BY <1>0, <1>11, KeyInKeys DEF WorkerErases, KeyOf, CellKnown
  <2>2. \A u \in Threads : u # w => (MayBeListed(u) => MayBeListed(u)') /\ on'[u] = on[u]
    BY <1>0, <1>11 DEF WorkerErases, Goto
  <2> QED
    BY <1>11, <2>1, <2>2, ListLeft DEF WorkerErases
<1>12. ASSUME NEW a \in Agents, Loop(a) PROVE Kept
  BY <1>0, <1>12 DEF Loop, WaitEvent, WaitEventTimesOut, SpuriousEvent, Goto
<1>13. ASSUME NEW a \in Agents,
              ExecutePending(a) \/ FulfillPromise(a) \/ JoinWorker(a) \/ DrainEnds(a)
       PROVE  Kept
  BY <1>0, <1>13 DEF ExecutePending, FulfillPromise, JoinWorker, DrainEnds, Goto
<1>14. CASE UNCHANGED vars
  BY <1>14 DEF vars, NoStaleItem, KeyOf
<1>15. Kept => NoStaleItem'
  BY ListsKept
<1> HIDE DEF Kept
<1> QED
  BY <1>1, <1>2, <1>3, <1>4, <1>5, <1>6, <1>7, <1>8, <1>9, <1>10, <1>11, <1>12, <1>13, <1>14,
     <1>15
  DEF Next, Script, Proceed, Work

-----------------------------------------------------------------------------
(* The data of the asynchronous waits                                       *)

Registered == {"start", "sleep", "woken", "report", "erase", "exit"}
Alive == Registered \ {"exit"}

\* The data mutex is held across actions exactly while the event loop drains the data.
DrainLocked ==
    \A a \in Agents : dm[a] <=> pc[a] \in {"drain", "join"}

\* The data of an agent has its own workers, each once, from their start on.
DataOwned ==
    \A a \in Agents : \A i \in 1 .. Len(data[a]) :
      /\ Owner[data[a][i]] = a
      /\ pc[data[a][i]] \in Registered
      /\ \A j \in 1 .. Len(data[a]) : data[a][i] = data[a][j] => i = j

\* A worker has an entry as long as it runs and until its report has been seen, and
\* has reported exactly when it is past its report.
DataComplete ==
    \A w \in Workers :
      /\ pc[w] \in Alive \/ w \in reported =>
           \E i \in 1 .. Len(data[Owner[w]]) : data[Owner[w]][i] = w
      /\ w \in reported => pc[w] \in {"erase", "exit"}
      /\ pc[w] = "erase" => w \in reported

DataInv == DrainLocked /\ DataOwned /\ DataComplete

\* Steps that concern neither the data nor the way workers report.
DataKept ==
    /\ UNCHANGED <<data, reported, dm, pending>>
    /\ \A a \in Agents : /\ pc'[a] = "drain" <=> pc[a] = "drain"
                         /\ pc'[a] = "join" <=> pc[a] = "join"
    /\ \A w \in Workers :
         /\ pc[w] \in Registered => pc'[w] \in Registered
         /\ pc'[w] \in Alive => pc[w] \in Alive
         /\ pc[w] \in {"erase", "exit"} \/ pc'[w] = "erase" => pc'[w] = pc[w]

\* Those steps keep the invariant of the data.
LEMMA DataInvKept ==
  ASSUME Base, DataInv, DataKept
  PROVE  DataInv'
<1>1. \A a \in Agents : \A i \in 1 .. Len(data[a]) : data[a][i] \in Workers
  BY DEF Base, TypeOK
<1>2. DrainLocked'
  BY DEF DataInv, DrainLocked, DataKept
<1>3. DataOwned'
  BY <1>1 DEF DataInv, DataOwned, DataKept
<1>4. DataComplete'
  BY DEF DataInv, DataComplete, DataKept
<1> QED
  BY <1>2, <1>3, <1>4 DEF DataInv

\* These are all steps but those of the report and of the event loop.
LEMMA DataKeptSteps ==
  ASSUME Base, Next
  PROVE  \/ DataKept
         \/ \E a \in Agents : \/ RegisterAsyncWaiter(a) \/ ExecutePending(a)
                              \/ FulfillPromise(a) \/ JoinWorker(a) \/ DrainEnds(a)
         \/ \E w \in Workers : WorkerReports(w) \/ WorkerErases(w)
<1>0. /\ pc \in [Threads -> AgentSteps \cup WorkerSteps]
      /\ StepsTyped
  BY DEF Base, TypeOK
<1> USE AtomicsWaitAssumption
    DEF Threads, DataKept, Registered, Alive, shared, waitState, vmState
<1>1. ASSUME NEW a \in Agents, NEW c \in Cells,
             \/ \E v \in {0, 1} : Store(a, c, v)
             \/ WaitNotEqual(a, c)
             \/ WaitAsyncZero(a, c)
      PROVE  DataKept
  BY <1>0, <1>1 DEF Store, WaitNotEqual, WaitAsyncZero
<1>2. ASSUME NEW a \in Agents, NEW c \in Cells, NEW t \in Timeouts, WaitSync(a, c, t)
      PROVE  DataKept
  BY <1>0, <1>2 DEF WaitSync, Call, Goto
<1>3. ASSUME NEW a \in Agents, EnterWaiterList(a) PROVE DataKept
  BY <1>0, <1>3 DEF EnterWaiterList, Goto
<1>4. ASSUME NEW a \in Agents, WaitReturns(a) PROVE DataKept
  BY <1>0, <1>4 DEF WaitReturns, Goto
<1>5. ASSUME NEW a \in Agents, NEW c \in Cells, NEW t \in Timeouts, NEW w \in Workers,
             WaitAsync(a, c, t, w)
      PROVE  DataKept
  BY <1>0, <1>5 DEF WaitAsync, Call
<1>6. ASSUME NEW a \in Agents, NEW c \in Cells, NEW n \in Counts, Notify(a, c, n) PROVE DataKept
  <2> DEFINE k == BlockAddress(c)
             m == NotifyCount(k, n)
  <2>1. PICK S \in Wakeable(k, m) :
             pc' = [t \in Threads |-> IF t \in S THEN "woken" ELSE pc[t]]
    BY <1>6 DEF Notify
  <2>2. \A t \in S : pc[t] = "sleep"
    BY <2>1 DEF Wakeable, Sleepers
  <2>3. UNCHANGED vmState
    BY <1>6 DEF Notify
  <2> QED
    BY <2>1, <2>2, <2>3
<1>7. ASSUME NEW t \in Threads, WaitTimesOut(t) \/ SpuriousWakeup(t) PROVE DataKept
  BY <1>0, <1>7 DEF WaitTimesOut, SpuriousWakeup, Goto
<1>8. ASSUME NEW w \in Workers, WorkerStarts(w) \/ WorkerWakes(w) PROVE DataKept
  BY <1>0, <1>8 DEF WorkerStarts, WorkerWakes, Goto
<1>9. ASSUME NEW a \in Agents, Loop(a) PROVE DataKept
  BY <1>0, <1>9 DEF Loop, WaitEvent, WaitEventTimesOut, SpuriousEvent, Goto
<1> HIDE DEF DataKept
<1> QED
  BY <1>1, <1>2, <1>3, <1>4, <1>5, <1>6, <1>7, <1>8, <1>9
  DEF Next, Script, Proceed, Work

\* Every step keeps the invariant of the data.
LEMMA DataInvNext == Base /\ DataInv /\ [Next]_vars => DataInv'
<1> SUFFICES ASSUME Base, DataInv, [Next]_vars PROVE DataInv'
  OBVIOUS
<1>0. /\ pc \in [Threads -> AgentSteps \cup WorkerSteps] /\ dm \in [Agents -> BOOLEAN]
      /\ data \in [Agents -> Seq(Workers)] /\ reported \subseteq Workers
      /\ StepsTyped
  BY DEF Base, TypeOK
<1> USE AtomicsWaitAssumption DEF DataInv, Threads
<1>1. ASSUME NEW a \in Agents, RegisterAsyncWaiter(a) PROVE DataInv'
  <2>1. PICK w \in Workers : /\ Owner[w] = a /\ pc[w] = "reserved"
                             /\ data' = [data EXCEPT ![a] = Append(@, w)]
                             /\ pc' = [pc EXCEPT ![a] = "run", ![w] = "start"]
    BY <1>1 DEF RegisterAsyncWaiter
  <2>2. pc[a] = "register" /\ UNCHANGED <<reported, dm>>
    BY <1>1 DEF RegisterAsyncWaiter
  <2>3. /\ pc'[a] = "run" /\ pc'[w] = "start"
        /\ \A t \in Threads : t # a /\ t # w => pc'[t] = pc[t]
    BY <1>0, <2>1
  <2>4. DrainLocked'
    BY <1>0, <2>2, <2>3 DEF DrainLocked
  <2>5. \A b \in Agents : \A i \in 1 .. Len(data[b]) : data[b][i] # w /\ data[b][i] \in Workers
    <3>1. "reserved" \notin Registered
      BY DEF Registered
    <3>2. \A b \in Agents : \A i \in 1 .. Len(data[b]) : data[b][i] \in Workers
      BY <1>0
    <3> QED
      BY <2>1, <3>1, <3>2 DEF DataOwned
  <2>6. /\ \A b \in Agents : b # a => data'[b] = data[b]
        /\ Len(data'[a]) = Len(data[a]) + 1 /\ Len(data[a]) \in Nat
        /\ data'[a][Len(data[a]) + 1] = w
        /\ \A i \in 1 .. Len(data[a]) : data'[a][i] = data[a][i]
    BY <1>0, <2>1
  <2>7. DataOwned'
    <3>1. ASSUME NEW b \in Agents, b # a, NEW i \in 1 .. Len(data'[b])
          PROVE  (/\ Owner[data[b][i]] = b /\ pc[data[b][i]] \in Registered
                  /\ \A j \in 1 .. Len(data[b]) : data[b][i] = data[b][j] => i = j)'
      BY <2>3, <2>5, <2>6, <3>1 DEF DataOwned
    <3>2. ASSUME NEW i \in 1 .. Len(data'[a])
          PROVE  (/\ Owner[data[a][i]] = a /\ pc[data[a][i]] \in Registered
                  /\ \A j \in 1 .. Len(data[a]) : data[a][i] = data[a][j] => i = j)'
      <4>1. CASE i = Len(data[a]) + 1
        BY <2>1, <2>3, <2>5, <2>6, <4>1 DEF Registered
      <4>2. CASE i \in 1 .. Len(data[a])
        BY <2>3, <2>5, <2>6, <4>2, SMTT(30) DEF DataOwned
      <4> QED
        BY <2>6, <4>1, <4>2
    <3> QED
      BY <3>1, <3>2 DEF DataOwned
  <2>8. DataComplete'
    <3>1. ASSUME NEW u \in Workers, u # w, pc[u] \in Alive \/ u \in reported
          PROVE  \E i \in 1 .. Len(data'[Owner[u]]) : data'[Owner[u]][i] = u
      <4>1. PICK i \in 1 .. Len(data[Owner[u]]) : data[Owner[u]][i] = u
        BY <3>1 DEF DataComplete
      <4> QED
        BY <2>6, <4>1
    <3>2. Len(data[a]) + 1 \in 1 .. Len(data'[a])
      BY <2>6
    <3>3. w \notin reported
      BY <2>1 DEF DataComplete
    <3>4. \E i \in 1 .. Len(data'[Owner[w]]) : data'[Owner[w]][i] = w
      BY <2>1, <2>6, <3>2
    <3>5. \A u \in Workers : u # w => pc'[u] = pc[u]
      BY <2>3
    <3>6. \A u \in Workers : pc'[u] \in Alive \/ u \in reported' =>
            \E i \in 1 .. Len(data'[Owner[u]]) : data'[Owner[u]][i] = u
      BY <2>2, <3>1, <3>4, <3>5
    <3>7. \A u \in Workers : /\ u \in reported' => pc'[u] \in {"erase", "exit"}
                             /\ pc'[u] = "erase" => u \in reported'
      BY <2>2, <2>3, <3>3, <3>5 DEF DataComplete
    <3> SUFFICES ASSUME NEW u \in Workers
                 PROVE  (/\ pc[u] \in Alive \/ u \in reported =>
                              \E i \in 1 .. Len(data[Owner[u]]) : data[Owner[u]][i] = u
                         /\ u \in reported => pc[u] \in {"erase", "exit"}
                         /\ pc[u] = "erase" => u \in reported)'
      BY DEF DataComplete
    <3> QED
      BY <3>6, <3>7 DEF Alive, Registered
  <2> QED
    BY <2>4, <2>7, <2>8
<1>2. ASSUME NEW a \in Agents, ExecutePending(a) \/ FulfillPromise(a) \/ DrainEnds(a) PROVE DataInv'
  <2>1. /\ UNCHANGED <<data, reported>>
        /\ \A t \in Threads : t # a => pc'[t] = pc[t]
        /\ \A b \in Agents : b # a => dm'[b] = dm[b]
        /\ dm'[a] <=> pc'[a] \in {"drain", "join"}
    BY <1>0, <1>2 DEF ExecutePending, FulfillPromise, DrainEnds, Goto, vmState, DrainLocked
  <2>2. DrainLocked'
    BY <1>0, <2>1 DEF DrainLocked
  <2>3. \A u \in Workers : pc'[u] = pc[u]
    BY <2>1
  <2>4. \A b \in Agents : \A i \in 1 .. Len(data[b]) : data[b][i] \in Workers
    BY <1>0
  <2>5. DataOwned'
    BY <2>1, <2>3, <2>4 DEF DataOwned
  <2>6. DataComplete'
    BY <2>1, <2>3 DEF DataComplete
  <2> QED
    BY <2>2, <2>5, <2>6
<1>3. ASSUME NEW a \in Agents, JoinWorker(a) PROVE DataInv'
  <2>1. PICK n \in Finished(a) : /\ Joinable(data[a][n])
                                 /\ data' = [data EXCEPT ![a] = RemoveAt(@, n)]
                                 /\ reported' = reported \ {data[a][n]}
    BY <1>3 DEF JoinWorker
  <2>2. PICK w \in Workers : w = data[a][n]
    BY <1>0, <2>1 DEF Finished
  <2>3. n \in 1 .. Len(data[a]) /\ w \in reported /\ pc[w] = "exit" /\ Owner[w] = a
    BY <2>1, <2>2 DEF Finished, Joinable, DataOwned
  <2>4. /\ pc[a] = "join" /\ pc'[a] = "drain" /\ UNCHANGED dm
        /\ \A t \in Threads : t # a => pc'[t] = pc[t]
    BY <1>0, <1>3 DEF JoinWorker, Goto
  <2>5. DrainLocked'
    BY <1>0, <2>4 DEF DrainLocked
  <2> DEFINE at(i) == IF i < n THEN i ELSE i + 1
  <2>6. /\ \A b \in Agents : b # a => data'[b] = data[b]
        /\ Len(data'[a]) = Len(data[a]) - 1
        /\ \A i \in 1 .. Len(data[a]) - 1 : data'[a][i] = data[a][at(i)]
    <3>1. data'[a] = RemoveAt(data[a], n) /\ \A b \in Agents : b # a => data'[b] = data[b]
      BY <1>0, <2>1
    <3>2. data[a] \in Seq(Workers)
      BY <1>0
    <3> QED
      BY <2>3, <3>1, <3>2, RemoveAtProperties, SMTT(30)
  <2>7. Len(data[a]) \in Nat /\ n \in Nat /\ 1 <= n /\ n <= Len(data[a])
    BY <1>0, <2>3
  <2>8. /\ \A i \in 1 .. Len(data[a]) - 1 : at(i) \in 1 .. Len(data[a]) /\ at(i) # n
        /\ \A i, j \in 1 .. Len(data[a]) - 1 : at(i) = at(j) => i = j
    BY <2>7
  <2>9. \A i \in 1 .. Len(data[a]) : i # n => \E j \in 1 .. Len(data[a]) - 1 : at(j) = i
    <3> TAKE i \in 1 .. Len(data[a])
    <3> HAVE i # n
    <3>1. CASE i < n
      <4>1. i \in 1 .. Len(data[a]) - 1 /\ at(i) = i
        BY <2>7, <3>1
      <4> QED
        BY <4>1
    <3>2. CASE ~ (i < n)
      <4>1. i - 1 \in 1 .. Len(data[a]) - 1 /\ at(i - 1) = i
        BY <2>7, <3>2
      <4> QED
        BY <4>1
    <3> QED
      BY <3>1, <3>2
  <2> HIDE DEF at
  <2>10. DataOwned'
    <3>0. /\ \A u \in Workers : pc'[u] = pc[u]
          /\ \A b \in Agents : \A i \in 1 .. Len(data[b]) : data[b][i] \in Workers
      BY <1>0, <2>4
    <3>1. ASSUME NEW b \in Agents, b # a, NEW i \in 1 .. Len(data'[b])
          PROVE  (/\ Owner[data[b][i]] = b /\ pc[data[b][i]] \in Registered
                  /\ \A j \in 1 .. Len(data[b]) : data[b][i] = data[b][j] => i = j)'
      BY <2>6, <3>0, <3>1 DEF DataOwned
    <3>2. ASSUME NEW i \in 1 .. Len(data'[a])
          PROVE  (/\ Owner[data[a][i]] = a /\ pc[data[a][i]] \in Registered
                  /\ \A j \in 1 .. Len(data[a]) : data[a][i] = data[a][j] => i = j)'
      <4>1. data'[a][i] = data[a][at(i)] /\ at(i) \in 1 .. Len(data[a]) /\ data[a][at(i)] \in Workers
        BY <1>0, <2>6, <2>8
      <4>2. Owner[data'[a][i]] = a /\ pc'[data'[a][i]] \in Registered
        BY <3>0, <4>1 DEF DataOwned
      <4>3. \A j \in 1 .. Len(data'[a]) : data'[a][i] = data'[a][j] => i = j
        BY <2>6, <2>8, SMTT(30) DEF DataOwned
      <4> QED
        BY <4>2, <4>3
    <3> QED
      BY <3>1, <3>2 DEF DataOwned
  <2>11. DataComplete'
    <3>1. ASSUME NEW u \in Workers, u # w, pc[u] \in Alive \/ u \in reported
          PROVE  \E i \in 1 .. Len(data'[Owner[u]]) : data'[Owner[u]][i] = u
      <4>1. PICK i \in 1 .. Len(data[Owner[u]]) : data[Owner[u]][i] = u
        BY <3>1 DEF DataComplete
      <4>2. CASE Owner[u] # a
        BY <2>6, <4>1, <4>2
      <4>3. CASE Owner[u] = a
        <5>1. i # n /\ i \in 1 .. Len(data[a])
          BY <2>2, <3>1, <4>1, <4>3
        <5>2. PICK j \in 1 .. Len(data[a]) - 1 : at(j) = i
          BY <2>9, <5>1
        <5> QED
          BY <2>6, <4>1, <4>3, <5>2
      <4> QED
        BY <4>2, <4>3
    <3>2. pc'[w] \notin Alive /\ w \notin reported'
      BY <2>1, <2>2, <2>3, <2>4 DEF Alive
    <3>3. \A u \in Workers : pc'[u] = pc[u] /\ (u # w => (u \in reported' <=> u \in reported))
      BY <2>1, <2>2, <2>4
    <3>4. pc'[w] # "erase"
      BY <2>3, <2>4
    <3> QED
      BY <3>1, <3>2, <3>3, <3>4 DEF DataComplete
  <2> QED
    BY <2>5, <2>10, <2>11
<1>4. ASSUME NEW w \in Workers, WorkerReports(w) PROVE DataInv'
  <2>1. PICK a \in Agents : a = Owner[w]
    OBVIOUS
  <2>2. /\ UNCHANGED <<data, dm>> /\ pc[w] = "report" /\ reported' = reported \cup {w}
        /\ pc' = [pc EXCEPT ![w] = "erase", ![a] = IF @ = "eventWait" THEN "execute" ELSE @]
    BY <1>4, <2>1 DEF WorkerReports
  <2>3. /\ pc'[w] = "erase"
        /\ \A u \in Workers : u # w => pc'[u] = pc[u]
        /\ \A b \in Agents : pc'[b] = pc[b] \/ (pc[b] = "eventWait" /\ pc'[b] = "execute")
    BY <1>0, <2>2
  <2>4. DrainLocked'
    BY <2>2, <2>3 DEF DrainLocked
  <2>5. \A b \in Agents : \A i \in 1 .. Len(data[b]) : data[b][i] \in Workers
    BY <1>0
  <2>6. \A u \in Workers : /\ pc[u] \in Registered => pc'[u] \in Registered
                           /\ pc'[u] \in Alive => pc[u] \in Alive
    BY <2>2, <2>3 DEF Registered, Alive
  <2>7. DataOwned'
    BY <2>2, <2>5, <2>6, ZenonT(30) DEF DataOwned, Registered
  <2>8. DataComplete'
    <3>1. pc[w] \in Alive
      BY <2>2 DEF Alive, Registered
    <3>2. \A u \in Workers : pc'[u] \in Alive \/ u \in reported' => pc[u] \in Alive \/ u \in reported
      BY <2>2, <2>6, <3>1
    <3>3. \A u \in Workers : pc'[u] \in Alive \/ u \in reported' =>
            \E i \in 1 .. Len(data'[Owner[u]]) : data'[Owner[u]][i] = u
      BY <2>2, <3>2 DEF DataComplete, Alive, Registered
    <3>4. \A u \in Workers : /\ u \in reported' => pc'[u] \in {"erase", "exit"}
                             /\ pc'[u] = "erase" => u \in reported'
      BY <2>2, <2>3 DEF DataComplete
    <3> SUFFICES ASSUME NEW u \in Workers
                 PROVE  (/\ pc[u] \in Alive \/ u \in reported =>
                              \E i \in 1 .. Len(data[Owner[u]]) : data[Owner[u]][i] = u
                         /\ u \in reported => pc[u] \in {"erase", "exit"}
                         /\ pc[u] = "erase" => u \in reported)'
      BY DEF DataComplete
    <3> QED
      BY <3>3, <3>4 DEF Alive, Registered
  <2> QED
    BY <2>4, <2>7, <2>8
<1>5. ASSUME NEW w \in Workers, WorkerErases(w) PROVE DataInv'
  <2>1. /\ UNCHANGED <<data, dm, reported>> /\ pc[w] = "erase" /\ pc'[w] = "exit"
        /\ \A t \in Threads : t # w => pc'[t] = pc[t]
    BY <1>0, <1>5 DEF WorkerErases, Goto, vmState
  <2>2. /\ \A u \in Workers : u # w => pc'[u] = pc[u]
        /\ \A b \in Agents : pc'[b] = pc[b]
    BY <2>1
  <2>3. DrainLocked'
    BY <2>1, <2>2 DEF DrainLocked
  <2>4. \A b \in Agents : \A i \in 1 .. Len(data[b]) : data[b][i] \in Workers
    BY <1>0
  <2>5. DataOwned'
    BY <2>1, <2>2, <2>4 DEF DataOwned, Registered
  <2>6. DataComplete'
    BY <2>1, <2>2 DEF DataComplete, Alive, Registered
  <2> QED
    BY <2>3, <2>5, <2>6
<1>6. CASE UNCHANGED vars
  BY <1>6 DEF vars, DrainLocked, DataOwned, DataComplete
<1> HIDE DEF DataInv
<1> QED
  BY <1>1, <1>2, <1>3, <1>4, <1>5, <1>6, DataKeptSteps, DataInvKept

\* The data is empty initially.
LEMMA DataInvInit == Init => DataInv
<1> SUFFICES ASSUME Init PROVE DataInv
  OBVIOUS
<1> USE AtomicsWaitAssumption DEF Threads
<1>1. /\ \A a \in Agents : pc[a] = "run" /\ ~ dm[a] /\ data[a] = << >>
      /\ \A w \in Workers : pc[w] = "unused" /\ w \notin reported
  BY DEF Init
<1>2. DrainLocked
  BY <1>1 DEF DrainLocked
<1>3. DataOwned
  BY <1>1 DEF DataOwned
<1>4. DataComplete
  BY <1>1 DEF DataComplete, Alive, Registered
<1> QED
  BY <1>2, <1>3, <1>4 DEF DataInv

\* The finished entries of an agent change only with its data or its workers' reports.
LEMMA FinishedKept ==
  ASSUME Base, DataOwned, NEW b \in Agents, data'[b] = data[b],
         \A u \in Workers : Owner[u] = b => (u \in reported' <=> u \in reported)
  PROVE  Finished(b)' = Finished(b)
<1>1. \A i \in 1 .. Len(data[b]) : data[b][i] \in Workers /\ Owner[data[b][i]] = b
  BY DEF Base, TypeOK, DataOwned
<1> QED
  BY <1>1 DEF Finished

\* A report adds exactly the entry of its worker to the finished ones.
LEMMA FinishedReported ==
  ASSUME Base, DataInv, NEW w \in Workers, WorkerReports(w)
  PROVE  \E n \in 1 .. Len(data[Owner[w]]) :
           /\ data[Owner[w]][n] = w /\ n \notin Finished(Owner[w])
           /\ Finished(Owner[w])' = Finished(Owner[w]) \cup {n}
<1>1. PICK a \in Agents : a = Owner[w]
  BY AtomicsWaitAssumption
<1>2. pc[w] = "report" /\ data' = data /\ reported' = reported \cup {w}
  BY DEF WorkerReports
<1>3. pc[w] \in Alive /\ w \notin reported
  BY <1>2 DEF DataInv, DataComplete, Alive, Registered
<1>4. PICK n \in 1 .. Len(data[a]) : data[a][n] = w
  BY <1>1, <1>3 DEF DataInv, DataComplete
<1>5. \A i \in 1 .. Len(data[a]) : data[a][i] = w <=> i = n
  BY <1>4 DEF DataInv, DataOwned
<1>6. Finished(a)' = Finished(a) \cup {n}
  BY <1>2, <1>5 DEF Finished
<1>7. n \notin Finished(a)
  BY <1>3, <1>4 DEF Finished
<1> QED
  BY <1>1, <1>4, <1>6, <1>7

\* Initially nothing is pending.
LEMMA PendingInit == Init => PendingExact
<1> SUFFICES ASSUME Init, NEW a \in Agents PROVE pending[a] = Cardinality(Finished(a))
  BY DEF PendingExact
<1>1. pending[a] = 0 /\ Finished(a) = {}
  BY DEF Init, Finished
<1> QED
  BY <1>1, FS_EmptySet

\* Every step keeps the pending counter exact: a report adds one entry and counts one, and
\* the event loop resets the counter only when no finished entry is left.
LEMMA PendingNext ==
  Base /\ DataInv /\ PendingExact /\ [Next]_vars => PendingExact'
<1> SUFFICES ASSUME Base, DataInv, PendingExact, [Next]_vars PROVE PendingExact'
  OBVIOUS
<1>0. /\ pc \in [Threads -> AgentSteps \cup WorkerSteps] /\ dm \in [Agents -> BOOLEAN]
      /\ data \in [Agents -> Seq(Workers)] /\ reported \subseteq Workers
      /\ pending \in [Agents -> Nat]
  BY DEF Base, TypeOK
<1> USE AtomicsWaitAssumption DEF Threads
<1>1. CASE DataKept \/ UNCHANGED vars
  BY <1>1 DEF DataKept, vars, PendingExact, Finished
<1>2. ASSUME NEW a \in Agents, RegisterAsyncWaiter(a) PROVE PendingExact'
  <2>1. PICK w \in Workers : /\ Owner[w] = a /\ pc[w] = "reserved"
                             /\ data' = [data EXCEPT ![a] = Append(@, w)]
    BY <1>2 DEF RegisterAsyncWaiter
  <2>2. UNCHANGED <<reported, dm, pending>>
    BY <1>2 DEF RegisterAsyncWaiter
  <2>3. w \notin reported
    BY <2>1 DEF DataInv, DataComplete
  <2>4. Finished(a)' = Finished(a)
    <3>1. data[a] \in Seq(Workers) /\ data'[a] = Append(data[a], w)
      BY <1>0, <2>1
    <3>2. Positions(Append(data[a], w), reported) = Positions(data[a], reported)
      BY <2>3, <3>1, CountAppend
    <3> QED
      BY <2>2, <3>1, <3>2 DEF Finished, Positions
  <2>5. \A b \in Agents : b # a => Finished(b)' = Finished(b)
    BY <1>0, <2>1, <2>2 DEF Finished
  <2> QED
    BY <2>2, <2>4, <2>5 DEF PendingExact
<1>3. ASSUME NEW a \in Agents, ExecutePending(a) PROVE PendingExact'
  <2>1. /\ UNCHANGED <<data, reported, pending>> /\ dm' = [dm EXCEPT ![a] = TRUE]
    BY <1>3 DEF ExecutePending
  <2>2. \A b \in Agents : ~ dm'[b] => ~ dm[b]
    BY <1>0, <2>1
  <2> QED
    BY <2>1, <2>2 DEF PendingExact, Finished
<1>4. ASSUME NEW a \in Agents, JoinWorker(a) PROVE PendingExact'
  <2>1. PICK n \in Finished(a) : /\ data' = [data EXCEPT ![a] = RemoveAt(@, n)]
                                 /\ reported' = reported \ {data[a][n]}
    BY <1>4 DEF JoinWorker
  <2>2. pc[a] = "join" /\ UNCHANGED <<dm, pending>>
    BY <1>4 DEF JoinWorker
  <2>3. dm[a] /\ data[a][n] \in Workers /\ Owner[data[a][n]] = a
    BY <1>0, <2>2 DEF Finished, DataInv, DrainLocked, DataOwned
  <2>4. \A b \in Agents : b # a => Finished(b)' = Finished(b)
    <3> TAKE b \in Agents
    <3> HAVE b # a
    <3>1. data'[b] = data[b]
      BY <1>0, <2>1
    <3>2. \A u \in Workers : Owner[u] = b => (u \in reported' <=> u \in reported)
      BY <2>1, <2>3
    <3> QED
      BY <3>1, <3>2, FinishedKept DEF DataInv
  <2> QED
    BY <2>2, <2>3, <2>4 DEF PendingExact
<1>5. ASSUME NEW a \in Agents, DrainEnds(a) PROVE PendingExact'
  <2>1. /\ UNCHANGED <<data, reported>> /\ Finished(a) = {}
        /\ pending' = [pending EXCEPT ![a] = 0] /\ dm' = [dm EXCEPT ![a] = FALSE]
    BY <1>5 DEF DrainEnds
  <2>2. \A b \in Agents : Finished(b)' = Finished(b)
    BY <2>1 DEF Finished
  <2>3. pending'[a] = 0 /\ Cardinality(Finished(a)) = 0
    BY <1>0, <2>1, FS_EmptySet
  <2>4. \A b \in Agents : b # a => pending'[b] = pending[b] /\ dm'[b] = dm[b]
    BY <1>0, <2>1
  <2> QED
    BY <2>2, <2>3, <2>4 DEF PendingExact
<1>6. ASSUME NEW w \in Workers, WorkerReports(w) PROVE PendingExact'
  <2>1. PICK a \in Agents : a = Owner[w]
    OBVIOUS
  <2>2. PICK n \in 1 .. Len(data[a]) : /\ n \notin Finished(a)
                                       /\ Finished(a)' = Finished(a) \cup {n}
    BY <1>6, <2>1, FinishedReported
  <2>3. /\ UNCHANGED <<data, dm>> /\ reported' = reported \cup {w} /\ ~ dm[a]
        /\ pending' = [pending EXCEPT ![a] = @ + 1]
    BY <1>6, <2>1 DEF WorkerReports
  <2>4. IsFiniteSet(Finished(a))
    <3>1. data[a] \in Seq(Workers)
      BY <1>0
    <3>2. IsFiniteSet(Positions(data[a], reported))
      BY <3>1, PositionsFinite
    <3>3. Finished(a) = Positions(data[a], reported)
      BY DEF Finished, Positions
    <3> QED
      BY <3>2, <3>3
  <2>5. Cardinality(Finished(a)') = Cardinality(Finished(a)) + 1
    BY <2>2, <2>4, FS_AddElement
  <2>6. pending'[a] = pending[a] + 1 /\ \A b \in Agents : b # a => pending'[b] = pending[b]
    BY <1>0, <2>3
  <2>7. \A b \in Agents : b # a => Finished(b)' = Finished(b)
    <3> TAKE b \in Agents
    <3> HAVE b # a
    <3>1. \A u \in Workers : Owner[u] = b => (u \in reported' <=> u \in reported)
      BY <2>1, <2>3
    <3> QED
      BY <2>3, <3>1, FinishedKept DEF DataInv
  <2>8. ASSUME NEW b \in Agents, ~ dm'[b]
        PROVE  pending'[b] = Cardinality(Finished(b)')
    <3>1. CASE b = a
      BY <2>3, <2>5, <2>6, <3>1 DEF PendingExact
    <3>2. CASE b # a
      BY <2>3, <2>6, <2>7, <2>8, <3>2 DEF PendingExact
    <3> QED
      BY <3>1, <3>2
  <2> QED
    BY <2>8 DEF PendingExact
<1>7. ASSUME NEW w \in Workers, WorkerErases(w) PROVE PendingExact'
  BY <1>7 DEF WorkerErases, vmState, PendingExact, Finished
<1>8. ASSUME NEW a \in Agents, FulfillPromise(a) PROVE PendingExact'
  BY <1>8 DEF FulfillPromise, vmState, PendingExact, Finished
<1> QED
  BY <1>1, <1>2, <1>3, <1>4, <1>5, <1>6, <1>7, <1>8, DataKeptSteps

-----------------------------------------------------------------------------
(* Promises are settled once                                                *)

\* The entry the event loop is at.
First(a, i) == i \in Finished(a) /\ \A j \in Finished(a) : i <= j

\* A promise is fulfilled after its worker's report, and between the fulfilment and
\* the join its entry is the one the event loop is at.
SettledSound ==
    /\ \A w \in Workers : result[w] # "none" => pc[w] = "exit" \/ w \in reported
    /\ \A w \in Workers : result[w] # "none" /\ w \in reported =>
         /\ pc[Owner[w]] = "join"
         /\ \A i \in Finished(Owner[w]) : data[Owner[w]][i] = w => First(Owner[w], i)
    /\ \A a \in Agents : pc[a] = "join" =>
         \E i \in Finished(a) : First(a, i) /\ result[data[a][i]] # "none"

\* Steps that neither fulfil a promise nor concern an entry of an agent that joins.
SettledKept ==
    /\ \A w \in Workers : /\ result'[w] = result[w]
                          /\ pc[w] = "exit" => pc'[w] = "exit"
                          /\ w \in reported => w \in reported'
                          /\ w \in reported' => w \in reported \/ result[w] = "none"
    /\ \A a \in Agents : pc'[a] = "join" <=> pc[a] = "join"
    /\ \A a \in Agents : pc[a] = "join" => data'[a] = data[a] /\ Finished(a)' = Finished(a)

\* Those steps keep what is known about settled promises.
LEMMA SettledSoundKept ==
  ASSUME Base, DataInv, SettledSound, SettledKept
  PROVE  SettledSound'
<1> USE AtomicsWaitAssumption
<1>1. \A w \in Workers : Owner[w] \in Agents
  OBVIOUS
<1>2. ASSUME NEW w \in Workers, result'[w] # "none" PROVE pc'[w] = "exit" \/ w \in reported'
  BY <1>2 DEF SettledSound, SettledKept
<1>3. ASSUME NEW w \in Workers, result'[w] # "none", w \in reported'
      PROVE  /\ pc'[Owner[w]] = "join"
             /\ \A i \in Finished(Owner[w])' :
                  data'[Owner[w]][i] = w => First(Owner[w], i)'
  <2>1. PICK a \in Agents : a = Owner[w]
    BY <1>1
  <2>2. result[w] # "none" /\ w \in reported
    BY <1>3 DEF SettledKept
  <2>3. pc[a] = "join" /\ \A i \in Finished(a) : data[a][i] = w => First(a, i)
    BY <2>1, <2>2 DEF SettledSound
  <2>4. pc'[a] = "join" /\ data'[a] = data[a] /\ Finished(a)' = Finished(a)
    BY <2>3 DEF SettledKept
  <2>5. \A i \in Finished(a)' : data'[a][i] = w => First(a, i)'
    BY <2>3, <2>4 DEF First
  <2> QED
    BY <2>1, <2>4, <2>5
<1>4. ASSUME NEW a \in Agents, pc'[a] = "join"
      PROVE  \E i \in Finished(a)' : First(a, i)' /\ result'[data'[a][i]] # "none"
  <2>1. pc[a] = "join" /\ data'[a] = data[a] /\ Finished(a)' = Finished(a)
    BY <1>4 DEF SettledKept
  <2>2. PICK i \in Finished(a) : First(a, i) /\ result[data[a][i]] # "none"
    BY <2>1 DEF SettledSound
  <2>3. data[a][i] \in Workers
    BY DEF Finished, Base, TypeOK
  <2>4. result'[data'[a][i]] # "none" /\ First(a, i)'
    BY <2>1, <2>2, <2>3 DEF SettledKept, First
  <2> QED
    BY <2>1, <2>4
<1> QED
  BY <1>2, <1>3, <1>4 DEF SettledSound

\* Steps outside the event loop leave promises alone.
LEMMA ResultsKept ==
  ASSUME Base, [Next]_vars, NEW w \in Workers, result'[w] # result[w]
  PROVE  \E a \in Agents : FulfillPromise(a)
<1>1. result \in [Threads -> Results]
  BY DEF Base, TypeOK
<1> USE AtomicsWaitAssumption DEF Threads
<1>2. ASSUME NEW a \in Agents, NEW c \in Cells, WaitNotEqual(a, c) \/ WaitAsyncZero(a, c)
      PROVE  FALSE
  BY <1>1, <1>2 DEF WaitNotEqual, WaitAsyncZero
<1>3. ASSUME NEW a \in Agents, WaitReturns(a) PROVE FALSE
  BY <1>1, <1>3 DEF WaitReturns
<1>4. ASSUME NEW a \in Agents, NEW c \in Cells,
             \/ \E v \in {0, 1} : Store(a, c, v)
             \/ \E t \in Timeouts : WaitSync(a, c, t)
             \/ \E t \in Timeouts, u \in Workers : WaitAsync(a, c, t, u)
             \/ \E n \in Counts : Notify(a, c, n)
      PROVE  FALSE
  BY <1>4 DEF Store, WaitSync, WaitAsync, Notify
<1>5. ASSUME NEW a \in Agents,
             \/ EnterWaiterList(a) \/ RegisterAsyncWaiter(a) \/ ExecutePending(a)
             \/ JoinWorker(a) \/ DrainEnds(a) \/ Loop(a)
      PROVE  FALSE
  BY <1>5 DEF EnterWaiterList, RegisterAsyncWaiter, ExecutePending, JoinWorker, DrainEnds,
              Loop, WaitEvent, WaitEventTimesOut, SpuriousEvent
<1>6. ASSUME NEW u \in Workers, Work(u) PROVE FALSE
  BY <1>6 DEF Work, WorkerStarts, WorkerWakes, WorkerReports, WorkerErases
<1>7. ASSUME NEW t \in Threads, WaitTimesOut(t) \/ SpuriousWakeup(t) PROVE FALSE
  BY <1>7 DEF WaitTimesOut, SpuriousWakeup
<1>8. ASSUME UNCHANGED vars PROVE FALSE
  BY <1>8 DEF vars
<1> QED
  BY <1>2, <1>3, <1>4, <1>5, <1>6, <1>7, <1>8 DEF Next, Script, Proceed

\* No promise is settled initially.
LEMMA SettledInit == Init => SettledSound
<1> SUFFICES ASSUME Init PROVE SettledSound
  OBVIOUS
<1>1. /\ \A w \in Workers : result[w] = "none"
      /\ \A a \in Agents : pc[a] = "run"
  BY AtomicsWaitAssumption DEF Init, Threads
<1> QED
  BY <1>1 DEF SettledSound

\* What SettledOnce says of one step.
SettledStep ==
    \A w \in Workers :
      /\ result'[w] # result[w] => result[w] = "none" /\ w \in reported
      /\ w \in reported /\ w \notin reported' => pc[w] = "exit" /\ result[w] # "none"

\* Every step keeps what is known about settled promises and does what SettledOnce says.
LEMMA SettledNext ==
  Base /\ DataInv /\ SettledSound /\ [Next]_vars => SettledSound' /\ SettledStep
<1> SUFFICES ASSUME Base, DataInv, SettledSound, [Next]_vars PROVE SettledSound' /\ SettledStep
  OBVIOUS
<1>0. /\ pc \in [Threads -> AgentSteps \cup WorkerSteps] /\ dm \in [Agents -> BOOLEAN]
      /\ data \in [Agents -> Seq(Workers)] /\ reported \subseteq Workers
      /\ result \in [Threads -> Results]
  BY DEF Base, TypeOK
<1> USE AtomicsWaitAssumption DEF Threads
<1>1. ASSUME \A w \in Workers : result'[w] = result[w], reported \subseteq reported'
      PROVE  SettledStep
  BY <1>1 DEF SettledStep
<1>2. ASSUME ~ \E a \in Agents : FulfillPromise(a)
      PROVE  \A w \in Workers : result'[w] = result[w]
  BY <1>2, ResultsKept
<1>3. ASSUME NEW a \in Agents, FulfillPromise(a) PROVE SettledSound' /\ SettledStep
  <2>1. PICK n \in Finished(a) :
          /\ \A j \in Finished(a) : n <= j
          /\ result' = [result EXCEPT ![data[a][n]] =
                           IF notified[data[a][n]] THEN "ok" ELSE "timed-out"]
    BY <1>3 DEF FulfillPromise
  <2>2. PICK w \in Workers : w = data[a][n]
    BY <1>0, <2>1 DEF Finished
  <2>3. w \in reported /\ Owner[w] = a /\ n \in 1 .. Len(data[a])
    BY <2>1, <2>2 DEF Finished, DataInv, DataOwned
  <2>4. /\ pc[a] = "drain" /\ pc'[a] = "join" /\ UNCHANGED <<data, reported>>
        /\ \A t \in Threads : t # a => pc'[t] = pc[t]
    BY <1>0, <1>3 DEF FulfillPromise, Goto, vmState
  <2>5. /\ result'[w] # "none"
        /\ \A u \in Workers : u # w => result'[u] = result[u]
    BY <1>0, <2>1, <2>2
  <2>6. result[w] = "none"
    BY <2>3, <2>4 DEF SettledSound
  <2>7. SettledStep
    BY <2>3, <2>4, <2>5, <2>6 DEF SettledStep
  <2>8. \A b \in Agents : Finished(b)' = Finished(b)
    BY <2>4 DEF Finished
  <2>9. \A u \in Workers : pc'[u] = pc[u]
    BY <2>4
  <2>10. First(a, n)'
    BY <2>1, <2>8 DEF First
  <2>11. \A i \in Finished(a) : data[a][i] = w => i = n
    BY <2>2, <2>3 DEF Finished, DataInv, DataOwned
  <2>12. ASSUME NEW u \in Workers, result'[u] # "none" PROVE pc'[u] = "exit" \/ u \in reported'
    BY <2>3, <2>4, <2>5, <2>9, <2>12 DEF SettledSound
  <2>13. ASSUME NEW u \in Workers, result'[u] # "none", u \in reported'
         PROVE  /\ pc'[Owner[u]] = "join"
                /\ \A i \in Finished(Owner[u])' :
                     data'[Owner[u]][i] = u => First(Owner[u], i)'
    <3>1. CASE u = w
      BY <2>3, <2>4, <2>8, <2>10, <2>11, <3>1, ZenonT(30)
    <3>2. CASE u # w
      <4>1. PICK b \in Agents : b = Owner[u]
        OBVIOUS
      <4>2. /\ pc[b] = "join"
            /\ \A i \in Finished(b) : data[b][i] = u => First(b, i)
        BY <2>4, <2>5, <2>13, <3>2, <4>1 DEF SettledSound
      <4>3. pc'[b] = "join"
        BY <2>4, <4>2
      <4> QED
        BY <2>4, <2>8, <4>1, <4>2, <4>3 DEF First
    <3> QED
      BY <3>1, <3>2
  <2>14. ASSUME NEW b \in Agents, pc'[b] = "join"
         PROVE  \E i \in Finished(b)' : First(b, i)' /\ result'[data'[b][i]] # "none"
    <3>1. CASE b = a
      BY <2>1, <2>2, <2>4, <2>5, <2>8, <2>10, <3>1
    <3>2. CASE b # a
      <4>1. PICK i \in Finished(b) : First(b, i) /\ result[data[b][i]] # "none"
        BY <2>4, <2>14, <3>2 DEF SettledSound
      <4>2. data[b][i] \in Workers /\ data[b][i] # w
        BY <1>0, <2>3, <3>2, <4>1 DEF Finished, DataInv, DataOwned
      <4> QED
        BY <2>4, <2>5, <2>8, <4>1, <4>2 DEF First
    <3> QED
      BY <3>1, <3>2
  <2>15. SettledSound'
    BY <2>12, <2>13, <2>14 DEF SettledSound
  <2> QED
    BY <2>7, <2>15
<1>4. ASSUME NEW a \in Agents, JoinWorker(a) PROVE SettledSound' /\ SettledStep
  <2>1. PICK n \in Finished(a) : /\ \A j \in Finished(a) : n <= j
                                 /\ Joinable(data[a][n])
                                 /\ data' = [data EXCEPT ![a] = RemoveAt(@, n)]
                                 /\ reported' = reported \ {data[a][n]}
    BY <1>4 DEF JoinWorker
  <2>2. PICK w \in Workers : w = data[a][n]
    BY <1>0, <2>1 DEF Finished
  <2>3. n \in 1 .. Len(data[a]) /\ w \in reported /\ pc[w] = "exit" /\ Owner[w] = a
    BY <2>1, <2>2 DEF Finished, Joinable, DataInv, DataOwned
  <2>4. /\ pc[a] = "join" /\ pc'[a] = "drain" /\ UNCHANGED result
        /\ \A t \in Threads : t # a => pc'[t] = pc[t]
    BY <1>0, <1>4 DEF JoinWorker, Goto
  <2>5. result[w] # "none"
    <3>1. PICK i \in Finished(a) : First(a, i) /\ result[data[a][i]] # "none"
      BY <2>4 DEF SettledSound
    <3>2. i \in Nat /\ n \in Nat /\ i <= n /\ n <= i
      BY <2>1, <3>1 DEF First, Finished
    <3>3. i = n
      BY <3>2
    <3> QED
      BY <2>2, <3>1, <3>3
  <2>6. SettledStep
    BY <2>1, <2>2, <2>3, <2>4, <2>5 DEF SettledStep
  <2>7. \A b \in Agents : b # a => data'[b] = data[b] /\ Finished(b)' = Finished(b)
    <3> TAKE b \in Agents
    <3> HAVE b # a
    <3>1. data'[b] = data[b]
      BY <1>0, <2>1
    <3>2. \A u \in Workers : Owner[u] = b => (u \in reported' <=> u \in reported)
      BY <2>1, <2>2, <2>3
    <3> QED
      BY <3>1, <3>2, FinishedKept DEF DataInv
  <2>8. \A u \in Workers : pc'[u] = pc[u]
    BY <2>4
  <2>9. ASSUME NEW u \in Workers, result'[u] # "none" PROVE pc'[u] = "exit" \/ u \in reported'
    BY <2>1, <2>2, <2>3, <2>4, <2>8, <2>9 DEF SettledSound
  <2>10. ASSUME NEW u \in Workers, result'[u] # "none", u \in reported'
         PROVE  /\ pc'[Owner[u]] = "join"
                /\ \A i \in Finished(Owner[u])' :
                     data'[Owner[u]][i] = u => First(Owner[u], i)'
    <3>1. PICK b \in Agents : b = Owner[u]
      OBVIOUS
    <3>2. u # w /\ u \in reported /\ result[u] # "none"
      BY <2>1, <2>2, <2>4, <2>10
    <3>3. pc[b] = "join" /\ \A i \in Finished(b) : data[b][i] = u => First(b, i)
      BY <3>1, <3>2 DEF SettledSound
    <3>4. b # a
      <4> SUFFICES ASSUME b = a PROVE FALSE
        OBVIOUS
      <4>1. PICK i \in 1 .. Len(data[a]) : data[a][i] = u
        BY <3>1, <3>2 DEF DataInv, DataComplete
      <4>2. i \in Finished(a)
        BY <3>2, <4>1 DEF Finished
      <4>3. First(a, i)
        BY <3>3, <4>1, <4>2
      <4>4. i \in Nat /\ n \in Nat /\ i <= n /\ n <= i
        BY <2>1, <4>2, <4>3 DEF First, Finished
      <4>5. i = n
        BY <4>4
      <4> QED
        BY <2>2, <3>2, <4>1, <4>5
    <3>5. pc'[b] = "join" /\ data'[b] = data[b] /\ Finished(b)' = Finished(b)
      BY <2>4, <2>7, <3>3, <3>4
    <3> QED
      BY <3>1, <3>3, <3>5 DEF First
  <2>11. ASSUME NEW b \in Agents, pc'[b] = "join"
         PROVE  \E i \in Finished(b)' : First(b, i)' /\ result'[data'[b][i]] # "none"
    <3>1. b # a /\ pc[b] = "join"
      BY <2>4, <2>11
    <3>2. PICK i \in Finished(b) : First(b, i) /\ result[data[b][i]] # "none"
      BY <3>1 DEF SettledSound
    <3> QED
      BY <2>4, <2>7, <3>1, <3>2 DEF First
  <2>12. SettledSound'
    BY <2>9, <2>10, <2>11 DEF SettledSound
  <2> QED
    BY <2>6, <2>12
<1>5. ASSUME SettledKept, reported \subseteq reported' PROVE SettledSound' /\ SettledStep
  BY <1>1, <1>5, SettledSoundKept DEF SettledKept
<1>6. CASE DataKept /\ \A w \in Workers : result'[w] = result[w]
  <2>1. SettledKept
    BY <1>6 DEF DataKept, SettledKept, Finished
  <2> QED
    BY <1>5, <1>6, <2>1 DEF DataKept
<1>7. ASSUME NEW a \in Agents, RegisterAsyncWaiter(a) PROVE SettledSound' /\ SettledStep
  <2>1. PICK w \in Workers : /\ Owner[w] = a /\ pc[w] = "reserved"
                             /\ data' = [data EXCEPT ![a] = Append(@, w)]
                             /\ pc' = [pc EXCEPT ![a] = "run", ![w] = "start"]
    BY <1>7 DEF RegisterAsyncWaiter
  <2>2. pc[a] = "register" /\ UNCHANGED <<reported, result>>
    BY <1>7 DEF RegisterAsyncWaiter
  <2>3. /\ pc'[a] = "run" /\ pc'[w] = "start"
        /\ \A t \in Threads : t # a /\ t # w => pc'[t] = pc[t]
    BY <1>0, <2>1
  <2>4. \A b \in Agents : pc[b] = "join" => data'[b] = data[b] /\ Finished(b)' = Finished(b)
    BY <1>0, <2>1, <2>2 DEF Finished
  <2>5. SettledKept
    BY <2>1, <2>2, <2>3, <2>4 DEF SettledKept
  <2> QED
    BY <1>5, <2>2, <2>5
<1>8. ASSUME NEW a \in Agents, ExecutePending(a) \/ DrainEnds(a) PROVE SettledSound' /\ SettledStep
  <2>1. /\ UNCHANGED <<data, reported, result>>
        /\ \A t \in Threads : t # a => pc'[t] = pc[t]
        /\ pc[a] # "join" /\ pc'[a] # "join"
    BY <1>0, <1>8 DEF ExecutePending, DrainEnds, Goto
  <2>2. /\ \A w \in Workers : pc'[w] = pc[w]
        /\ \A b \in Agents : pc'[b] = "join" <=> pc[b] = "join"
    BY <2>1
  <2>3. SettledKept
    BY <2>1, <2>2 DEF SettledKept, Finished
  <2> QED
    BY <1>5, <2>1, <2>3
<1>9. ASSUME NEW w \in Workers, WorkerReports(w) PROVE SettledSound' /\ SettledStep
  <2>1. PICK a \in Agents : a = Owner[w]
    OBVIOUS
  <2>2. /\ UNCHANGED <<data, result>> /\ pc[w] = "report" /\ reported' = reported \cup {w}
        /\ ~ dm[a]
        /\ pc' = [pc EXCEPT ![w] = "erase", ![a] = IF @ = "eventWait" THEN "execute" ELSE @]
    BY <1>9, <2>1 DEF WorkerReports
  <2>3. /\ pc'[w] = "erase"
        /\ \A u \in Workers : u # w => pc'[u] = pc[u]
        /\ \A b \in Agents : pc'[b] = pc[b] \/ (pc[b] = "eventWait" /\ pc'[b] = "execute")
    BY <1>0, <2>2
  <2>4. pc[a] # "join"
    BY <2>2 DEF DataInv, DrainLocked
  <2>5. result[w] = "none"
    BY <2>2 DEF SettledSound, DataInv, DataComplete
  <2>6. \A b \in Agents : b # a => Finished(b)' = Finished(b)
    <3> TAKE b \in Agents
    <3> HAVE b # a
    <3>1. \A u \in Workers : Owner[u] = b => (u \in reported' <=> u \in reported)
      BY <2>1, <2>2
    <3> QED
      BY <2>2, <3>1, FinishedKept DEF DataInv
  <2>7. \A b \in Agents : pc'[b] = "join" <=> pc[b] = "join"
    BY <2>3
  <2>8. SettledKept
    BY <2>2, <2>3, <2>4, <2>5, <2>6, <2>7 DEF SettledKept
  <2> QED
    BY <1>5, <2>2, <2>8
<1>10. ASSUME NEW w \in Workers, WorkerErases(w) PROVE SettledSound' /\ SettledStep
  <2>1. /\ UNCHANGED <<data, reported, result>> /\ pc[w] = "erase" /\ pc'[w] = "exit"
        /\ \A t \in Threads : t # w => pc'[t] = pc[t]
    BY <1>0, <1>10 DEF WorkerErases, Goto, vmState
  <2>2. /\ \A u \in Workers : u # w => pc'[u] = pc[u]
        /\ \A b \in Agents : pc'[b] = pc[b]
    BY <2>1
  <2>3. SettledKept
    BY <2>1, <2>2 DEF SettledKept, Finished
  <2> QED
    BY <1>5, <2>1, <2>3
<1>11. CASE UNCHANGED vars
  <2>1. SettledKept
    BY <1>11 DEF vars, SettledKept, Finished
  <2> QED
    BY <1>5, <1>11, <2>1 DEF vars
<1> QED
  BY <1>2, <1>3, <1>4, <1>6, <1>7, <1>8, <1>9, <1>10, <1>11, DataKeptSteps

-----------------------------------------------------------------------------
(* Every waiter is listed or counted                                        *)

\* A thread that is not in a wait yet is not counted as notified.
Uncounted == \A t \in Threads : pc[t] \in {"checked", "unused"} => t \notin removed

\* What makes the accounts inductive: a thread enters its list uncounted.
Accounts == ItemsAccounted /\ Uncounted

\* A thread that may be listed waits for a cell that has a list.
LEMMA ListedKey ==
  ASSUME Base, NEW t \in Threads, MayBeListed(t)
  PROVE  KeyOf(t) \in Keys
<1>1. on[t] \in Cells
  BY AtomicsWaitAssumption DEF Base, CellKnown, StepsTyped, MayBeListed, Threads, AgentSteps
<1> QED
  BY <1>1, KeyInKeys DEF KeyOf

\* A step that changes neither lists nor counts and lets nobody enter a wait.
Steady ==
    /\ UNCHANGED <<list, removed>>
    /\ \A t \in Threads :
         /\ MayBeListed(t)' => MayBeListed(t) /\ on'[t] = on[t]
         /\ pc'[t] \in {"checked", "unused"} => pc[t] \in {"checked", "unused"}

\* Such a step keeps the accounts.
LEMMA AccountsSteady ==
  ASSUME Accounts, Steady
  PROVE  Accounts'
<1>1. \A t \in Threads : on'[t] = on[t] => (Listed(t)' <=> Listed(t))
  BY DEF Steady, Listed, KeyOf
<1> QED
  BY <1>1 DEF Accounts, ItemsAccounted, Uncounted, Steady

\* All steps are steady but the six that begin or end a wait, enter or leave a list, or notify.
LEMMA SteadySteps ==
  ASSUME Base, [Next]_vars
  PROVE  \/ Steady
         \/ \E a \in Agents, c \in Cells, o \in Timeouts : WaitSync(a, c, o)
         \/ \E a \in Agents, c \in Cells, o \in Timeouts, w \in Workers : WaitAsync(a, c, o, w)
         \/ \E a \in Agents, c \in Cells, n \in Counts : Notify(a, c, n)
         \/ \E a \in Agents : EnterWaiterList(a) \/ WaitReturns(a)
         \/ \E w \in Workers : WorkerErases(w)
<1>0. /\ pc \in [Threads -> AgentSteps \cup WorkerSteps] /\ StepsTyped
      /\ Workers \subseteq Threads /\ Agents \subseteq Threads
      /\ \A a \in Agents : a \notin Workers
  BY AtomicsWaitAssumption DEF Base, TypeOK, Threads
<1> USE DEF shared, waitState, vmState, MayBeListed, Steady
<1>1. ASSUME NEW a \in Agents, NEW c \in Cells,
             \/ \E v \in {0, 1} : Store(a, c, v)
             \/ WaitNotEqual(a, c)
             \/ WaitAsyncZero(a, c)
      PROVE  Steady
  BY <1>0, <1>1 DEF Store, WaitNotEqual, WaitAsyncZero
<1>2. ASSUME NEW a \in Agents, RegisterAsyncWaiter(a) PROVE Steady
  <2>1. PICK w \in Workers : /\ pc[w] = "reserved"
                             /\ pc' = [pc EXCEPT ![a] = "run", ![w] = "start"]
    BY <1>2 DEF RegisterAsyncWaiter
  <2> QED
    BY <1>0, <1>2, <2>1 DEF RegisterAsyncWaiter
<1>3. ASSUME NEW a \in Agents,
             \/ ExecutePending(a) \/ FulfillPromise(a) \/ JoinWorker(a) \/ DrainEnds(a)
             \/ Loop(a)
      PROVE  Steady
  BY <1>0, <1>3 DEF ExecutePending, FulfillPromise, JoinWorker, DrainEnds, Loop, WaitEvent,
                    WaitEventTimesOut, SpuriousEvent, Goto
<1>4. ASSUME NEW w \in Workers, WorkerStarts(w) \/ WorkerWakes(w) PROVE Steady
  BY <1>0, <1>4 DEF WorkerStarts, WorkerWakes, Goto
<1>5. ASSUME NEW w \in Workers, WorkerReports(w) PROVE Steady
  <2>1. PICK a \in Agents : a = Owner[w]
    BY AtomicsWaitAssumption
  <2>2. /\ pc' = [pc EXCEPT ![w] = "erase", ![a] = IF @ = "eventWait" THEN "execute" ELSE @]
        /\ UNCHANGED <<list, removed, on>> /\ pc[w] = "report"
    BY <1>5, <2>1 DEF WorkerReports
  <2> QED
    BY <1>0, <2>2
<1>6. ASSUME NEW t \in Threads, WaitTimesOut(t) \/ SpuriousWakeup(t) PROVE Steady
  BY <1>0, <1>6 DEF WaitTimesOut, SpuriousWakeup, Goto
<1>7. ASSUME UNCHANGED vars PROVE Steady
  BY <1>0, <1>7 DEF vars
<1> HIDE DEF Steady
<1> QED
  BY <1>1, <1>2, <1>3, <1>4, <1>5, <1>6, <1>7 DEF Next, Script, Proceed, Work

\* An item enters a list: its thread is listed, and for the others nothing changes.
LEMMA AccountEntered ==
  ASSUME Base, Accounts, NEW t \in Threads, NEW k \in Keys, t \notin removed,
         list' = [list EXCEPT ![k] = Append(@, t)], UNCHANGED removed, KeyOf(t)' = k,
         pc'[t] \notin {"checked", "unused"},
         \A u \in Threads : u # t => /\ MayBeListed(u)' => MayBeListed(u) /\ on'[u] = on[u]
                                     /\ pc'[u] \in {"checked", "unused"} => pc[u] = pc'[u]
  PROVE  Accounts'
<1>1. list \in [Keys -> Seq(Threads)] /\ list[k] \in Seq(Threads)
  BY DEF Base, TypeOK
<1>2. Listed(t)'
  <2>1. list'[k] = Append(list[k], t)
    BY <1>1
  <2>2. Len(list[k]) + 1 \in 1 .. Len(list'[k]) /\ list'[k][Len(list[k]) + 1] = t
    BY <1>1, <2>1
  <2> QED
    BY <2>2 DEF Listed
<1>3. ASSUME NEW u \in Threads, u # t, MayBeListed(u)' PROVE Listed(u)' <=> u \notin removed'
  <2>1. MayBeListed(u) /\ on'[u] = on[u] /\ (Listed(u) <=> u \notin removed)
    BY <1>3 DEF Accounts, ItemsAccounted
  <2>2. PICK l \in Keys : l = KeyOf(u) /\ l = KeyOf(u)'
    BY <2>1, ListedKey DEF KeyOf
  <2>3. (\E i \in 1 .. Len(list'[l]) : list'[l][i] = u)
          <=> (\E i \in 1 .. Len(list[l]) : list[l][i] = u)
    <3>1. CASE l = k
      <4>1. PICK s \in Seq(Threads) : s = list[l]
        BY <1>1
      <4>2. list'[l] = Append(s, t)
        BY <1>1, <3>1, <4>1
      <4>3. /\ Len(list'[l]) = Len(s) + 1 /\ Len(s) \in Nat /\ list'[l][Len(s) + 1] # u
            /\ \A i \in 1 .. Len(s) : list'[l][i] = s[i]
        BY <1>3, <4>1, <4>2
      <4> QED
        BY <4>1, <4>3
    <3>2. CASE l # k
      BY <1>1, <3>2
    <3> QED
      BY <3>1, <3>2
  <2> QED
    BY <2>1, <2>2, <2>3 DEF Listed
<1>4. Uncounted'
  BY DEF Accounts, Uncounted
<1> QED
  BY <1>2, <1>3, <1>4 DEF Accounts, ItemsAccounted

\* The wait of t ends and its item, if it is still there, leaves the list; no other does.
LEMMA AccountLeft ==
  ASSUME Base, NoStaleItem, Accounts, NEW t \in Threads, MayBeListed(t),
         list' = Erase(KeyOf(t), t), UNCHANGED removed, ~ MayBeListed(t)',
         pc'[t] \notin {"checked", "unused"},
         \A u \in Threads : u # t => pc'[u] = pc[u] /\ on'[u] = on[u]
  PROVE  Accounts'
<1>1. PICK k \in Keys : k = KeyOf(t)
  BY ListedKey
<1>2. /\ \A l \in Keys : l # k => list'[l] = list[l]
      /\ \A i \in 1 .. Len(list'[k]) : \E j \in 1 .. Len(list[k]) : list'[k][i] = list[k][j]
      /\ \A j \in 1 .. Len(list[k]) : list[k][j] # t =>
           \E i \in 1 .. Len(list'[k]) : list'[k][i] = list[k][j]
  <2>1. list' = Erase(k, t)
    BY <1>1
  <2> QED
    BY <2>1, Erased
<1>3. ASSUME NEW u \in Threads, MayBeListed(u)' PROVE Listed(u)' <=> u \notin removed'
  <2>1. u # t /\ MayBeListed(u) /\ on'[u] = on[u] /\ (Listed(u) <=> u \notin removed)
    BY <1>3 DEF Accounts, ItemsAccounted, MayBeListed
  <2>2. PICK l \in Keys : l = KeyOf(u) /\ l = KeyOf(u)'
    BY <2>1, ListedKey DEF KeyOf
  <2>3. (\E i \in 1 .. Len(list'[l]) : list'[l][i] = u)
          <=> (\E i \in 1 .. Len(list[l]) : list[l][i] = u)
    BY <1>2, <2>1
  <2> QED
    BY <2>1, <2>2, <2>3 DEF Listed
<1>4. Uncounted'
  BY DEF Accounts, Uncounted
<1> QED
  BY <1>3, <1>4 DEF Accounts, ItemsAccounted

\* notify counts exactly the items it takes off the list, whichever threads it wakes.
LEMMA AccountNotified ==
  ASSUME Base, NoStaleItem, Accounts, NEW a \in Agents, NEW c \in Cells, NEW n \in Counts,
         Notify(a, c, n)
  PROVE  Accounts'
<1> DEFINE k == BlockAddress(c)
           m == NotifyCount(k, n)
<1>0. list \in [Keys -> Seq(Threads)] /\ pc \in [Threads -> AgentSteps \cup WorkerSteps]
  BY DEF Base, TypeOK
<1>1. k \in Keys /\ Len(list[k]) \in Nat /\ m \in 0 .. Len(list[k])
  BY <1>0, KeyInKeys, AtomicsWaitAssumption DEF NotifyCount
<1>2. /\ list' = [list EXCEPT ![k] = SubSeq(@, m + 1, Len(@))]
      /\ removed' = removed \cup {list[k][i] : i \in 1 .. m}
      /\ UNCHANGED on
      /\ \E S \in Wakeable(k, m) : pc' = [t \in Threads |-> IF t \in S THEN "woken" ELSE pc[t]]
  BY DEF Notify
<1> HIDE DEF k, m
<1>3. \A t \in Threads : /\ MayBeListed(t)' <=> MayBeListed(t)
                         /\ pc'[t] \in {"checked", "unused"} => pc'[t] = pc[t]
  BY <1>0, <1>2 DEF Wakeable, Sleepers, MayBeListed
<1>4. PICK s \in Seq(Threads) : s = list[k]
  BY <1>0, <1>1
<1>5. /\ \A i, j \in 1 .. Len(s) : s[i] = s[j] => i = j
      /\ \A i \in 1 .. Len(s) : MayBeListed(s[i]) /\ KeyOf(s[i]) = k
  BY <1>1, <1>4 DEF NoStaleItem
<1>6. /\ Len(list'[k]) = Len(s) - m /\ Len(s) \in Nat /\ m \in Nat /\ m <= Len(s)
      /\ \A i \in 1 .. Len(s) - m : list'[k][i] = s[i + m]
  BY <1>0, <1>1, <1>2, <1>4
<1>7. ASSUME NEW t \in Threads, MayBeListed(t)' PROVE Listed(t)' <=> t \notin removed'
  <2>1. MayBeListed(t) /\ (Listed(t) <=> t \notin removed)
    BY <1>3, <1>7 DEF Accounts, ItemsAccounted
  <2>2. PICK l \in Keys : l = KeyOf(t) /\ l = KeyOf(t)'
    BY <1>2, <2>1, ListedKey DEF KeyOf
  <2>3. CASE l # k
    <3>1. list'[l] = list[l]
      BY <1>0, <1>2, <2>3
    <3>2. ASSUME NEW i \in 1 .. m PROVE s[i] # t
      <4>1. i \in 1 .. Len(s)
        BY <1>6
      <4>2. KeyOf(s[i]) = k
        BY <1>5, <4>1
      <4> QED
        BY <2>2, <2>3, <4>2
    <3> QED
      BY <1>2, <1>4, <2>1, <2>2, <3>1, <3>2 DEF Listed
  <2>4. CASE l = k
    <3>1. CASE \E i \in 1 .. m : s[i] = t
      <4>1. t \in removed'
        BY <1>2, <1>4, <3>1
      <4>2. PICK i \in 1 .. m : s[i] = t
        BY <3>1
      <4>3. ASSUME NEW j \in 1 .. Len(list'[k]), list'[k][j] = t PROVE FALSE
        <5>1. j + m \in 1 .. Len(s) /\ s[j + m] = t /\ i \in 1 .. Len(s) /\ i # j + m
          BY <1>6, <4>2, <4>3
        <5> QED
          BY <1>5, <4>2, <5>1
      <4> QED
        BY <2>2, <2>4, <4>1, <4>3 DEF Listed
    <3>2. CASE ~ \E i \in 1 .. m : s[i] = t
      <4>1. t \in removed' <=> t \in removed
        BY <1>2, <1>4, <3>2
      <4>2. ASSUME NEW i \in 1 .. Len(s), s[i] = t
            PROVE  \E j \in 1 .. Len(list'[k]) : list'[k][j] = t
        <5>1. i - m \in 1 .. Len(s) - m /\ (i - m) + m = i
          BY <1>6, <3>2, <4>2
        <5>2. list'[k][i - m] = t
          BY <1>6, <4>2, <5>1
        <5> QED
          BY <1>6, <5>1, <5>2
      <4>3. ASSUME NEW j \in 1 .. Len(list'[k]), list'[k][j] = t
            PROVE  \E i \in 1 .. Len(s) : s[i] = t
        <5>1. j + m \in 1 .. Len(s) /\ s[j + m] = t
          BY <1>6, <4>3
        <5> QED
          BY <5>1
      <4> QED
        BY <1>4, <2>1, <2>2, <2>4, <4>1, <4>2, <4>3 DEF Listed
    <3> QED
      BY <3>1, <3>2
  <2> QED
    BY <2>3, <2>4
<1>8. ASSUME NEW t \in Threads, pc'[t] \in {"checked", "unused"} PROVE t \notin removed'
  <2>1. t \notin removed /\ ~ MayBeListed(t)
    BY <1>3, <1>8 DEF Accounts, Uncounted, MayBeListed
  <2>2. \A i \in 1 .. m : s[i] # t
    BY <1>5, <1>6, <2>1
  <2> QED
    BY <1>2, <1>4, <2>1, <2>2
<1> QED
  BY <1>7, <1>8 DEF Accounts, ItemsAccounted, Uncounted

\* Every step keeps the accounts.
LEMMA AccountsNext ==
  ASSUME Base, NoStaleItem, Accounts, [Next]_vars
  PROVE  Accounts'
<1>0. /\ pc \in [Threads -> AgentSteps \cup WorkerSteps] /\ on \in [Threads -> Cells \cup {None}]
      /\ CellKnown /\ Workers \subseteq Threads /\ Agents \subseteq Threads
      /\ \A a \in Agents : a \notin Workers
  BY AtomicsWaitAssumption DEF Base, TypeOK, Threads
<1>1. ASSUME NEW a \in Agents, NEW c \in Cells, NEW o \in Timeouts, WaitSync(a, c, o)
      PROVE  Accounts'
  <2>1. /\ pc'[a] = "checked" /\ removed' = removed \ {a} /\ UNCHANGED list
        /\ \A t \in Threads : t # a => pc'[t] = pc[t] /\ on'[t] = on[t]
    BY <1>0, <1>1 DEF WaitSync, Goto, shared
  <2>2. ASSUME NEW t \in Threads, MayBeListed(t)' PROVE Listed(t)' <=> t \notin removed'
    <3>1. t # a /\ MayBeListed(t) /\ on'[t] = on[t]
      BY <2>1, <2>2 DEF MayBeListed
    <3> QED
      BY <2>1, <3>1 DEF Accounts, ItemsAccounted, Listed, KeyOf
  <2> QED
    BY <1>0, <2>1, <2>2 DEF Accounts, ItemsAccounted, Uncounted
<1>2. ASSUME NEW a \in Agents, NEW c \in Cells, NEW o \in Timeouts, NEW w \in Workers,
             WaitAsync(a, c, o, w)
      PROVE  Accounts'
  <2>1. PICK k \in Keys : k = BlockAddress(c)
    BY KeyInKeys
  <2>2. /\ list' = [list EXCEPT ![k] = Append(@, w)] /\ UNCHANGED removed
        /\ pc[w] = "unused" /\ pc' = [pc EXCEPT ![a] = "register", ![w] = "reserved"]
        /\ on' = [on EXCEPT ![w] = c]
    BY <1>2, <2>1 DEF WaitAsync
  <2>3. /\ KeyOf(w)' = k /\ pc'[w] = "reserved" /\ w \notin removed
        /\ \A u \in Threads : u # w => /\ MayBeListed(u)' => MayBeListed(u) /\ on'[u] = on[u]
                                       /\ pc'[u] \in {"checked", "unused"} => pc[u] = pc'[u]
    BY <1>0, <2>1, <2>2 DEF KeyOf, MayBeListed, Accounts, Uncounted
  <2> QED
    BY <1>0, <2>1, <2>2, <2>3, AccountEntered
<1>3. ASSUME NEW a \in Agents, EnterWaiterList(a) PROVE Accounts'
  <2>1. PICK k \in Keys : k = KeyOf(a) /\ k = KeyOf(a)'
    BY <1>0, <1>3, KeyInKeys DEF EnterWaiterList, KeyOf, CellKnown, waitState
  <2>2. /\ list' = [list EXCEPT ![k] = Append(@, a)] /\ UNCHANGED <<removed, on>>
        /\ pc[a] = "checked" /\ pc' = [pc EXCEPT ![a] = "sleep"]
    BY <1>3, <2>1 DEF EnterWaiterList, Goto, waitState
  <2>3. /\ pc'[a] = "sleep" /\ a \notin removed
        /\ \A u \in Threads : u # a => /\ MayBeListed(u)' => MayBeListed(u) /\ on'[u] = on[u]
                                       /\ pc'[u] \in {"checked", "unused"} => pc[u] = pc'[u]
    BY <1>0, <2>2 DEF MayBeListed, Accounts, Uncounted
  <2> QED
    BY <1>0, <2>1, <2>2, <2>3, AccountEntered
<1>4. ASSUME NEW a \in Agents, WaitReturns(a) PROVE Accounts'
  <2>1. /\ MayBeListed(a) /\ list' = Erase(KeyOf(a), a) /\ UNCHANGED removed
        /\ pc'[a] = "run" /\ \A u \in Threads : u # a => pc'[u] = pc[u] /\ on'[u] = on[u]
    BY <1>0, <1>4 DEF WaitReturns, Goto, MayBeListed
  <2>2. ~ MayBeListed(a)'
    BY <2>1 DEF MayBeListed
  <2> QED
    BY <1>0, <2>1, <2>2, AccountLeft
<1>5. ASSUME NEW w \in Workers, WorkerErases(w) PROVE Accounts'
  <2>1. /\ MayBeListed(w) /\ list' = Erase(KeyOf(w), w) /\ UNCHANGED removed
        /\ pc'[w] = "exit" /\ \A u \in Threads : u # w => pc'[u] = pc[u] /\ on'[u] = on[u]
    BY <1>0, <1>5 DEF WorkerErases, Goto, MayBeListed, waitState
  <2>2. ~ MayBeListed(w)'
    BY <2>1 DEF MayBeListed
  <2> QED
    BY <1>0, <2>1, <2>2, AccountLeft
<1> QED
  BY <1>1, <1>2, <1>3, <1>4, <1>5, AccountNotified, AccountsSteady, SteadySteps

\* A worker goes from its start to its report by WorkerStarts alone.
LEMMA StartStep ==
  ASSUME Base, [Next]_vars, NEW w \in Workers, pc[w] = "start", pc'[w] = "report"
  PROVE  WorkerStarts(w)
<1> DEFINE Goal == WorkerStarts(w)
<1>0. /\ pc \in [Threads -> AgentSteps \cup WorkerSteps] 
      /\ w \in Threads /\ w \notin Agents
  BY AtomicsWaitAssumption DEF Base, TypeOK, Threads
<1> USE DEF shared, waitState, vmState
<1>1. ASSUME NEW a \in Agents, NEW c \in Cells,
             \/ \E v \in {0, 1} : Store(a, c, v)
             \/ WaitNotEqual(a, c)
             \/ WaitAsyncZero(a, c)
      PROVE  Goal
  BY <1>1 DEF Store, WaitNotEqual, WaitAsyncZero
<1>2. ASSUME NEW a \in Agents, NEW c \in Cells, NEW o \in Timeouts, WaitSync(a, c, o) PROVE Goal
  BY <1>0, <1>2 DEF WaitSync, Goto
<1>3. ASSUME NEW a \in Agents, NEW c \in Cells, NEW o \in Timeouts, NEW u \in Workers,
             WaitAsync(a, c, o, u)
      PROVE  Goal
  BY <1>0, <1>3 DEF WaitAsync
<1>4. ASSUME NEW a \in Agents, NEW c \in Cells, NEW n \in Counts, Notify(a, c, n) PROVE Goal
  BY <1>0, <1>4 DEF Notify
<1>5. ASSUME NEW a \in Agents, EnterWaiterList(a) PROVE Goal
  BY <1>0, <1>5 DEF EnterWaiterList, Goto
<1>6. ASSUME NEW a \in Agents, WaitReturns(a) PROVE Goal
  BY <1>0, <1>6 DEF WaitReturns, Goto
<1>7. ASSUME NEW a \in Agents, RegisterAsyncWaiter(a) PROVE Goal
  BY <1>0, <1>7 DEF RegisterAsyncWaiter
<1>8. ASSUME NEW a \in Agents,
             \/ ExecutePending(a) \/ FulfillPromise(a) \/ JoinWorker(a) \/ DrainEnds(a)
             \/ Loop(a)
      PROVE  Goal
  BY <1>0, <1>8 DEF ExecutePending, FulfillPromise, JoinWorker, DrainEnds, Loop, WaitEvent,
                    WaitEventTimesOut, SpuriousEvent, Goto
<1>9. ASSUME NEW u \in Workers, WorkerStarts(u) PROVE Goal
  BY <1>0, <1>9 DEF WorkerStarts, Goto
<1>10. ASSUME NEW u \in Workers, WorkerWakes(u) \/ WorkerErases(u) PROVE Goal
  BY <1>0, <1>10 DEF WorkerWakes, WorkerErases, Goto
<1>11. ASSUME NEW u \in Workers, WorkerReports(u) PROVE Goal
  <2>1. PICK a \in Agents : a = Owner[u]
    BY AtomicsWaitAssumption
  <2>2. /\ pc' = [pc EXCEPT ![u] = "erase", ![a] = IF @ = "eventWait" THEN "execute" ELSE @]
        /\ UNCHANGED on
    BY <1>11, <2>1 DEF WorkerReports
  <2> QED
    BY <1>0, <2>2
<1>12. ASSUME NEW u \in Threads, WaitTimesOut(u) \/ SpuriousWakeup(u) PROVE Goal
  BY <1>0, <1>12 DEF WaitTimesOut, SpuriousWakeup, Goto
<1>13. ASSUME UNCHANGED vars PROVE Goal
  BY <1>13 DEF vars
<1> HIDE DEF Goal
<1>14. Goal
  BY <1>1, <1>2, <1>3, <1>4, <1>5, <1>6, <1>7, <1>8, <1>9, <1>10, <1>11, <1>12, <1>13
  DEF Next, Script, Proceed, Work
<1> QED
  BY <1>14 DEF Goal

-----------------------------------------------------------------------------
(* The theorems                                                             *)

\* The inductive invariant.
Inv == Base /\ NoStaleItem /\ DataInv /\ PendingExact /\ SettledSound

\* The inductive invariant of Atomics.wait, waitAsync and notify holds in every reachable
\* state.
THEOREM Invariance == Spec => []Inv
<1>1. Init => NoStaleItem
  BY DEF Init, NoStaleItem
<1>2. Init => Inv
  BY <1>1, BaseInit, DataInvInit, PendingInit, SettledInit DEF Inv
<1>3. Inv /\ [Next]_vars => Inv'
  BY BaseNext, NoStaleNext, DataInvNext, PendingNext, SettledNext DEF Inv
<1> QED
  BY <1>2, <1>3, PTL DEF Spec

\* Every variable keeps its type (Global::Waiter, VMInstance's async waiter data).
THEOREM TypeCorrect == Spec => []TypeOK
<1>1. Inv => TypeOK
  BY DEF Inv, Base
<1> QED
  BY <1>1, Invariance, PTL

\* A waiter list names a thread at most once and only during the wait the item was made
\* for, whatever notifications, timeouts and spurious wakeups happen (doWait, notify).
THEOREM NoStaleItems == Spec => []NoStaleItem
<1>1. Inv => NoStaleItem
  BY DEF Inv
<1> QED
  BY <1>1, Invariance, PTL

\* While nobody holds the data mutex, m_pendingAsyncWaiterCount is the number of finished
\* waits the event loop has not collected.
THEOREM PendingIsExact == Spec => []PendingExact
<1>1. Inv => PendingExact
  BY DEF Inv
<1> QED
  BY <1>1, Invariance, PTL

\* executePendingJobFromAnotherThread fulfills the promise of a waitAsync once, after its
\* worker's report, and drops its entry only when that thread has ended.
THEOREM PromisesSettledOnce == Spec => SettledOnce
<1>1. Inv /\ [Next]_vars => SettledStep
  BY SettledNext DEF Inv
<1>2. Inv /\ [Next]_vars => [\A w \in Workers :
         /\ result'[w] # result[w] => result[w] = "none" /\ w \in reported
         /\ w \in reported /\ w \notin reported' => pc[w] = "exit" /\ result[w] # "none"]_vars
  BY <1>1 DEF SettledStep
<1> QED
  BY <1>2, Invariance, PTL DEF Spec, SettledOnce

\* Where no two cells share a block address, Atomics.notify takes only items of its own cell
\* off a list: the collisions of BlockAddress are the only way for it to reach another.
THEOREM NotifyReachesOwnCell ==
  ASSUME \A c, d \in Cells : BlockAddress(c) = BlockAddress(d) => c = d
  PROVE  Spec => NotifyOwnCell
<1>1. Inv /\ [Next]_vars => [\A a \in Agents, c \in Cells, n \in Counts : Notify(a, c, n) =>
         \A t \in removed' \ removed : on[t] = c]_vars
  <2> SUFFICES ASSUME Inv, NEW a \in Agents, NEW c \in Cells, NEW n \in Counts,
                      Notify(a, c, n), NEW t \in removed' \ removed
               PROVE  on[t] = c
    OBVIOUS
  <2> DEFINE k == BlockAddress(c)
             m == NotifyCount(k, n)
  <2>1. k \in Keys /\ m \in 0 .. Len(list[k]) /\ Len(list[k]) \in Nat /\ list[k] \in Seq(Threads)
    BY KeyInKeys, AtomicsWaitAssumption DEF NotifyCount, Inv, Base, TypeOK
  <2>2. removed' = removed \cup {list[k][j] : j \in 1 .. m}
    BY DEF Notify
  <2> HIDE DEF k, m
  <2>3. PICK i \in 1 .. Len(list[k]) : t = list[k][i]
    BY <2>1, <2>2
  <2>4. MayBeListed(t) /\ KeyOf(t) = k /\ t \in Threads
    BY <2>1, <2>3 DEF Inv, NoStaleItem
  <2>5. on[t] \in Cells
    BY <2>4, AtomicsWaitAssumption
    DEF Inv, Base, CellKnown, StepsTyped, MayBeListed, Threads, AgentSteps
  <2> QED
    BY <2>4, <2>5 DEF KeyOf, k
<1> QED
  BY <1>1, Invariance, PTL DEF Spec, NotifyOwnCell

\* From AddWaiter to its own erase, the item of a waiter is on its list or was counted by a
\* notify, and never both: for every count, whichever threads notify_one wakes, and with
\* timeouts and spurious wakeups (doWait, notify).
THEOREM ItemsAreAccounted == Spec => []ItemsAccounted
<1>1. Init => Accounts
  BY AtomicsWaitAssumption DEF Init, Accounts, ItemsAccounted, Uncounted, MayBeListed, Threads
<1>2. Inv /\ Accounts /\ [Next]_vars => Accounts'
  BY AccountsNext DEF Inv
<1>3. Accounts => ItemsAccounted
  BY DEF Accounts
<1> QED
  BY <1>1, <1>2, <1>3, Invariance, PTL DEF Spec

\* A worker that reports without having slept was counted by a notify between its
\* registration and its first step, for every count and every interleaving.
THEOREM EarlyReportsNotified == Spec => EarlyReportNotified
<1>1. Inv /\ ItemsAccounted /\ [Next]_vars =>
        [\A w \in Workers : pc[w] = "start" /\ pc'[w] = "report" => w \in removed]_vars
  <2> SUFFICES ASSUME Inv, ItemsAccounted, Next, NEW w \in Workers,
                      pc[w] = "start", pc'[w] = "report"
               PROVE  w \in removed
    BY DEF vars
  <2>1. WorkerStarts(w)
    BY StartStep DEF Inv
  <2>2. ~ Listed(w) /\ w \in Threads
    BY <2>1 DEF WorkerStarts, StillListed, Listed, Goto, Inv, Base, TypeOK, Threads
  <2> QED
    BY <2>2 DEF ItemsAccounted, MayBeListed
<1> QED
  BY <1>1, Invariance, ItemsAreAccounted, PTL DEF Spec, EarlyReportNotified
=============================================================================
