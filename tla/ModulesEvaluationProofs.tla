----------------------- MODULE ModulesEvaluationProofs -----------------------
(***************************************************************************)
(* Proofs about the order in which module bodies start, for every import    *)
(* graph and any number of import() and host calls: what a module waits     *)
(* for, who is told when it fails, and what is behind it when it starts or  *)
(* when an import() of it is fulfilled.                                     *)
(*                                                                         *)
(* The invariant holds while the host can load every requested module, no   *)
(* module waited for two async dependencies and no cycle root was           *)
(* overwritten: asyncModuleFulfilled starts a parent without looking at its *)
(* count, and with two dependencies it starts too early (run                *)
(* Modules_dependencies); after moduleEvaluate of an evaluated member of a  *)
(* cycle others wait for that member alone (run Modules_evaluateAgain).     *)
(***************************************************************************)
EXTENDS ModulesProofs

-----------------------------------------------------------------------------
(* What waits for what: the invariant of the evaluation                     *)

\* The evaluated modules with a root, which is the one their walk found (RootsFound) while
\* none was overwritten.
Rooted == {m \in HasStatus({"Evaluated"}) : md[m].cycleRoot # None}
RootsAgree ==
    /\ Rooted = Complete
    /\ \A m \in Module : md[m].cycleRoot # None =>
          md[m].status = "Evaluated" \/ (kind[m] = "json" /\ md[m].cycleRoot = m)
    /\ \A m \in Module : md[m].status = "Evaluated" /\ ~ md[m].error => md[m].cycleRoot # None
    /\ \A m \in Rooted : \A k \in 1 .. Len(requests[m]) : requests[m][k] \in Rooted
    /\ \A m \in Rooted : SameCycle(m, md[m].cycleRoot)
    /\ \A m, r \in Rooted : SameCycle(m, r) => md[m].cycleRoot = md[r].cycleRoot

BodyJobs == {"asyncModuleFulfilled", "asyncModuleRejected"}
Started == {"Evaluating", "Evaluated"}
Parents(x) == md[x].asyncParentModules
AllDone(x) == \A y \in Module : Reaches(x, y) => y \in done

\* A call of innerModuleEvaluation is in progress for x; if so it is past request k.
Executing(x) == \E j \in 1 .. Len(frames) : frames[j].fn = "innerModuleEvaluation" /\ frames[j].m = x
Past(x, k) ==
    \A j \in 1 .. Len(frames) : frames[j].fn = "innerModuleEvaluation" /\ frames[j].m = x => k < frames[j].i

\* No call was entered after y and not after r.
NoneBetween(y, r) ==
    \A x \in Module : Executing(x) /\ md[x].dfsIndex <= md[r].dfsIndex => md[x].dfsIndex <= md[y].dfsIndex

HistoryTypes ==
    /\ runs \in [Module -> Nat] /\ deps \in [Module -> Nat] /\ running \in [Module -> Nat]
    /\ done \subseteq Module

\* A module whose evaluation has not begun waits for nothing, and nothing waits for it.
Fresh ==
    \A x \in Module : md[x].status \notin Started =>
        /\ runs[x] = 0 /\ deps[x] = 0 /\ md[x].pendingAsyncDependencies = 0
        /\ ~ md[x].asyncEvaluating /\ ~ md[x].error /\ Parents(x) = << >>

\* A module registers with one module, once.
Registered ==
    /\ \A x \in Module : requests[x] = << >> => deps[x] = 0
    /\ \A x \in Module : \A i \in 1 .. Len(Parents(x)) : deps[Parents(x)[i]] > 0
    /\ \A x, y \in Module : \A i \in 1 .. Len(Parents(x)) : \A j \in 1 .. Len(Parents(y)) :
          Parents(x)[i] = Parents(y)[j] => x = y /\ i = j

\* The parents of a module start after asyncModuleFulfilled took it over.
Waiting ==
    \A x \in Module : x \notin done \/ md[x].asyncEvaluating =>
        \A i \in 1 .. Len(Parents(x)) : runs[Parents(x)[i]] = 0

\* A body that awaits has not ended; one whose job is queued has.
Bodies ==
    /\ \A x \in done : runs[x] > 0
    /\ \A x \in Module : running[x] > 0 => running[x] = 1 /\ runs[x] > 0 /\ x \notin done
    /\ \A i \in 1 .. Len(jobs) : jobs[i].fn \in BodyJobs =>
          /\ running[jobs[i].m] = 0 /\ runs[jobs[i].m] > 0
          /\ jobs[i].fn = "asyncModuleFulfilled" <=> jobs[i].m \in done

\* asyncModuleFulfilled starts the parents one by one.
Fulfilling ==
    /\ \A j \in 1 .. Len(frames) : frames[j].fn = "asyncModuleFulfilled" =>
          /\ frames[j].m \in done
          /\ frames[j].i >= 1 =>
                /\ ~ md[frames[j].m].asyncEvaluating
                /\ \A l \in 1 .. Len(Parents(frames[j].m)) :
                      frames[j].i <= l => runs[Parents(frames[j].m)[l]] = 0
    /\ \A j, k \in 1 .. Len(frames) :
          /\ frames[j].fn = "asyncModuleFulfilled" /\ frames[j].i >= 1
          /\ frames[k].fn = "asyncModuleFulfilled" /\ frames[k].i >= 1
          /\ frames[j].m = frames[k].m
          => j = k

\* asyncModuleRejected is called for modules that did not come to their end.
Rejecting ==
    \A j \in 1 .. Len(frames) : frames[j].fn = "asyncModuleRejected" =>
        /\ frames[j].m \notin done /\ running[frames[j].m] = 0
        /\ IF frames[j].i = 0 THEN j = 1 ELSE md[frames[j].m].error

\* A failed module has told its parents, or is about to.
Reported ==
    ~ escaped => \A x \in Module : md[x].error => \A l \in 1 .. Len(Parents(x)) :
        \/ md[Parents(x)[l]].error
        \/ \E j \in 1 .. Len(frames) :
              /\ frames[j].fn = "asyncModuleRejected" /\ frames[j].m = x
              /\ frames[j].i >= 1 /\ frames[j].i <= l
        \/ /\ frames # << >> /\ frames[1].fn = "asyncModuleRejected"
           /\ frames[1].m = Parents(x)[l] /\ frames[1].i = 0

\* A module whose evaluation was found complete ends, waits or has failed.
Outcomes ==
    /\ \A x \in Rooted : x \in done \/ md[x].asyncEvaluating \/ md[x].error
    /\ \A x \in Rooted : md[x].error => x \notin done /\ running[x] = 0

\* The walk in progress: its calls, and the modules that are left on its stack.
Walked ==
    /\ \A x \in Module : Executing(x) =>
          /\ runs[x] = 0 /\ md[x].pendingAsyncDependencies = deps[x]
          /\ ~ md[x].asyncEvaluating /\ Parents(x) = << >>
    /\ \A x \in HasStatus({"Evaluating"}) : ~ md[x].error
    /\ \A x \in HasStatus({"Evaluating"}) : Executing(x) \/ x \in done \/ md[x].asyncEvaluating
    /\ \A x \in HasStatus({"Evaluating"}) : \A z \in ToSet(Parents(x)) :
          z \in HasStatus({"Evaluating"}) /\ x \in ToSet(requests[z])

\* The module that called for y waits for it, or is about to see that it has to.
TreeParent(z, y) ==
    \/ z \in ToSet(Parents(y))
    \/ /\ Len(frames) > 1 /\ frames[1].m = z /\ frames[1].i <= Len(requests[z])
       /\ requests[z][frames[1].i] = y
TreeWalk ==
    \A y \in HasStatus({"Evaluating"}) : Executing(y) \/ y \in done \/
        \E z \in HasStatus({"Evaluating"}) :
            md[z].dfsIndex < md[y].dfsIndex /\ NoneBetween(z, y) /\ TreeParent(z, y)

\* What a walk has seen of a request r of y.
Seen(y, r) ==
    \/ r \in HasStatus({"Evaluating"}) /\ NoneBetween(y, r)
    \/ r \in Rooted /\ (AllDone(r) \/ y \in ToSet(Parents(md[r].cycleRoot)))
RequestsWalk ==
    \A y \in HasStatus({"Evaluating"}) : \A k \in 1 .. Len(requests[y]) :
        Past(y, k) => Seen(y, requests[y][k])

\* In a cycle that was found, a module that has not ended is waited for by one below it.
TreeOf(y) ==
    y = md[y].cycleRoot \/ y \in done \/
        \E z \in ToSet(Parents(y)) :
            z \in Rooted /\ md[z].cycleRoot = md[y].cycleRoot /\ md[z].dfsIndex < md[y].dfsIndex

\* A module in such a cycle waits for every request outside that has not ended.
RequestsOf(y) ==
    \A k \in 1 .. Len(requests[y]) :
        \/ md[requests[y][k]].cycleRoot = md[y].cycleRoot
        \/ AllDone(requests[y][k])
        \/ y \in ToSet(Parents(md[requests[y][k]].cycleRoot))
Found == \A y \in Rooted : TreeOf(y) /\ RequestsOf(y)

\* A body that was started had everything outside its cycle behind it.
StartOf(y) == \A k \in 1 .. Len(requests[y]) : SameCycle(y, requests[y][k]) \/ AllDone(requests[y][k])
Starts == \A y \in Module : runs[y] > 0 => StartOf(y)

\* The promises of import() wait with the module they are for.
ImportsWait ==
    /\ \A i \in 1 .. Len(jobs) : jobs[i].fn = "importResolved" =>
          jobs[i].p \in 1 .. Len(imports) /\ imports[jobs[i].p].m = jobs[i].m
    /\ call.op = "import" => call.p \in 1 .. Len(imports) /\ imports[call.p].m = call.m
    /\ \A x \in Module : \A p \in ToSet(md[x].asyncPendingPromises) :
          p \in 1 .. Len(imports) /\ imports[p].m = x
    /\ \A p \in 1 .. Len(imports) : imports[p].state = "fulfilled" =>
          /\ md[imports[p].m].status = "Evaluated"
          /\ md[imports[p].m].error \/ imports[p].m \in done
    /\ \A x \in Module : md[x].topLevelCapability # "none" =>
          \/ md[x].status \in Started
          \/ /\ frames # << >> /\ frames[Len(frames)].fn = "moduleEvaluation"
             /\ frames[Len(frames)].m = x /\ frames[Len(frames)].i = 1
    /\ (call.op = "import" /\ frames # << >> /\ frames[1].fn = "moduleEvaluation" /\ frames[1].i = 0)
          => md[call.m].status # "Evaluated"

Bookkeeping == HistoryTypes /\ Fresh /\ Registered /\ Waiting /\ Bodies
Calling == Fulfilling /\ Rejecting /\ Reported
WalkWaits == Walked /\ TreeWalk /\ RequestsWalk
Findings == Outcomes /\ Found /\ Starts
EvaluationInv == Bookkeeping /\ Calling /\ WalkWaits /\ Findings /\ ImportsWait

-----------------------------------------------------------------------------
(* What the invariant says of a cycle that was found                        *)

LEMMA AllDoneOn ==
  ASSUME NEW q \in Module, NEW r \in Module, Reaches(q, r), AllDone(q)
  PROVE  AllDone(r)
<1> SUFFICES ASSUME NEW x \in Module, Reaches(r, x) PROVE x \in done
  BY DEF AllDone
<1>1. Reaches(q, x)
  BY ReachesOn DEF Reaches
<1> QED
  BY <1>1 DEF AllDone

\* The root of a cycle is a member of it, and its own root.
LEMMA RootIsComplete ==
  ASSUME ModulesInv, RootsAgree, NEW r \in Rooted
  PROVE  /\ r \in Module /\ md[r].cycleRoot \in Module /\ md[r].cycleRoot \in Rooted
         /\ md[md[r].cycleRoot].cycleRoot = md[r].cycleRoot
         /\ Reaches(r, md[r].cycleRoot) /\ Reaches(md[r].cycleRoot, r)
<1>1. RootsAgree /\ Types
  BY DEF ModulesInv
<1>2. r \in Module /\ md[r].cycleRoot # None /\ md[r] \in Records
  BY <1>1 DEF Rooted, HasStatus, Types
<1>3. md[r].cycleRoot \in Module
  BY <1>2 DEF Records
<1>4. SameCycle(r, md[r].cycleRoot)
  BY <1>1 DEF RootsAgree
<1>5. Closed(requests, Rooted)
  <2> SUFFICES ASSUME NEW m \in Rooted, NEW x \in ToSet(requests[m]) PROVE x \in Rooted
    BY DEF Closed
  <2>1. requests[m] \in Seq(Module)
    BY <1>1 DEF Types, Rooted, HasStatus
  <2>2. PICK k \in 1 .. Len(requests[m]) : requests[m][k] = x
    BY <2>1 DEF ToSet
  <2> QED
    BY <2>2, <1>1 DEF RootsAgree
<1>6. md[r].cycleRoot \in Rooted
  <2>1. PICK g, S, q : g = requests /\ S = Rooted /\ q = md[r].cycleRoot
    OBVIOUS
  <2>2. S \in SUBSET Module /\ Closed(g, S) /\ r \in S /\ ReachesIn(g, r, q)
    BY <2>1, <1>4, <1>5 DEF Rooted, HasStatus, SameCycle, Reaches
  <2>3. q \in S
    BY ONLY <2>2, ReachesWithin
  <2> QED
    BY <2>1, <2>3
<1>7. md[r].cycleRoot = md[md[r].cycleRoot].cycleRoot
  BY <1>1, <1>4, <1>6 DEF RootsAgree
<1> QED
  BY <1>2, <1>3, <1>4, <1>6, <1>7 DEF SameCycle

LEMMA SameRootSameCycle ==
  ASSUME ModulesInv, RootsAgree, NEW m \in Rooted, NEW r \in Rooted, md[m].cycleRoot = md[r].cycleRoot
  PROVE  SameCycle(m, r)
<1>1. PICK q : q = md[m].cycleRoot
  OBVIOUS
<1>2. m \in Module /\ r \in Module /\ q \in Module /\ Reaches(m, q) /\ Reaches(q, m) /\ Reaches(r, q) /\ Reaches(q, r)
  BY <1>1, RootIsComplete
<1> QED
  BY <1>2, ReachesOn DEF SameCycle, Reaches

\* When the root of a cycle has come to its end, so has all that the cycle reaches.
LEMMA RootDone ==
  ASSUME ModulesInv, RootsAgree, Bookkeeping, Found, Starts, NEW q \in Rooted, md[q].cycleRoot = q, q \in done
  PROVE  AllDone(q)
<1>t. Types /\ RootsAgree
  BY DEF ModulesInv
<1>c. PICK C : C = {x \in Rooted : md[x].cycleRoot = q}
  OBVIOUS
<1>m. C \subseteq Module /\ Rooted \subseteq Module /\ q \in C
  BY <1>c DEF Rooted, HasStatus
<1>1. ASSUME NEW y \in C, y \notin done
      PROVE  \E z \in C : z \notin done /\ md[z].dfsIndex < md[y].dfsIndex
  <2>1. y # q /\ TreeOf(y) /\ md[y].cycleRoot = q
    BY <1>1, <1>c DEF Found
  <2>2. PICK z \in ToSet(Parents(y)) :
            z \in Rooted /\ md[z].cycleRoot = q /\ md[z].dfsIndex < md[y].dfsIndex
    BY <2>1, <1>1 DEF TreeOf
  <2>3. Parents(y) \in Seq(Module)
    BY <1>t, <1>m DEF Types, Records, Parents
  <2>4. PICK i \in 1 .. Len(Parents(y)) : Parents(y)[i] = z
    BY <2>2, <2>3 DEF ToSet
  <2>5. runs[z] = 0
    BY <2>4, <1>1, <1>m DEF Bookkeeping, Waiting
  <2>6. z \notin done
    BY <2>5, <1>m, <2>2 DEF Bookkeeping, Bodies
  <2> QED
    BY <2>2, <2>6, <1>c
<1>2. C \subseteq done
  <2> SUFFICES ASSUME ~ (C \subseteq done) PROVE FALSE
    OBVIOUS
  <2>1. PICK T : T = {md[y].dfsIndex : y \in C \ done}
    OBVIOUS
  <2>2. T \subseteq Nat /\ T # {}
    BY <2>1, <1>t, <1>m DEF Types, Records
  <2>3. PICK n \in T : \A k \in T : n <= k
    BY ONLY <2>2, LeastElement
  <2>4. PICK y \in C : y \notin done /\ md[y].dfsIndex = n
    BY <2>1, <2>3
  <2>5. PICK z \in C : z \notin done /\ md[z].dfsIndex < md[y].dfsIndex
    BY <2>4, <1>1
  <2>6. md[z].dfsIndex \in T
    BY <2>1, <2>5
  <2>7. md[z].dfsIndex \in Nat /\ n \in Nat
    BY <2>2, <2>3, <2>6
  <2> QED
    BY <2>3, <2>4, <2>5, <2>6, <2>7
<1>s. PICK S : S = C \union {x \in Module : AllDone(x)}
  OBVIOUS
<1>3. S \subseteq done
  <2> SUFFICES ASSUME NEW x \in S PROVE x \in done
    OBVIOUS
  <2>1. CASE x \in C
    BY <2>1, <1>2
  <2>2. CASE x \in Module /\ AllDone(x)
    BY <2>2, ReachesItself DEF AllDone, Reaches
  <2> QED
    BY <2>1, <2>2, <1>s
<1>4. Closed(requests, S)
  <2> SUFFICES ASSUME NEW x \in S, NEW r \in ToSet(requests[x]) PROVE r \in S
    BY DEF Closed
  <2>0. x \in Module
    BY <1>s, <1>m
  <2>1. requests[x] \in Seq(Module)
    BY <2>0, <1>t DEF Types
  <2>2. PICK k \in 1 .. Len(requests[x]) : requests[x][k] = r
    BY <2>1 DEF ToSet
  <2>3. r \in Module
    BY <2>1, <2>2
  <2>4. CASE x \in C
    <3>1. runs[x] > 0
      BY <2>4, <1>2 DEF Bookkeeping, Bodies
    <3>2. SameCycle(x, r) \/ AllDone(r)
      BY <3>1, <2>0, <2>2 DEF Starts, StartOf
    <3>3. x \in Rooted /\ r \in Rooted /\ md[x].cycleRoot = q
      BY <2>4, <2>2, <1>c, <1>t DEF RootsAgree
    <3>4. SameCycle(x, r) => md[r].cycleRoot = q
      BY <3>3, <1>t DEF RootsAgree
    <3> QED
      BY <3>2, <3>3, <3>4, <2>3, <1>c, <1>s
  <2>5. CASE AllDone(x)
    <3>1. Reaches(x, r)
      BY <2>0, <2>2, <1>t, ReachesRequest DEF Reaches, Types
    <3>2. AllDone(r)
      BY <3>1, <2>0, <2>3, <2>5, AllDoneOn
    <3> QED
      BY <3>2, <2>3, <1>s
  <2> QED
    BY <2>4, <2>5, <1>s
<1> QED
  <2> SUFFICES ASSUME NEW x \in Module, Reaches(q, x) PROVE x \in done
    BY DEF AllDone
  <2>1. PICK g : g = requests
    OBVIOUS
  <2>2. S \in SUBSET Module /\ Closed(g, S) /\ q \in S /\ ReachesIn(g, q, x)
    BY <2>1, <1>4, <1>s, <1>m DEF Reaches
  <2>3. x \in S
    BY ONLY <2>2, ReachesWithin
  <2> QED
    BY <2>3, <1>3

-----------------------------------------------------------------------------
(* What the invariant says of the stack                                     *)

\* Every module on the stack reaches the innermost call.
LEMMA StackReaches ==
  ASSUME NEW g, NEW F, NEW K, NEW d, NEW a, NEW n, NEW out, Tarjan(g, F, K, d, a, n, out),
         Len(F) > 1, NEW x \in K
  PROVE  ReachesIn(g, x, F[1].m)
<1>t. WalkTypes(g, F, K, d, a, n, out)
  BY DEF Tarjan
<1>1. K \subseteq Module /\ d \in [Module -> Nat] /\ a \in [Module -> Nat] /\ Len(F) \in Nat /\ 1 \in Inner(F)
  BY <1>t DEF WalkTypes, Inner
<1>2. PICK T : T = {d[y] : y \in {w \in K : ReachesIn(g, x, w)}}
  OBVIOUS
<1>3. T \subseteq Nat /\ T # {}
  <2>1. ReachesIn(g, x, x)
    BY <1>1, ReachesItself
  <2> QED
    BY <2>1, <1>1, <1>2
<1>4. PICK k \in T : \A l \in T : k <= l
  BY ONLY <1>3, LeastElement
<1>5. PICK y \in K : ReachesIn(g, x, y) /\ d[y] = k
  BY <1>2, <1>4
<1>6. PICK w \in K : d[w] = a[y] /\ ReachesIn(g, y, w)
  BY <1>5 DEF Tarjan, Paths
<1>7. ReachesIn(g, x, w)
  BY <1>1, <1>5, <1>6, ReachesOn
<1>8. d[y] <= a[y]
  BY <1>2, <1>4, <1>5, <1>6, <1>7
<1>9. a[y] = d[y]
  <2>1. a[y] <= d[y]
    BY <1>5 DEF Tarjan, Indices
  <2> QED
    BY <2>1, <1>8, <1>1, <1>5
<1>10. PICK j \in Inner(F) : F[j].m = y
  BY <1>5, <1>9, <1>1 DEF Tarjan, Left
<1>11. F[1].m \in K /\ d[y] <= d[F[1].m]
  <2>1. F[1].m \in K
    BY <1>1 DEF Tarjan, Indices
  <2>2. CASE j = 1
    BY <2>1, <2>2, <1>1, <1>10
  <2>3. CASE j # 1
    <3>1. 1 < j
      BY <2>3, <1>10, <1>1 DEF Inner
    <3>2. d[F[j].m] < d[F[1].m]
      BY <3>1, <1>1, <1>10 DEF Tarjan, Indices
    <3> QED
      BY <3>2, <2>1, <1>1, <1>10
  <2> QED
    BY <2>2, <2>3
<1>12. ReachesIn(g, y, F[1].m)
  BY <1>10, <1>11 DEF Tarjan, Paths
<1> QED
  BY <1>1, <1>5, <1>11, <1>12, ReachesOn

LEMMA ReachesNothing ==
  ASSUME NEW g, NEW m \in Module, NEW r \in Module, g[m] = << >>, ReachesIn(g, m, r)
  PROVE  r = m
<1>1. Closed(g, {m})
  BY DEF Closed, ToSet
<1>2. PICK S : S = {m}
  OBVIOUS
<1>3. S \in SUBSET Module /\ Closed(g, S) /\ m \in S /\ ReachesIn(g, m, r)
  BY <1>1, <1>2
<1>4. r \in S
  BY ONLY <1>3, ReachesWithin
<1> QED
  BY <1>2, <1>4

\* A module without requests is a cycle of its own, and in a call.
LEMMA EmptyIsRoot ==
  ASSUME NEW g, NEW F, NEW K, NEW d, NEW a, NEW n, NEW out, Tarjan(g, F, K, d, a, n, out),
         NEW x \in K, g[x] = << >>
  PROVE  a[x] = d[x] /\ \E j \in Inner(F) : F[j].m = x
<1>t. K \subseteq Module /\ d \in [Module -> Nat] /\ a \in [Module -> Nat]
  BY DEF Tarjan, WalkTypes
<1>1. PICK y \in K : d[y] = a[x] /\ ReachesIn(g, x, y)
  BY DEF Tarjan, Paths
<1>2. y = x
  BY <1>1, <1>t, ReachesNothing
<1>3. a[x] = d[x]
  BY <1>1, <1>2
<1> QED
  BY <1>3, <1>t DEF Tarjan, Left

-----------------------------------------------------------------------------
(* What a step may only add to                                              *)

LEMMA AllDoneGrows ==
  ASSUME requests' = requests, done \subseteq done', NEW x \in Module, AllDone(x)
  PROVE  AllDone(x)'
  BY DEF AllDone, Reaches

LEMMA StartGrows ==
  ASSUME Types, requests' = requests, done \subseteq done', NEW y \in Module, StartOf(y)
  PROVE  StartOf(y)'
<1> SUFFICES ASSUME NEW k \in 1 .. Len(requests[y])
             PROVE  SameCycle(y, requests[y][k])' \/ AllDone(requests[y][k])'
  BY DEF StartOf
<1>1. PICK r : r = requests[y][k]
  OBVIOUS
<1>2. r \in Module
  BY <1>1 DEF Types
<1>3. SameCycle(y, r) \/ AllDone(r)
  BY <1>1 DEF StartOf
<1>4. SameCycle(y, r)' <=> SameCycle(y, r)
  BY DEF SameCycle, Reaches
<1>5. AllDone(r) => AllDone(r)'
  BY <1>2, AllDoneGrows
<1>6. requests'[y][k] = r
  BY <1>1
<1>7. SameCycle(y, r)' \/ AllDone(r)'
  BY <1>3, <1>4, <1>5
<1> QED
  BY <1>6, <1>7 DEF SameCycle, AllDone, Reaches

Grows ==
    /\ requests' = requests /\ done \subseteq done'
    /\ \A x \in Rooted : /\ x \in Rooted' /\ md'[x].cycleRoot = md[x].cycleRoot
                           /\ md'[x].dfsIndex = md[x].dfsIndex
    /\ \A x \in Module : ToSet(Parents(x)) \subseteq ToSet(md'[x].asyncParentModules)

LEMMA FoundGrows ==
  ASSUME ModulesInv, RootsAgree, Grows, NEW y \in Rooted, TreeOf(y), RequestsOf(y)
  PROVE  TreeOf(y)' /\ RequestsOf(y)'
<1>t. Types /\ RootsAgree
  BY DEF ModulesInv
<1>y. y \in Module
  BY DEF Rooted, HasStatus
<1>1. TreeOf(y)'
  BY <1>y DEF Grows, TreeOf, Parents
<1>2. RequestsOf(y)'
  <2> SUFFICES ASSUME NEW k \in 1 .. Len(requests[y])
               PROVE  \/ md'[requests[y][k]].cycleRoot = md'[y].cycleRoot
                      \/ AllDone(requests[y][k])'
                      \/ y \in ToSet(md'[md'[requests[y][k]].cycleRoot].asyncParentModules)
    <3>1. requests' = requests
      BY DEF Grows
    <3> QED
      BY <3>1 DEF RequestsOf, Parents, AllDone, Reaches
  <2>1. PICK r : r = requests[y][k]
    OBVIOUS
  <2>2. r \in Module /\ r \in Rooted /\ md[r].cycleRoot \in Module
    <3>1. r \in Rooted
      BY <2>1, <1>t DEF RootsAgree
    <3> QED
      BY <3>1, RootIsComplete
  <2>3. md'[r].cycleRoot = md[r].cycleRoot /\ md'[y].cycleRoot = md[y].cycleRoot
    BY <2>2 DEF Grows
  <2>4. \/ md[r].cycleRoot = md[y].cycleRoot \/ AllDone(r)
        \/ y \in ToSet(Parents(md[r].cycleRoot))
    BY <2>1 DEF RequestsOf
  <2>5. AllDone(r) => AllDone(r)'
    <3>1. requests' = requests /\ done \subseteq done'
      BY DEF Grows
    <3> QED
      BY <3>1, <2>2, AllDoneGrows
  <2>6. y \in ToSet(Parents(md[r].cycleRoot)) => y \in ToSet(md'[md[r].cycleRoot].asyncParentModules)
    BY <2>2 DEF Grows
  <2>7. \/ md'[r].cycleRoot = md'[y].cycleRoot \/ AllDone(r)'
        \/ y \in ToSet(md'[md'[r].cycleRoot].asyncParentModules)
    BY <2>3, <2>4, <2>5, <2>6
  <2>8. r = requests'[y][k]
    BY <2>1 DEF Grows
  <2> QED
    BY <2>1, <2>7, <2>8 DEF AllDone, Reaches
<1> QED
  BY <1>1, <1>2

\* Nothing is found; a body may be started.
LEMMA FindingsGrow ==
  ASSUME ModulesInv, RootsAgree, Found, Starts, Grows, Rooted' \subseteq Rooted,
         \A x \in Module : runs'[x] > 0 => runs[x] > 0 \/ StartOf(x)'
  PROVE  Found' /\ Starts'
<1>t. Types /\ requests' = requests /\ done \subseteq done'
  BY DEF ModulesInv, Grows
<1>1. ASSUME NEW y \in Rooted' PROVE TreeOf(y)' /\ RequestsOf(y)'
  BY FoundGrows DEF Found
<1>2. ASSUME NEW y \in Module, runs'[y] > 0 PROVE StartOf(y)'
  <2>1. CASE runs[y] > 0
    BY <2>1, <1>t, StartGrows DEF Starts
  <2>2. CASE StartOf(y)'
    BY <2>2
  <2> QED
    BY <2>1, <2>2, <1>2
<1> QED
  BY <1>1, <1>2 DEF Found, Starts

-----------------------------------------------------------------------------
(* Steps that neither walk the evaluation nor tell parents                  *)

SameWaits(e, f) ==
    /\ e.error = f.error /\ e.asyncEvaluating = f.asyncEvaluating /\ e.cycleRoot = f.cycleRoot
    /\ e.asyncParentModules = f.asyncParentModules
    /\ e.pendingAsyncDependencies = f.pendingAsyncDependencies
SameImport(e, f) ==
    e.asyncPendingPromises = f.asyncPendingPromises /\ e.topLevelCapability = f.topLevelCapability

QuietFrames == {f \in FrameSet : f.fn \in {"moduleLinking", "innerModuleLinking", "moduleEvaluation"}}
NoCalls == frames \in Seq(QuietFrames)

LEMMA NoCallsFacts ==
  ASSUME NoCalls
  PROVE  /\ \A j \in 1 .. Len(frames) : frames[j].fn \in {"moduleLinking", "innerModuleLinking", "moduleEvaluation"}
         /\ frames # << >> => frames[1].fn \in {"moduleLinking", "innerModuleLinking", "moduleEvaluation"}
<1>1. \A j \in 1 .. Len(frames) : frames[j] \in QuietFrames
  BY DEF NoCalls
<1>2. \A j \in 1 .. Len(frames) : frames[j].fn \in {"moduleLinking", "innerModuleLinking", "moduleEvaluation"}
  BY <1>1 DEF QuietFrames
<1>3. frames # << >> => 1 \in 1 .. Len(frames)
  BY DEF NoCalls
<1> QED
  BY <1>2, <1>3

\* A module that has started keeps its status; one that has not does not start.
Quiet ==
    /\ UNCHANGED <<requests, runs, deps, running, done, escaped>>
    /\ NoCalls /\ NoCalls'
    /\ \A x \in Module : md[x].status # "Evaluating"
    /\ \A x \in Module :
          /\ SameWaits(md'[x], md[x])
          /\ md'[x].status \in Started <=> md[x].status \in Started
          /\ md[x].status = "Evaluated" => md'[x].status = "Evaluated" /\ md'[x].dfsIndex = md[x].dfsIndex
    /\ \A i \in 1 .. Len(jobs') : jobs'[i].fn \in BodyJobs => \E k \in 1 .. Len(jobs) : jobs'[i] = jobs[k]

Waits == Bookkeeping /\ Calling /\ WalkWaits /\ Findings

LEMMA QuietKeeps ==
  ASSUME ModulesInv, RootsAgree, Waits, Quiet
  PROVE  Waits'
<1>1. /\ requests' = requests /\ runs' = runs /\ deps' = deps /\ running' = running /\ done' = done
      /\ escaped' = escaped
      /\ \A x \in Module : SameWaits(md'[x], md[x])
      /\ \A x \in Module : md'[x].status \in Started <=> md[x].status \in Started
  BY DEF Quiet
<1>2. \A x \in Module : Parents(x)' = Parents(x)
  BY <1>1 DEF Parents, SameWaits
<1>3. Bookkeeping'
  <2>b. HistoryTypes /\ Fresh /\ Registered /\ Waiting /\ Bodies
    BY DEF Waits, Bookkeeping
  <2>1. HistoryTypes'
    BY <2>b, <1>1 DEF HistoryTypes
  <2>2. Fresh'
    BY <2>b, <1>1, <1>2 DEF Fresh, SameWaits, Parents
  <2>3. Registered'
    <3>1. \A x \in Module : requests'[x] = << >> => deps'[x] = 0
      BY <2>b, <1>1 DEF Registered
    <3>2. \A x \in Module : \A i \in 1 .. Len(Parents(x)') : deps'[Parents(x)'[i]] > 0
      BY <2>b, <1>1, <1>2 DEF Registered
    <3>3. \A x, y \in Module : \A i \in 1 .. Len(Parents(x)') : \A j \in 1 .. Len(Parents(y)') :
            Parents(x)'[i] = Parents(y)'[j] => x = y /\ i = j
      BY <2>b, <1>2 DEF Registered
    <3> QED
      BY <3>1, <3>2, <3>3 DEF Registered
  <2>4. Waiting'
    BY <2>b, <1>1, <1>2 DEF Waiting, SameWaits, Parents
  <2>5. Bodies'
    <3>1. \A i \in 1 .. Len(jobs') : jobs'[i].fn \in BodyJobs => \E k \in 1 .. Len(jobs) : jobs'[i] = jobs[k]
      BY DEF Quiet
    <3> QED
      BY <3>1, <2>b, <1>1 DEF Bodies
  <2> QED
    BY <2>1, <2>2, <2>3, <2>4, <2>5 DEF Bookkeeping
<1>n. /\ \A j \in 1 .. Len(frames') : frames'[j].fn \in {"moduleLinking", "innerModuleLinking", "moduleEvaluation"}
      /\ \A j \in 1 .. Len(frames) : frames[j].fn \in {"moduleLinking", "innerModuleLinking", "moduleEvaluation"}
      /\ frames # << >> => frames[1].fn \in {"moduleLinking", "innerModuleLinking", "moduleEvaluation"}
  <2>1. NoCalls /\ NoCalls'
    BY DEF Quiet
  <2>2. \A j \in 1 .. Len(frames') : frames'[j].fn \in {"moduleLinking", "innerModuleLinking", "moduleEvaluation"}
    <3>1. \A j \in 1 .. Len(frames') : frames'[j] \in QuietFrames
      BY <2>1 DEF NoCalls
    <3> QED
      BY <3>1 DEF QuietFrames
  <2> QED
    BY <2>1, <2>2, NoCallsFacts
<1>4. Calling'
  <2>1. Fulfilling'
    BY <1>n DEF Fulfilling
  <2>2. Rejecting'
    BY <1>n DEF Rejecting
  <2>3. Reported'
    <3> SUFFICES ASSUME ~ escaped', NEW x \in Module, md'[x].error, NEW l \in 1 .. Len(Parents(x)')
                 PROVE  md'[Parents(x)'[l]].error
      BY DEF Reported
    <3>1. md[x].error /\ Parents(x)' = Parents(x) /\ Parents(x) \in Seq(Module) /\ ~ escaped
      BY <1>1, <1>2 DEF SameWaits, ModulesInv, Types, Records, Parents
    <3>2. Parents(x)[l] \in Module
      BY <3>1
    <3>3. /\ \A j \in 1 .. Len(frames) : frames[j].fn # "asyncModuleRejected"
          /\ frames # << >> => frames[1].fn # "asyncModuleRejected"
      BY <1>n
    <3>4. md[Parents(x)[l]].error
      BY <3>1, <3>3 DEF Waits, Calling, Reported
    <3> QED
      BY <3>1, <3>2, <3>4, <1>1 DEF SameWaits
  <2> QED
    BY <2>1, <2>2, <2>3 DEF Calling
<1>5. WalkWaits'
  <2>1. \A x \in Module : ~ Executing(x)'
    BY <1>n DEF Executing
  <2>2. HasStatus({"Evaluating"})' = {}
    BY DEF Quiet, HasStatus, Started
  <2>3. Walked'
    BY <2>1, <2>2 DEF Walked
  <2>4. TreeWalk' /\ RequestsWalk'
    BY <2>2 DEF TreeWalk, RequestsWalk
  <2> QED
    BY <2>3, <2>4 DEF WalkWaits
<1>6. Rooted' = Rooted /\ Rooted \subseteq Module
  <2>1. \A x \in Module : x \in Rooted' <=> x \in Rooted
    BY <1>1 DEF Rooted, HasStatus, Quiet, SameWaits, Started
  <2>2. Rooted' \subseteq Module /\ Rooted \subseteq Module
    BY DEF Rooted, HasStatus
  <2> QED
    BY ONLY <2>1, <2>2
<1>7. Findings'
  <2>1. Outcomes'
    BY <1>1, <1>6 DEF Waits, Findings, Outcomes, SameWaits
  <2>2. Grows
    <3>1. \A x \in Rooted : md'[x].cycleRoot = md[x].cycleRoot /\ md'[x].dfsIndex = md[x].dfsIndex
      BY <1>1, <1>6 DEF Quiet, SameWaits, Rooted, HasStatus
    <3> QED
      BY <3>1, <1>1, <1>2, <1>6 DEF Grows, Parents
  <2>3. Found' /\ Starts'
    <3>1. \A x \in Module : runs'[x] > 0 => runs[x] > 0 \/ StartOf(x)'
      BY <1>1
    <3> QED
      BY <3>1, <2>2, <1>6, FindingsGrow DEF Waits, Findings
  <2> QED
    BY <2>1, <2>3 DEF Findings
<1> QED
  BY <1>3, <1>4, <1>5, <1>7 DEF Waits

-----------------------------------------------------------------------------
(* The promises of import()                                                 *)

LEMMA SettledFacts ==
  ASSUME imports \in Seq(ImportSet), NEW ps, NEW st, NEW s, s = Settled(ps, st)
  PROVE  /\ Len(s) = Len(imports)
         /\ \A p \in 1 .. Len(imports) : /\ s[p].m = imports[p].m
                                         /\ s[p].state = IF p \in ps THEN st ELSE imports[p].state
<1>1. DOMAIN imports = 1 .. Len(imports) /\ Len(imports) \in Nat
  OBVIOUS
<1>2. DOMAIN s = 1 .. Len(imports) /\ \A p \in 1 .. Len(imports) :
          s[p] = IF p \in ps THEN [imports[p] EXCEPT !.state = st] ELSE imports[p]
  BY <1>1 DEF Settled
<1>3. Len(s) = Len(imports)
  <2>1. s = [p \in 1 .. Len(imports) |-> s[p]]
    BY <1>1 DEF Settled
  <2>2. s \in Seq({s[p] : p \in 1 .. Len(imports)})
    BY <2>1, <1>1, <1>2
  <2> QED
    BY <2>2, <1>1, <1>2
<1>4. \A p \in 1 .. Len(imports) : imports[p] \in ImportSet
  OBVIOUS
<1>5. ASSUME NEW p \in 1 .. Len(imports)
      PROVE  s[p].m = imports[p].m /\ s[p].state = IF p \in ps THEN st ELSE imports[p].state
  <2>1. PICK e : e = imports[p]
    OBVIOUS
  <2>2. e \in ImportSet /\ s[p] = IF p \in ps THEN [e EXCEPT !.state = st] ELSE e
    BY <2>1, <1>2, <1>4
  <2> QED
    BY <2>1, <2>2 DEF ImportSet
<1> QED
  BY <1>3, <1>5

Waited(x, p) == p \in 1 .. Len(imports) /\ imports[p].m = x
JobsWait == \A i \in 1 .. Len(jobs) : jobs[i].fn = "importResolved" => Waited(jobs[i].m, jobs[i].p)
CallWaits == call.op = "import" => Waited(call.m, call.p)
PromisesWait == \A x \in Module : \A p \in ToSet(md[x].asyncPendingPromises) : Waited(x, p)
FulfilledDone ==
    \A p \in 1 .. Len(imports) : imports[p].state = "fulfilled" =>
        md[imports[p].m].status = "Evaluated" /\ (md[imports[p].m].error \/ imports[p].m \in done)
Capable ==
    /\ \A x \in Module : md[x].topLevelCapability # "none" =>
          \/ md[x].status \in Started
          \/ /\ frames # << >> /\ frames[Len(frames)].fn = "moduleEvaluation"
             /\ frames[Len(frames)].m = x /\ frames[Len(frames)].i = 1
    /\ (call.op = "import" /\ frames # << >> /\ frames[1].fn = "moduleEvaluation" /\ frames[1].i = 0)
          => md[call.m].status # "Evaluated"

LEMMA ImportsParts ==
  ImportsWait <=> JobsWait /\ CallWaits /\ PromisesWait /\ FulfilledDone /\ Capable
  BY DEF ImportsWait, JobsWait, CallWaits, PromisesWait, FulfilledDone, Capable, Waited

LEMMA ImportsPartsPrimed ==
  ImportsWait' <=> JobsWait' /\ CallWaits' /\ PromisesWait' /\ FulfilledDone' /\ Capable'
  BY DEF ImportsWait, JobsWait, CallWaits, PromisesWait, FulfilledDone, Capable, Waited

\* Promises are only added and settled, modules only end and fail.
ImportsMove ==
    /\ done \subseteq done'
    /\ \A x \in Module : /\ md[x].status = "Evaluated" => md'[x].status = "Evaluated"
                         /\ md[x].error => md'[x].error
                         /\ \A p \in ToSet(md'[x].asyncPendingPromises) :
                               p \in ToSet(md[x].asyncPendingPromises) \/ Waited(x, p)'
    /\ \A p \in 1 .. Len(imports) : p \in 1 .. Len(imports') /\ imports'[p].m = imports[p].m
    /\ \A p \in 1 .. Len(imports') : imports'[p].state = "fulfilled" =>
          \/ p \in 1 .. Len(imports) /\ imports[p].state = "fulfilled"
          \/ md'[imports'[p].m].status = "Evaluated" /\ (md'[imports'[p].m].error \/ imports'[p].m \in done')
    /\ \A i \in 1 .. Len(jobs') : jobs'[i].fn = "importResolved" =>
          (\E k \in 1 .. Len(jobs) : jobs'[i] = jobs[k]) \/ Waited(jobs[i].m, jobs[i].p)'
    /\ call' = call \/ call'.op # "import" \/ Waited(call.m, call.p)'
    /\ Capable'

LEMMA ImportsKept ==
  ASSUME Types, ImportsWait, ImportsMove
  PROVE  ImportsWait'
<1>1. JobsWait /\ CallWaits /\ PromisesWait /\ FulfilledDone /\ Capable
  BY ImportsParts
<1>2. \A x, p : Waited(x, p) => Waited(x, p)'
  BY DEF Waited, ImportsMove
<1>3. JobsWait'
  <2> SUFFICES ASSUME NEW i \in 1 .. Len(jobs'), jobs'[i].fn = "importResolved"
               PROVE  Waited(jobs[i].m, jobs[i].p)'
    BY DEF JobsWait
  <2>1. (\E k \in 1 .. Len(jobs) : jobs'[i] = jobs[k]) \/ Waited(jobs[i].m, jobs[i].p)'
    BY DEF ImportsMove
  <2>2. ASSUME NEW k \in 1 .. Len(jobs), jobs'[i] = jobs[k] PROVE Waited(jobs[i].m, jobs[i].p)'
    <3>1. Waited(jobs[k].m, jobs[k].p)
      BY <2>2, <1>1 DEF JobsWait
    <3>2. PICK x, p : x = jobs[k].m /\ p = jobs[k].p
      OBVIOUS
    <3>3. Waited(x, p)' /\ jobs'[i].m = x /\ jobs'[i].p = p
      BY <3>1, <3>2, <2>2, <1>2
    <3> QED
      BY <3>3 DEF Waited
  <2> QED
    BY <2>1, <2>2
<1>4. CallWaits'
  BY <1>1, <1>2 DEF CallWaits, ImportsMove, Waited
<1>5. PromisesWait'
  BY <1>1, <1>2 DEF PromisesWait, ImportsMove
<1>6. FulfilledDone'
  <2> SUFFICES ASSUME NEW p \in 1 .. Len(imports'), imports'[p].state = "fulfilled"
               PROVE  md'[imports'[p].m].status = "Evaluated" /\ (md'[imports'[p].m].error \/ imports'[p].m \in done')
    BY DEF FulfilledDone
  <2>1. CASE p \in 1 .. Len(imports) /\ imports[p].state = "fulfilled"
    <3>0. imports[p] \in ImportSet
      BY <2>1 DEF Types
    <3>1. imports[p].m \in Module
      BY <3>0 DEF ImportSet
    <3>2. imports'[p].m = imports[p].m /\ md[imports[p].m].status = "Evaluated"
          /\ (md[imports[p].m].error \/ imports[p].m \in done)
      BY <2>1, <1>1 DEF FulfilledDone, ImportsMove
    <3> QED
      BY <3>1, <3>2 DEF ImportsMove
  <2> QED
    BY <2>1 DEF ImportsMove
<1> QED
  BY <1>3, <1>4, <1>5, <1>6, ImportsPartsPrimed DEF ImportsMove

-----------------------------------------------------------------------------
(* Linking                                                                  *)

\* Linking touches modules that have not started.
LinkData(e, f) ==
    /\ SameWaits(e, f) /\ SameImport(e, f)
    /\ IF f.status \in Started THEN e.status = f.status /\ e.dfsIndex = f.dfsIndex
                               ELSE e.status \notin Started

LEMMA SameLinkData == \A e : e.status = e.status => LinkData(e, e)
  BY DEF LinkData, SameWaits, SameImport

LinkStep ==
    /\ UNCHANGED <<requests, jobs, running, runs, deps, done, escaped>>
    /\ \A x \in Module : LinkData(md'[x], md[x])
    /\ NoCalls' /\ Len(imports') = Len(imports)
    /\ \A p \in 1 .. Len(imports) : /\ imports'[p].m = imports[p].m
                                    /\ imports'[p].state = "fulfilled" => imports[p].state = "fulfilled"
    /\ call' = call \/ call' = NoCall
    /\ frames' # << >> /\ frames'[1].fn = "moduleEvaluation" => call'.op # "instantiate"

LEMMA LinkingNoCalls ==
  ASSUME Types, InLinking
  PROVE  /\ NoCalls /\ \A x \in Module : md[x].status # "Evaluating"
         /\ frames # << >> /\ frames[Len(frames)].fn = "moduleLinking"
<1>1. /\ frames # << >> /\ frames[Len(frames)].fn = "moduleLinking"
      /\ \A j \in Inner(frames) : frames[j].fn = "innerModuleLinking"
  BY DEF InLinking, Walking
<1>2. \A x \in Module : md[x].status # "Evaluating"
  <2>1. HasStatus({"Linking", "Evaluating"}) = HasStatus({"Linking"})
    BY DEF InLinking, Walking
  <2> QED
    BY <2>1 DEF HasStatus
<1>3. frames \in Seq(FrameSet)
  BY DEF Types
<1>4. \A j \in 1 .. Len(frames) : frames[j] \in QuietFrames
  <2> SUFFICES ASSUME NEW j \in 1 .. Len(frames) PROVE frames[j] \in QuietFrames
    OBVIOUS
  <2>1. frames[j] \in FrameSet
    BY <1>3
  <2>2. j \in Inner(frames) \/ j = Len(frames)
    BY <1>3 DEF Inner
  <2> QED
    BY <2>1, <2>2, <1>1 DEF QuietFrames
<1>5. NoCalls
  BY <1>3, <1>4 DEF NoCalls
<1> QED
  BY <1>1, <1>2, <1>5

LEMMA LinkStepKeeps ==
  ASSUME ModulesInv, RootsAgree, Waits, ImportsWait, InLinking, LinkStep
  PROVE  Waits' /\ ImportsWait'
<1>t. Types
  BY DEF ModulesInv
<1>1. NoCalls /\ \A x \in Module : md[x].status # "Evaluating"
  BY <1>t, LinkingNoCalls
<1>2. Quiet
  <2>1. \A x \in Module :
          /\ SameWaits(md'[x], md[x])
          /\ md'[x].status \in Started <=> md[x].status \in Started
          /\ md[x].status = "Evaluated" => md'[x].status = "Evaluated" /\ md'[x].dfsIndex = md[x].dfsIndex
    BY DEF LinkStep, LinkData, Started
  <2>2. jobs' = jobs
    BY DEF LinkStep
  <2>3. UNCHANGED <<requests, runs, deps, running, done, escaped>> /\ NoCalls'
    BY DEF LinkStep
  <2> QED
    BY <2>1, <2>2, <2>3, <1>1 DEF Quiet
<1>3. Waits'
  BY <1>2, QuietKeeps
<1>4. frames # << >> /\ frames[Len(frames)].fn = "moduleLinking"
  BY <1>t, LinkingNoCalls
<1>5. Capable'
  <2>1. \A x \in Module : md[x].topLevelCapability # "none" => md[x].status \in Started
    BY <1>4 DEF ImportsWait
  <2>2. \A x \in Module : md'[x].topLevelCapability # "none" => md'[x].status \in Started
    BY <2>1, <1>2 DEF LinkStep, LinkData, SameImport, Quiet
  <2>3. (call'.op = "import" /\ frames' # << >> /\ frames'[1].fn = "moduleEvaluation" /\ frames'[1].i = 0)
          => md'[call'.m].status # "Evaluated"
    <3> SUFFICES ASSUME call'.op = "import", frames' # << >>, frames'[1].fn = "moduleEvaluation"
                 PROVE  md'[call'.m].status # "Evaluated"
      OBVIOUS
    <3>1. call' = call
      BY DEF LinkStep, NoCall
    <3>2. md[call.m].status # "Evaluated"
      BY <3>1 DEF InLinking
    <3>3. call.m \in Module
      <4>1. frames[Len(frames)].m = call.m /\ frames \in Seq(FrameSet)
        BY <1>t DEF InLinking, Walking, Types
      <4>2. frames[Len(frames)] \in FrameSet
        BY <4>1, <1>4
      <4> QED
        BY <4>1, <4>2 DEF FrameSet
    <3> QED
      BY <3>1, <3>2, <3>3 DEF LinkStep, LinkData, Started
  <2> QED
    BY <2>2, <2>3 DEF Capable
<1>6. ImportsMove
  <2>1. done' = done /\ jobs' = jobs /\ (call' = call \/ call'.op # "import")
    BY DEF LinkStep, NoCall
  <2>2. \A x \in Module : /\ md[x].status = "Evaluated" => md'[x].status = "Evaluated"
                          /\ md[x].error => md'[x].error
                          /\ md'[x].asyncPendingPromises = md[x].asyncPendingPromises
    BY DEF LinkStep, LinkData, SameWaits, SameImport, Started
  <2>3. Len(imports') = Len(imports) /\ \A p \in 1 .. Len(imports) :
          imports'[p].m = imports[p].m /\ (imports'[p].state = "fulfilled" => imports[p].state = "fulfilled")
    BY DEF LinkStep
  <2> QED
    BY <2>1, <2>2, <2>3, <1>5 DEF ImportsMove
<1> QED
  BY <1>3, <1>6, <1>t, ImportsKept

LEMMA EnterLinkData ==
  ASSUME md \in [Module -> Records], index \in Nat, NEW f, NEW m \in Module, NEW st \in WalkStatuses,
         Enter(f, m, st)
  PROVE  /\ \A x \in Module : SameWaits(md'[x], md[x]) /\ SameImport(md'[x], md[x])
         /\ md'[m].status = st /\ md'[m].dfsIndex = index
         /\ \A x \in Module \ {m} : md'[x] = md[x]
<1>1. md' = [md EXCEPT ![m].status = st, ![m].dfsIndex = index, ![m].dfsAncestorIndex = index]
  BY DEF Enter
<1>2. md[m] \in Records /\ st \in Statuses
  BY DEF WalkStatuses, Statuses
<1>3. md' = [md EXCEPT ![m] = [md[m] EXCEPT !.status = st, !.dfsIndex = index, !.dfsAncestorIndex = index]]
  BY <1>1, <1>2 DEF Records
<1>4. PICK e, e0 : e0 = md[m] /\ e = [e0 EXCEPT !.status = st, !.dfsIndex = index, !.dfsAncestorIndex = index]
  OBVIOUS
<1>5. SameWaits(e, e0) /\ SameImport(e, e0) /\ e.status = st /\ e.dfsIndex = index
  <2>1. e0 \in Records
    BY <1>2, <1>4
  <2> QED
    BY ONLY <2>1, <1>4 DEF Records, SameWaits, SameImport
<1>6. md'[m] = e /\ \A x \in Module \ {m} : md'[x] = md[x]
  BY <1>3, <1>4
<1> QED
  BY <1>4, <1>5, <1>6 DEF SameWaits, SameImport

LEMMA LinkCallWaits ==
  ASSUME ModulesInv, RootsAgree, Waits, ImportsWait, LinkCall
  PROVE  Waits' /\ ImportsWait'
<1>t. Types /\ In("moduleLinking")
  BY DEF ModulesInv, LinkCall
<1>s. InLinking /\ Len(frames) = 1
  BY <1>t, StageOf DEF ModulesInv
<1>w. PICK out : out = LinkedOrMore
  OBVIOUS
<1>1. Walking("moduleLinking", "innerModuleLinking", "Linking", out)
  BY <1>s, <1>w DEF InLinking
<1>2. /\ Top.m = call.m /\ call.m \in Module /\ \A x \in Module : md[x].status \notin WalkStatuses
  BY <1>1, <1>s, <1>t, OnlyStarted
<1>u. UNCHANGED <<requests, jobs, running, runs, deps, done, escaped>>
  BY DEF LinkCall, env, scenario, history
<1>y. md \in [Module -> Records] /\ imports \in Seq(ImportSet) /\ index \in Nat
  BY <1>t DEF Types
<1>n. NoCalls
  BY <1>s, <1>t, LinkingNoCalls
<1>3. CASE NeedsLink(Top.m)
  <2>1. PICK m : m = call.m
    OBVIOUS
  <2>2. m \in Module /\ md[m].status \notin {"Linking", "Linked", "Evaluated"}
        /\ Enter("innerModuleLinking", m, "Linking") /\ call' = call /\ imports' = imports
    BY <2>1, <1>2, <1>3 DEF LinkCall, NeedsLink
  <2>3. \A x \in Module : LinkData(md'[x], md[x])
    <3>1. "Linking" \in WalkStatuses /\ md[m].status \notin Started
      BY <2>2, <1>2 DEF WalkStatuses, Started
    <3>2. /\ \A x \in Module : SameWaits(md'[x], md[x]) /\ SameImport(md'[x], md[x])
          /\ md'[m].status = "Linking" /\ \A x \in Module \ {m} : md'[x] = md[x]
      BY <3>1, <2>2, <1>y, EnterLinkData
    <3> QED
      BY <3>1, <3>2 DEF LinkData, Started
  <2>4. NoCalls' /\ frames'[1].fn # "moduleEvaluation"
    <3>1. frames' = <<Frame("innerModuleLinking", m, 1)>> \o frames
      BY <2>2 DEF Enter
    <3>2. Frame("innerModuleLinking", m, 1) \in QuietFrames
      BY <2>2 DEF Frame, QuietFrames, FrameSet
    <3>3. frames'[1] = Frame("innerModuleLinking", m, 1) /\ frames' \in Seq(QuietFrames)
      BY <3>1, <3>2, <1>n DEF NoCalls
    <3> QED
      BY <3>3 DEF Frame, NoCalls
  <2>5. LinkStep
    BY <2>2, <2>3, <2>4, <1>u DEF LinkStep
  <2> QED
    BY <2>5, <1>s, LinkStepKeeps
<1>4. CASE ~ NeedsLink(Top.m) /\ call.op = "instantiate"
  <2>1. frames' = << >> /\ call' = NoCall /\ md' = md /\ imports' = imports
    BY <1>4 DEF LinkCall, CallReturns
  <2>2. \A x \in Module : LinkData(md'[x], md[x])
    BY <2>1, SameLinkData
  <2>3. NoCalls'
    BY <2>1 DEF NoCalls
  <2>4. LinkStep
    BY <2>1, <2>2, <2>3, <1>u DEF LinkStep
  <2> QED
    BY <2>4, <1>s, LinkStepKeeps
<1>5. CASE ~ NeedsLink(Top.m) /\ call.op # "instantiate"
  <2>1. frames' = <<Frame("moduleEvaluation", call.m, 0)>> /\ md' = md /\ call' = call /\ imports' = imports
    BY <1>5, <1>2 DEF LinkCall
  <2>2. \A x \in Module : LinkData(md'[x], md[x])
    BY <2>1, SameLinkData
  <2>3. NoCalls'
    <3>1. Frame("moduleEvaluation", call.m, 0) \in QuietFrames
      BY <1>2 DEF Frame, QuietFrames, FrameSet
    <3> QED
      BY <3>1, <2>1 DEF NoCalls
  <2>4. LinkStep
    BY <2>1, <2>2, <2>3, <1>5, <1>u DEF LinkStep
  <2> QED
    BY <2>4, <1>s, LinkStepKeeps
<1> QED
  BY <1>3, <1>4, <1>5

LEMMA LinkRequestWaits ==
  ASSUME ModulesInv, RootsAgree, Waits, ImportsWait, Loadable, LinkRequest
  PROVE  Waits' /\ ImportsWait'
<1>t. Types /\ In("innerModuleLinking")
  BY DEF ModulesInv, LinkRequest
<1>s. InLinking /\ Len(frames) > 1
  BY <1>t, StageOf DEF ModulesInv
<1>w. PICK out : out = LinkedOrMore
  OBVIOUS
<1>1. Walking("moduleLinking", "innerModuleLinking", "Linking", out)
  BY <1>s, <1>w DEF InLinking
<1>2. /\ Top = frames[1] /\ Top.m \in Module /\ Top.i \in Nat /\ Top.fn = "innerModuleLinking"
      /\ md[Top.m].status = "Linking"
  BY <1>1, <1>s, <1>t, InnerCall
<1>m. PICK m, i : m = Top.m /\ i = Top.i
  OBVIOUS
<1>r. PICK r : r = requests[m][i]
  OBVIOUS
<1>3. r \in Module /\ m \in Module /\ r \in ToSet(requests[m]) /\ i \in Nat
  <2>1. Top.i <= Len(requests[Top.m])
    BY DEF LinkRequest
  <2> QED
    BY <2>1, <1>1, <1>2, <1>s, <1>t, <1>m, <1>r, RequestAt
<1>4. fault[r] # "notFound"
  BY <1>3 DEF Loadable
<1>u. UNCHANGED <<requests, jobs, running, runs, deps, done, escaped>>
  BY DEF LinkRequest, env, scenario, history
<1>y. md \in [Module -> Records] /\ index \in Nat /\ frames \in Seq(FrameSet) /\ frames # << >>
  BY <1>t DEF Types, In
<1>n. NoCalls /\ \A x \in Module : md[x].status # "Evaluating"
  BY <1>s, <1>t, LinkingNoCalls
<1>f. \A k \in Nat : Frame("innerModuleLinking", m, k) \in QuietFrames
  BY <1>3 DEF Frame, QuietFrames, FrameSet
<1>5. CASE NeedsLink(r)
  <2>1. md[r].status \notin Started /\ "Linking" \in WalkStatuses
    BY <1>3, <1>5, <1>n DEF NeedsLink, Started, WalkStatuses
  <2>2. Enter("innerModuleLinking", r, "Linking") /\ call' = call /\ imports' = imports
    BY <1>4, <1>5, <1>m, <1>r DEF LinkRequest
  <2>3. \A x \in Module : LinkData(md'[x], md[x])
    <3>1. /\ \A x \in Module : SameWaits(md'[x], md[x]) /\ SameImport(md'[x], md[x])
          /\ md'[r].status = "Linking" /\ \A x \in Module \ {r} : md'[x] = md[x]
      BY <2>1, <2>2, <1>3, <1>y, EnterLinkData
    <3> QED
      BY <3>1, <2>1 DEF LinkData, Started
  <2>4. NoCalls' /\ frames'[1].fn # "moduleEvaluation"
    <3>1. frames' = <<Frame("innerModuleLinking", r, 1)>> \o frames
      BY <2>2 DEF Enter
    <3>2. Frame("innerModuleLinking", r, 1) \in QuietFrames
      BY <1>3 DEF Frame, QuietFrames, FrameSet
    <3>3. frames'[1] = Frame("innerModuleLinking", r, 1) /\ frames' \in Seq(QuietFrames)
      BY <3>1, <3>2, <1>n DEF NoCalls
    <3> QED
      BY <3>3 DEF Frame, NoCalls
  <2>5. LinkStep
    BY <2>2, <2>3, <2>4, <1>u DEF LinkStep
  <2> QED
    BY <2>5, <1>s, LinkStepKeeps
<1>6. CASE ~ NeedsLink(r)
  <2>1. /\ md' = IF md[r].status = "Linking" /\ md[r].dfsAncestorIndex < md[m].dfsAncestorIndex
                 THEN [md EXCEPT ![m].dfsAncestorIndex = md[r].dfsAncestorIndex]
                 ELSE md
        /\ frames' = <<Frame("innerModuleLinking", m, i + 1)>> \o Tail(frames)
        /\ call' = call /\ imports' = imports
    BY <1>2, <1>4, <1>6, <1>m, <1>r DEF LinkRequest
  <2>2. \A x \in Module : LinkData(md'[x], md[x])
    <3>1. md[m].status \notin Started
      BY <1>2, <1>m DEF Started
    <3>2. PICK e, v : e = md[m] /\ v = md[r].dfsAncestorIndex
      OBVIOUS
    <3>3. e \in Records
      BY <3>2, <1>3, <1>y
    <3>4. LinkData([e EXCEPT !.dfsAncestorIndex = v], e) /\ LinkData(e, e)
      BY ONLY <3>3 DEF Records, LinkData, SameWaits, SameImport
    <3>5. \A x \in Module : md'[x] = md[x] \/ (x = m /\ md'[x] = [e EXCEPT !.dfsAncestorIndex = v])
      BY <3>2, <2>1, <1>3, <1>y
    <3> QED
      BY <3>2, <3>4, <3>5, SameLinkData
  <2>4. NoCalls' /\ frames'[1].fn # "moduleEvaluation"
    <3>1. PICK f : f = Frame("innerModuleLinking", m, i + 1)
      OBVIOUS
    <3>2. f \in QuietFrames /\ f.fn # "moduleEvaluation"
      BY <3>1, <1>3, <1>f DEF Frame
    <3>3. Tail(frames) \in Seq(QuietFrames)
      BY <1>n, <1>y DEF NoCalls
    <3>4. frames' = <<f>> \o Tail(frames)
      BY <3>1, <2>1
    <3>5. frames'[1] = f /\ frames' \in Seq(QuietFrames)
      BY ONLY <3>2, <3>3, <3>4
    <3> QED
      BY <3>2, <3>5 DEF NoCalls
  <2>5. LinkStep
    BY <2>1, <2>2, <2>4, <1>u DEF LinkStep
  <2> QED
    BY <2>5, <1>s, LinkStepKeeps
<1> QED
  BY <1>5, <1>6

LEMMA LinkEndWaits ==
  ASSUME ModulesInv, RootsAgree, Waits, ImportsWait, Loadable, LinkEnd
  PROVE  Waits' /\ ImportsWait'
<1>t. Types /\ In("innerModuleLinking")
  BY DEF ModulesInv, LinkEnd
<1>s. InLinking /\ Len(frames) > 1
  BY <1>t, StageOf DEF ModulesInv
<1>w. PICK out : out = LinkedOrMore
  OBVIOUS
<1>1. Walking("moduleLinking", "innerModuleLinking", "Linking", out)
  BY <1>s, <1>w DEF InLinking
<1>2. /\ Top = frames[1] /\ Top.m \in Module /\ Top.i \in Nat /\ md[Top.m].status = "Linking"
      /\ Len(requests[Top.m]) \in Nat
  BY <1>1, <1>s, <1>t, InnerCall
<1>m. PICK m : m = Top.m
  OBVIOUS
<1>3. m \in Module /\ m = frames[1].m /\ md[m].status = "Linking" /\ Len(requests[m]) < frames[1].i
  <2>1. Top.i > Len(requests[Top.m])
    BY DEF LinkEnd
  <2> QED
    BY <2>1, <1>2, <1>m
<1>u. UNCHANGED <<requests, jobs, running, runs, deps, done, escaped>>
  BY DEF LinkEnd, env, scenario, history
<1>y. md \in [Module -> Records] /\ imports \in Seq(ImportSet) /\ frames \in Seq(FrameSet) /\ frames # << >>
  BY <1>t DEF Types, In
<1>n. NoCalls
  BY <1>s, <1>t, LinkingNoCalls
<1>k. \A x \in Module : x \in ToSet(stack) => md[x].status = "Linking"
  BY <1>1 DEF Walking, HasStatus
<1>4. CASE CallThrows(Unlink(md))
  <2>1. /\ frames' = << >> /\ call' = NoCall /\ md' = Unlink(md)
        /\ imports' = IF call.op = "import" THEN Settled({call.p}, "rejected") ELSE imports
    BY <1>4 DEF CallThrows
  <2>2. \A x \in Module : LinkData(md'[x], md[x])
    <3> SUFFICES ASSUME NEW x \in Module PROVE LinkData(md'[x], md[x])
      OBVIOUS
    <3>1. PICK e : e = md[x]
      OBVIOUS
    <3>2. e \in Records
      BY <3>1, <1>y
    <3>3. CASE x \in ToSet(stack)
      <4>1. md'[x] = [e EXCEPT !.status = "Unlinked", !.record = FALSE, !.dfsIndex = 0, !.dfsAncestorIndex = 0]
        BY <3>1, <3>3, <2>1 DEF Unlink
      <4>2. e.status = "Linking"
        BY <3>1, <3>3, <1>k
      <4>3. LinkData(md'[x], e)
        BY ONLY <4>1, <4>2, <3>2 DEF Records, LinkData, SameWaits, SameImport, Started
      <4> QED
        BY <4>3, <3>1
    <3>4. CASE x \notin ToSet(stack)
      <4>1. md'[x] = md[x]
        BY <3>4, <2>1 DEF Unlink
      <4> QED
        BY <4>1, SameLinkData
    <3> QED
      BY <3>3, <3>4
  <2>3. Len(imports') = Len(imports) /\ \A p \in 1 .. Len(imports) :
          imports'[p].m = imports[p].m /\ (imports'[p].state = "fulfilled" => imports[p].state = "fulfilled")
    <3>1. CASE call.op = "import"
      <4>1. PICK ps : ps = {call.p}
        OBVIOUS
      <4>2. imports' = Settled(ps, "rejected")
        BY <4>1, <3>1, <2>1
      <4> QED
        BY <4>2, <1>y, SettledFacts
    <3>2. CASE call.op # "import"
      BY <3>2, <2>1
    <3> QED
      BY <3>1, <3>2
  <2>4. NoCalls'
    BY <2>1 DEF NoCalls
  <2>5. LinkStep
    BY <2>1, <2>2, <2>3, <2>4, <1>u DEF LinkStep
  <2> QED
    BY <2>5, <1>s, LinkStepKeeps
<1>5. CASE /\ IF IsCycleRoot(m)
              THEN /\ md' = [x \in Module |-> IF x \in ToSet(Popped(m))
                               THEN [[md EXCEPT ![m].record = TRUE][x] EXCEPT !.status = "Linked"]
                               ELSE [md EXCEPT ![m].record = TRUE][x]]
                   /\ stack' = AfterPop(m)
              ELSE md' = [md EXCEPT ![m].record = TRUE] /\ UNCHANGED stack
           /\ frames' = Tail(frames)
           /\ UNCHANGED <<index, call, imports>>
  <2>1. PICK made : made = [md EXCEPT ![m].record = TRUE]
    OBVIOUS
  <2>2. /\ \A x \in Module : made[x] \in Records /\ LinkData(made[x], md[x]) /\ made[x].status = md[x].status
    <3>1. PICK e : e = md[m]
      OBVIOUS
    <3>2. e \in Records /\ e.status = "Linking"
      BY <3>1, <1>3, <1>y
    <3>3. TRUE \in BOOLEAN
      BY Zenon
    <3>4. PICK f : f = [e EXCEPT !.record = TRUE]
      OBVIOUS
    <3>5. f \in Records /\ f.status = e.status /\ LinkData(f, e)
      BY ONLY <3>2, <3>3, <3>4 DEF Records, LinkData, SameWaits, SameImport, Started
    <3>6. made[m] = f /\ \A x \in Module \ {m} : made[x] = md[x]
      BY <3>1, <3>4, <2>1, <1>3, <1>y
    <3> QED
      BY <3>1, <3>5, <3>6, <1>3, <1>y, SameLinkData
  <2>3. \A x \in Module : LinkData(md'[x], md[x])
    <3> SUFFICES ASSUME NEW x \in Module PROVE LinkData(md'[x], md[x])
      OBVIOUS
    <3>1. md'[x] = made[x] \/ (IsCycleRoot(m) /\ x \in ToSet(Popped(m)) /\ md'[x] = [made[x] EXCEPT !.status = "Linked"])
      BY <2>1, <1>5
    <3>2. CASE md'[x] = made[x]
      BY <3>2, <2>2
    <3>3. CASE IsCycleRoot(m) /\ x \in ToSet(Popped(m)) /\ md'[x] = [made[x] EXCEPT !.status = "Linked"]
      <4>1. md[x].status = "Linking"
        <5>1. ToSet(Popped(m)) \subseteq ToSet(stack)
          BY <3>3, <1>1, <1>3, <1>s, <1>t, PoppedIsCycle DEF IsCycleRoot
        <5> QED
          BY <5>1, <3>3, <1>k
      <4>2. PICK e, f : e = made[x] /\ f = md[x]
        OBVIOUS
      <4>3. e \in Records /\ LinkData(e, f) /\ f.status = "Linking" /\ md'[x] = [e EXCEPT !.status = "Linked"]
        BY <4>1, <4>2, <3>3, <2>2
      <4>4. LinkData(md'[x], f)
        BY ONLY <4>3 DEF Records, LinkData, SameWaits, SameImport, Started
      <4> QED
        BY <4>2, <4>4
    <3> QED
      BY <3>1, <3>2, <3>3
  <2>4. NoCalls' /\ (frames' # << >> /\ frames'[1].fn = "moduleEvaluation" => call'.op # "instantiate")
    <3>1. frames' = Tail(frames) /\ call' = call
      BY <1>5
    <3>2. NoCalls'
      BY <3>1, <1>n, <1>y DEF NoCalls
    <3>3. frames'[1].fn # "moduleEvaluation"
      <4>1. frames'[1] = frames[2] /\ 2 \in 1 .. Len(frames)
        BY <3>1, <1>s, <1>y
      <4>2. 2 \in Inner(frames) \/ 2 = Len(frames)
        <5>1. PICK n : n = Len(frames)
          OBVIOUS
        <5>2. n \in Nat /\ n > 1
          BY <5>1, <1>s, <1>y
        <5>3. 2 \in 1 .. n - 1 \/ 2 = n
          BY ONLY <5>2
        <5> QED
          BY <5>1, <5>3 DEF Inner
      <4> QED
        BY <4>1, <4>2, <1>1 DEF Walking
    <3> QED
      BY <3>2, <3>3
  <2>5. LinkStep
    BY <2>3, <2>4, <1>5, <1>u DEF LinkStep
  <2> QED
    BY <2>5, <1>s, LinkStepKeeps
<1> QED
  <2>1. fault[m] # "noDefault"
    BY <1>3 DEF Loadable
  <2> QED
    BY <2>1, <1>4, <1>5, <1>m DEF LinkEnd

-----------------------------------------------------------------------------
(* import() and the host's calls                                            *)

LEMMA IdleNoCalls ==
  ASSUME Idle
  PROVE  NoCalls
  BY DEF Idle, NoCalls

\* Nothing happens to the modules.
LEMMA StillQuiet ==
  ASSUME NoCalls, NoCalls', \A x \in Module : md[x].status # "Evaluating",
         UNCHANGED <<requests, md, running, runs, deps, done, escaped>>,
         \A i \in 1 .. Len(jobs') : jobs'[i].fn \in BodyJobs => \E k \in 1 .. Len(jobs) : jobs'[i] = jobs[k]
  PROVE  Quiet
<1>1. \A x \in Module : SameWaits(md'[x], md[x]) /\ md'[x] = md[x]
  BY DEF SameWaits
<1> QED
  BY <1>1 DEF Quiet

\* The first job is taken.
LEMMA JobTaken ==
  ASSUME jobs \in Seq(JobSet), jobs # << >>, jobs' = Tail(jobs)
  PROVE  /\ Head(jobs) = jobs[1] /\ 1 \in 1 .. Len(jobs)
         /\ \A i \in 1 .. Len(jobs') : \E k \in 1 .. Len(jobs) : jobs'[i] = jobs[k]
<1>1. Len(Tail(jobs)) = Len(jobs) - 1 /\ \A i \in 1 .. Len(jobs) - 1 : Tail(jobs)[i] = jobs[i + 1]
  BY ONLY jobs \in Seq(JobSet), jobs # << >>, SMTT(30)
<1>2. Len(jobs) \in Nat /\ Len(jobs) >= 1 /\ Head(jobs) = jobs[1]
  BY ONLY jobs \in Seq(JobSet), jobs # << >>, SMTT(30)
<1>3. ASSUME NEW i \in 1 .. Len(jobs') PROVE \E k \in 1 .. Len(jobs) : jobs'[i] = jobs[k]
  <2>1. i \in 1 .. Len(jobs) - 1 /\ jobs'[i] = jobs[i + 1]
    BY <1>1, <1>3
  <2>2. i + 1 \in 1 .. Len(jobs)
    BY <2>1, <1>2
  <2> QED
    BY <2>1, <2>2
<1> QED
  BY <1>2, <1>3

\* A job is queued.
LEMMA JobQueued ==
  ASSUME jobs \in Seq(JobSet), NEW j \in JobSet, jobs' = Append(jobs, j)
  PROVE  \A i \in 1 .. Len(jobs') : jobs'[i] = j \/ \E k \in 1 .. Len(jobs) : jobs'[i] = jobs[k]
<1>1. Len(jobs') = Len(jobs) + 1 /\ Len(jobs) \in Nat
  OBVIOUS
<1>2. \A i \in 1 .. Len(jobs) : jobs'[i] = jobs[i]
  OBVIOUS
<1>3. jobs'[Len(jobs) + 1] = j
  OBVIOUS
<1>4. ASSUME NEW i \in 1 .. Len(jobs') PROVE i \in 1 .. Len(jobs) \/ i = Len(jobs) + 1
  BY <1>1
<1> QED
  BY <1>2, <1>3, <1>4

\* Between calls a module with a capability has started.
LEMMA IdleCapable ==
  ASSUME Types, ImportsWait, NoWalk
  PROVE  \A x \in Module : md[x].topLevelCapability # "none" => md[x].status \in Started
<1>1. frames # << >> => frames[Len(frames)].fn # "moduleEvaluation"
  <2>1. frames # << >> => Len(frames) \in 1 .. Len(frames)
    BY DEF Types
  <2> QED
    BY <2>1 DEF NoWalk
<1>2. Capable
  BY ImportsParts
<1> QED
  BY <1>1, <1>2 DEF Capable

LEMMA ImportWaits ==
  ASSUME ModulesInv, RootsAgree, Waits, ImportsWait, NEW m \in Module, Import(m)
  PROVE  Waits' /\ ImportsWait'
<1>1. Idle /\ UNCHANGED <<requests, md, frames, call, running, runs, deps, done, escaped>>
  BY DEF Import, env, scenario, history
<1>2. Types /\ NoWalk /\ \A x \in Module : md[x].status \notin WalkStatuses
  BY <1>1, IdleIsNoWalk
<1>3. imports \in Seq(ImportSet) /\ jobs \in Seq(JobSet)
  BY <1>2 DEF Types
<1>e. PICK e : e = [m |-> m, state |-> "queued"]
  OBVIOUS
<1>j. PICK f \in {"importRejected", "importResolved"} : jobs' = Append(jobs, [fn |-> f, m |-> m, p |-> Len(imports) + 1])
  BY DEF Import
<1>4. imports' = Append(imports, e) /\ e.m = m /\ e.state = "queued"
  BY <1>e DEF Import
<1>5. /\ Len(imports') = Len(imports) + 1 /\ imports'[Len(imports) + 1] = e /\ Len(imports) \in Nat
      /\ \A p \in 1 .. Len(imports) : imports'[p] = imports[p]
  BY <1>3, <1>4
<1>6. PICK j : j = [fn |-> f, m |-> m, p |-> Len(imports) + 1]
  OBVIOUS
<1>7. j \in JobSet /\ jobs' = Append(jobs, j) /\ j.fn \notin BodyJobs /\ j.m = m /\ j.p = Len(imports) + 1
  BY <1>5, <1>6, <1>j DEF JobSet, BodyJobs
<1>8. \A i \in 1 .. Len(jobs') : jobs'[i] = j \/ \E k \in 1 .. Len(jobs) : jobs'[i] = jobs[k]
  BY <1>3, <1>7, JobQueued
<1>9. Waits'
  <2>1. NoCalls /\ NoCalls'
    BY <1>1, IdleNoCalls DEF NoCalls
  <2>2. \A x \in Module : md[x].status # "Evaluating"
    BY <1>2 DEF WalkStatuses
  <2>3. Quiet
    BY <2>1, <2>2, <1>1, <1>7, <1>8, StillQuiet
  <2> QED
    BY <2>3, QuietKeeps
<1>10. ImportsMove
  <2>1. \A p \in 1 .. Len(imports) : p \in 1 .. Len(imports') /\ imports'[p].m = imports[p].m
    BY <1>5
  <2>2. ASSUME NEW p \in 1 .. Len(imports'), imports'[p].state = "fulfilled"
        PROVE  p \in 1 .. Len(imports) /\ imports[p].state = "fulfilled"
    <3>1. p \in 1 .. Len(imports) \/ p = Len(imports) + 1
      BY <1>5
    <3> QED
      BY <3>1, <2>2, <1>4, <1>5
  <2>4. Capable'
    BY <1>1, <1>2, ImportsParts DEF Capable, Idle
  <2>5. ASSUME NEW i \in 1 .. Len(jobs')
        PROVE  (\E k \in 1 .. Len(jobs) : jobs'[i] = jobs[k]) \/ Waited(jobs[i].m, jobs[i].p)'
    <3>1. CASE jobs'[i] = j
      <4>1. jobs'[i].m = m /\ jobs'[i].p = Len(imports) + 1
        BY <3>1, <1>7
      <4>2. Len(imports) + 1 \in 1 .. Len(imports') /\ imports'[Len(imports) + 1].m = m
        BY <1>4, <1>5
      <4> QED
        BY <4>1, <4>2 DEF Waited
    <3> QED
      BY <3>1, <1>8
  <2> QED
    BY <2>1, <2>2, <2>4, <2>5, <1>1 DEF ImportsMove
<1> QED
  BY <1>2, <1>9, <1>10, ImportsKept

LEMMA ImportRejectedWaits ==
  ASSUME ModulesInv, RootsAgree, Waits, ImportsWait, ImportRejected
  PROVE  Waits' /\ ImportsWait'
<1>1. Idle /\ UNCHANGED <<requests, md, frames, call, running, runs, deps, done, escaped>>
      /\ jobs # << >> /\ jobs' = Tail(jobs)
  BY DEF ImportRejected, env, scenario, history
<1>2. Types /\ NoWalk /\ \A x \in Module : md[x].status \notin WalkStatuses
  BY <1>1, IdleIsNoWalk
<1>3. imports \in Seq(ImportSet) /\ jobs \in Seq(JobSet)
  BY <1>2 DEF Types
<1>4. \A i \in 1 .. Len(jobs') : \E k \in 1 .. Len(jobs) : jobs'[i] = jobs[k]
  BY <1>1, <1>3, JobTaken
<1>5. Len(imports') = Len(imports) /\ \A p \in 1 .. Len(imports) :
         imports'[p].m = imports[p].m /\ (imports'[p].state = "fulfilled" => imports[p].state = "fulfilled")
  <2>1. PICK ps : ps = {Head(jobs).p}
    OBVIOUS
  <2>2. imports' = Settled(ps, "rejected")
    BY <2>1 DEF ImportRejected
  <2> QED
    BY <2>2, <1>3, SettledFacts
<1>6. Waits'
  <2>1. NoCalls /\ NoCalls'
    BY <1>1, IdleNoCalls DEF NoCalls
  <2>2. \A x \in Module : md[x].status # "Evaluating"
    BY <1>2 DEF WalkStatuses
  <2>3. Quiet
    BY <2>1, <2>2, <1>1, <1>4, StillQuiet
  <2> QED
    BY <2>3, QuietKeeps
<1>7. ImportsMove
  <2>1. Capable'
    BY <1>1, <1>2, ImportsParts DEF Capable, Idle
  <2> QED
    BY <2>1, <1>1, <1>4, <1>5 DEF ImportsMove
<1> QED
  BY <1>2, <1>6, <1>7, ImportsKept

\* A walk begins.
LEMMA CallBegins ==
  ASSUME ModulesInv, RootsAgree, Waits, ImportsWait, Idle,
         UNCHANGED <<requests, md, imports, running, runs, deps, done, escaped>>,
         \A i \in 1 .. Len(jobs') : \E k \in 1 .. Len(jobs) : jobs'[i] = jobs[k],
         NEW f \in QuietFrames, frames' = <<f>>,
         f.fn = "moduleLinking" \/ call'.op # "import",
         call'.op = "import" => \E p \in 1 .. Len(imports) : call'.p = p /\ imports[p].m = call'.m
  PROVE  Waits' /\ ImportsWait'
<1>2. Types /\ NoWalk /\ \A x \in Module : md[x].status \notin WalkStatuses
  BY IdleIsNoWalk
<1>f. frames' \in Seq(QuietFrames) /\ frames'[1] = f
  OBVIOUS
<1>6. Waits'
  <2>1. NoCalls /\ NoCalls'
    BY <1>f, IdleNoCalls DEF NoCalls
  <2>2. \A x \in Module : md[x].status # "Evaluating"
    BY <1>2 DEF WalkStatuses
  <2>3. Quiet
    BY <2>1, <2>2, StillQuiet
  <2> QED
    BY <2>3, QuietKeeps
<1>7. ImportsMove
  <2>1. \A x \in Module : md'[x].topLevelCapability # "none" => md'[x].status \in Started
    BY <1>2, IdleCapable
  <2>2. Capable'
    BY <2>1, <1>f DEF Capable
  <2>3. call'.op # "import" \/ Waited(call.m, call.p)'
    BY DEF Waited
  <2> QED
    BY <2>2, <2>3 DEF ImportsMove
<1> QED
  BY <1>2, <1>6, <1>7, ImportsKept

LEMMA HostCallWaits ==
  ASSUME ModulesInv, RootsAgree, Waits, ImportsWait, NEW op \in HostCalls, NEW m \in Module, HostCall(op, m)
  PROVE  Waits' /\ ImportsWait'
<1>1. /\ Idle /\ UNCHANGED <<requests, md, imports, running, runs, deps, done, escaped>> /\ jobs' = jobs
      /\ call' = [op |-> op, m |-> m, p |-> 0]
      /\ frames' = <<IF op = "evaluate" THEN Frame("moduleEvaluation", m, 0) ELSE Frame("moduleLinking", m, 1)>>
  BY DEF HostCall, HostMayCall, env, scenario, history
<1>2. call'.op # "import"
  BY <1>1, ModulesAssumption
<1>3. PICK f : f = IF op = "evaluate" THEN Frame("moduleEvaluation", m, 0) ELSE Frame("moduleLinking", m, 1)
  OBVIOUS
<1>4. f \in QuietFrames /\ frames' = <<f>>
  BY <1>1, <1>3 DEF Frame, QuietFrames, FrameSet
<1>5. \A i \in 1 .. Len(jobs') : \E k \in 1 .. Len(jobs) : jobs'[i] = jobs[k]
  BY <1>1
<1> QED
  BY <1>1, <1>2, <1>4, <1>5, CallBegins

\* A step that changes nothing of this.
LEMMA StutterWaits ==
  ASSUME Waits, ImportsWait,
         UNCHANGED <<requests, md, frames, jobs, imports, call, runs, running, done, deps, escaped>>
  PROVE  Waits' /\ ImportsWait'
<1>1. /\ requests' = requests /\ md' = md /\ frames' = frames /\ jobs' = jobs /\ imports' = imports /\ call' = call
      /\ runs' = runs /\ running' = running /\ done' = done /\ deps' = deps /\ escaped' = escaped
  OBVIOUS
<1>p. (\A x : Parents(x)' = Parents(x)) /\ (\A x : AllDone(x)' <=> AllDone(x)) /\ (\A x : Executing(x)' <=> Executing(x))
  BY <1>1 DEF Parents, AllDone, Executing, Reaches
<1>c. Rooted' = Rooted /\ HasStatus({"Evaluating"})' = HasStatus({"Evaluating"})
  BY <1>1 DEF Rooted, HasStatus
<1>2. Bookkeeping'
  BY <1>1, <1>p DEF Waits, Bookkeeping, HistoryTypes, Fresh, Registered, Waiting, Bodies
<1>3. Calling'
  BY <1>1, <1>p DEF Waits, Calling, Fulfilling, Rejecting, Reported
<1>4. WalkWaits'
  <2>1. Walked'
    BY <1>1, <1>p, <1>c DEF Waits, WalkWaits, Walked
  <2>2. TreeWalk'
    BY <1>1, <1>p, <1>c DEF Waits, WalkWaits, TreeWalk, TreeParent, NoneBetween
  <2>3. RequestsWalk'
    BY <1>1, <1>p, <1>c DEF Waits, WalkWaits, RequestsWalk, Past, Seen, NoneBetween
  <2> QED
    BY <2>1, <2>2, <2>3 DEF WalkWaits
<1>5. Findings'
  <2>1. Outcomes'
    BY <1>1, <1>c DEF Waits, Findings, Outcomes
  <2>2. Found'
    BY <1>1, <1>p, <1>c DEF Waits, Findings, Found, TreeOf, RequestsOf
  <2>3. Starts'
    BY <1>1, <1>p DEF Waits, Findings, Starts, StartOf, SameCycle, Reaches
  <2> QED
    BY <2>1, <2>2, <2>3 DEF Findings
<1>6. ImportsWait'
  BY <1>1 DEF ImportsWait
<1> QED
  BY <1>2, <1>3, <1>4, <1>5, <1>6 DEF Waits

\* A host call that dies leaves everything as it is.
LEMMA HostCallDiesWaits ==
  ASSUME ModulesInv, RootsAgree, Waits, ImportsWait, NEW op \in HostCalls, NEW m \in Module, HostCallDies(op, m)
  PROVE  Waits' /\ ImportsWait'
  BY StutterWaits DEF HostCallDies, env, history

\* A module that neither waits nor failed has come to its end.
LEMMA EndedOrFailed ==
  ASSUME ModulesInv, RootsAgree, Waits, NEW m \in Module, md[m].status = "Evaluated", ~ md[m].asyncEvaluating
  PROVE  md[m].error \/ m \in done
<1>1. CASE ~ md[m].error
  <2>1. m \in Rooted
    BY <1>1 DEF ModulesInv, RootsAgree, Rooted, HasStatus
  <2> QED
    BY <2>1 DEF Waits, Findings, Outcomes
<1> QED
  BY <1>1

\* The data differ in what only import() looks at.
AlikeData(data) ==
    \A x \in Module : /\ SameWaits(data[x], md[x])
                      /\ data[x].status = md[x].status /\ data[x].dfsIndex = md[x].dfsIndex
                      /\ data[x].asyncPendingPromises = md[x].asyncPendingPromises
                      /\ data[x].topLevelCapability # "none" => data[x].status \in Started

LEMMA ImportReturnsWaits ==
  ASSUME ModulesInv, RootsAgree, Waits, ImportsWait, NoCalls, \A x \in Module : md[x].status # "Evaluating",
         UNCHANGED <<requests, running, runs, deps, done, escaped>>,
         NEW data \in [Module -> Records], AlikeData(data),
         NEW m \in Module, NEW p \in 1 .. Len(imports), imports[p].m = m, md[m].status = "Evaluated",
         ImportReturns(m, p, data), frames' = << >>, call' = call \/ call' = NoCall,
         \A i \in 1 .. Len(jobs') : \E k \in 1 .. Len(jobs) : jobs'[i] = jobs[k]
  PROVE  Waits' /\ ImportsWait'
<1>t. Types /\ imports \in Seq(ImportSet)
  BY DEF ModulesInv, Types
<1>1. /\ \A x \in Module : /\ SameWaits(md'[x], data[x]) /\ md'[x].status = data[x].status
                           /\ md'[x].dfsIndex = data[x].dfsIndex
                           /\ md'[x].topLevelCapability = data[x].topLevelCapability
      /\ \A x \in Module : \A q \in ToSet(md'[x].asyncPendingPromises) :
            q \in ToSet(data[x].asyncPendingPromises) \/ (x = m /\ q = p)
      /\ Len(imports') = Len(imports)
      /\ \A q \in 1 .. Len(imports) :
            /\ imports'[q].m = imports[q].m
            /\ imports'[q].state = "fulfilled" =>
                 imports[q].state = "fulfilled" \/ (q = p /\ ~ data[m].asyncEvaluating)
  <2>1. CASE data[m].asyncEvaluating
    <3>1. /\ md' = [data EXCEPT ![m].asyncPendingPromises = Append(@, p)]
          /\ imports' = Settled({p}, "waiting")
      BY <2>1 DEF ImportReturns
    <3>2. PICK e, q, ps : e = data[m] /\ q = Append(data[m].asyncPendingPromises, p) /\ ps = {p}
      OBVIOUS
    <3>3. e \in Records /\ p \in Nat /\ e.asyncPendingPromises \in Seq(Nat) /\ q = Append(e.asyncPendingPromises, p)
      BY <3>2, <1>t DEF Records
    <3>4. PICK f : f = [e EXCEPT !.asyncPendingPromises = q]
      OBVIOUS
    <3>5. /\ SameWaits(f, e) /\ f.status = e.status /\ f.dfsIndex = e.dfsIndex
          /\ f.topLevelCapability = e.topLevelCapability /\ f.asyncPendingPromises = q
      BY ONLY <3>3, <3>4 DEF Records, SameWaits
    <3>6. md'[m] = f /\ \A x \in Module \ {m} : md'[x] = data[x]
      BY <3>1, <3>2, <3>4
    <3>7. \A k \in ToSet(q) : k \in ToSet(e.asyncPendingPromises) \/ k = p
      <4>1. PICK s : s = e.asyncPendingPromises
        OBVIOUS
      <4>2. s \in Seq(Nat) /\ q = Append(s, p) /\ p \in Nat
        BY <4>1, <3>3
      <4>3. \A k \in 1 .. Len(q) : q[k] = p \/ \E l \in 1 .. Len(s) : q[k] = s[l]
        BY ONLY <4>2
      <4>4. q \in Seq(Nat)
        BY ONLY <4>2
      <4> QED
        BY <4>1, <4>2, <4>3, <4>4 DEF ToSet
    <3>8. imports' = Settled(ps, "waiting")
      BY <3>1, <3>2
    <3>9. Len(imports') = Len(imports) /\ \A k \in 1 .. Len(imports) :
             imports'[k].m = imports[k].m /\ (imports'[k].state = "fulfilled" => imports[k].state = "fulfilled")
      BY <3>8, <1>t, SettledFacts
    <3>10. \A x \in Module : x # m => SameWaits(md'[x], data[x]) /\ md'[x] = data[x]
      BY <3>6 DEF SameWaits
    <3>11. \A x \in Module : /\ SameWaits(md'[x], data[x]) /\ md'[x].status = data[x].status
                             /\ md'[x].dfsIndex = data[x].dfsIndex
                             /\ md'[x].topLevelCapability = data[x].topLevelCapability
      BY <3>2, <3>5, <3>6, <3>10
    <3>12. \A x \in Module : \A k \in ToSet(md'[x].asyncPendingPromises) :
              k \in ToSet(data[x].asyncPendingPromises) \/ (x = m /\ k = p)
      BY <3>2, <3>5, <3>6, <3>7, <3>10
    <3> QED
      BY <3>9, <3>11, <3>12
  <2>2. CASE ~ data[m].asyncEvaluating
    <3>1. md' = data /\ imports' = Settled({p}, "fulfilled")
      BY <2>2 DEF ImportReturns
    <3>2. PICK ps : ps = {p}
      OBVIOUS
    <3>3. imports' = Settled(ps, "fulfilled")
      BY <3>1, <3>2
    <3>4. Len(imports') = Len(imports) /\ \A k \in 1 .. Len(imports) :
             imports'[k].m = imports[k].m /\ imports'[k].state = IF k \in ps THEN "fulfilled" ELSE imports[k].state
      BY <3>3, <1>t, SettledFacts
    <3>5. \A x \in Module : SameWaits(md'[x], data[x]) /\ md'[x] = data[x]
      BY <3>1 DEF SameWaits
    <3> QED
      BY <3>2, <3>4, <3>5, <2>2
  <2> QED
    BY <2>1, <2>2
<1>2. \A x \in Module : /\ SameWaits(md'[x], md[x]) /\ md'[x].status = md[x].status
                        /\ md'[x].dfsIndex = md[x].dfsIndex
  BY <1>1 DEF AlikeData, SameWaits
<1>3. NoCalls'
  BY DEF NoCalls
<1>4. Quiet
  BY <1>2, <1>3 DEF Quiet
<1>5. Waits'
  BY <1>4, QuietKeeps
<1>6. ImportsMove
  <2>1. \A x \in Module : /\ md[x].status = "Evaluated" => md'[x].status = "Evaluated"
                          /\ md[x].error => md'[x].error
    BY <1>2 DEF SameWaits
  <2>2. ASSUME NEW x \in Module, NEW q \in ToSet(md'[x].asyncPendingPromises)
        PROVE  q \in ToSet(md[x].asyncPendingPromises) \/ Waited(x, q)'
    <3>1. q \in ToSet(data[x].asyncPendingPromises) \/ (x = m /\ q = p)
      BY <2>2, <1>1
    <3>2. p \in 1 .. Len(imports') /\ imports'[p].m = m
      BY <1>1
    <3> QED
      BY <3>1, <3>2 DEF AlikeData, Waited
  <2>3. ASSUME NEW q \in 1 .. Len(imports'), imports'[q].state = "fulfilled"
        PROVE  \/ q \in 1 .. Len(imports) /\ imports[q].state = "fulfilled"
               \/ md'[imports'[q].m].status = "Evaluated" /\ (md'[imports'[q].m].error \/ imports'[q].m \in done')
    <3>1. imports[q].state = "fulfilled" \/ (q = p /\ ~ data[m].asyncEvaluating)
      BY <2>3, <1>1
    <3>2. CASE q = p /\ ~ data[m].asyncEvaluating
      <4>1. ~ md[m].asyncEvaluating
        BY <3>2 DEF AlikeData, SameWaits
      <4>2. md[m].error \/ m \in done
        BY <4>1, EndedOrFailed
      <4> QED
        BY <4>2, <3>2, <1>1, <1>2 DEF SameWaits
    <3> QED
      BY <3>1, <3>2, <1>1
  <2>4. \A q \in 1 .. Len(imports) : q \in 1 .. Len(imports') /\ imports'[q].m = imports[q].m
    BY <1>1
  <2>5. Capable'
    BY <1>1 DEF Capable, AlikeData
  <2>6. call' = call \/ call'.op # "import"
    BY DEF NoCall
  <2> QED
    BY <2>1, <2>2, <2>3, <2>4, <2>5, <2>6 DEF ImportsMove
<1> QED
  BY <1>t, <1>5, <1>6, ImportsKept

LEMMA ImportResolvedWaits ==
  ASSUME ModulesInv, RootsAgree, Waits, ImportsWait, ImportResolved
  PROVE  Waits' /\ ImportsWait'
<1>1. /\ Idle /\ jobs # << >> /\ jobs' = Tail(jobs) /\ Head(jobs).fn = "importResolved"
      /\ UNCHANGED <<requests, running, runs, deps, done, escaped>>
  BY DEF ImportResolved, env, scenario, history
<1>2. Types /\ NoWalk /\ frames = << >> /\ \A x \in Module : md[x].status \notin WalkStatuses
  BY <1>1, IdleIsNoWalk
<1>3. imports \in Seq(ImportSet) /\ jobs \in Seq(JobSet) /\ md \in [Module -> Records]
  BY <1>2 DEF Types
<1>4. /\ \A i \in 1 .. Len(jobs') : \E k \in 1 .. Len(jobs) : jobs'[i] = jobs[k]
      /\ Head(jobs) = jobs[1] /\ 1 \in 1 .. Len(jobs)
  BY <1>1, <1>3, JobTaken
<1>j. PICK m, p : m = Head(jobs).m /\ p = Head(jobs).p
  OBVIOUS
<1>5. m \in Module /\ p \in 1 .. Len(imports) /\ imports[p].m = m
  <2>1. m \in Module
    BY <1>1, <1>3, <1>j, FirstJob
  <2>2. JobsWait
    BY ImportsParts
  <2>3. Waited(m, p)
    BY <2>2, <1>1, <1>4, <1>j DEF JobsWait
  <2> QED
    BY <2>1, <2>3 DEF Waited
<1>6. CASE isExecuted(m)
  <2>1. ImportReturns(m, p, md) /\ frames' = frames /\ call' = call
    BY <1>6, <1>j DEF ImportResolved
  <2>2. md[m].status = "Evaluated" /\ \A x \in Module : md[x].status # "Evaluating"
    BY <1>2, <1>5, <1>6 DEF isExecuted, WalkStatuses
  <2>3. AlikeData(md)
    <3>1. \A x \in Module : md[x].topLevelCapability # "none" => md[x].status \in Started
      BY <1>2, IdleCapable
    <3> QED
      BY <3>1 DEF AlikeData, SameWaits
  <2>4. NoCalls /\ frames' = << >>
    BY <1>1, <1>2, <2>1, IdleNoCalls
  <2> QED
    BY <2>1, <2>2, <2>3, <2>4, <1>1, <1>3, <1>4, <1>5, ImportReturnsWaits
<1>7. CASE ~ isExecuted(m)
  <2>1. /\ call' = [op |-> "import", m |-> m, p |-> p]
        /\ frames' = <<Frame("moduleLinking", m, 1)>> /\ md' = md /\ imports' = imports
    BY <1>7, <1>j DEF ImportResolved
  <2>2. PICK f : f = Frame("moduleLinking", m, 1)
    OBVIOUS
  <2>3. f \in QuietFrames /\ f.fn = "moduleLinking" /\ frames' = <<f>>
    BY <2>1, <2>2, <1>5 DEF Frame, QuietFrames, FrameSet
  <2>4. \E q \in 1 .. Len(imports) : call'.p = q /\ imports[q].m = call'.m
    BY <2>1, <1>5
  <2> QED
    BY <2>1, <2>3, <2>4, <1>1, <1>4, CallBegins
<1> QED
  BY <1>6, <1>7

-----------------------------------------------------------------------------
(* Evaluation: before and after the walk                                    *)

\* The call of moduleEvaluation, before or after its walk.
LEMMA OuterCall ==
  ASSUME ModulesInv, RootsAgree, In("moduleEvaluation")
  PROVE  /\ Types /\ InEvaluation /\ Len(frames) = 1 /\ NoCalls
         /\ Top = frames[1] /\ frames[Len(frames)] = frames[1] /\ frames # << >>
         /\ frames[1].fn = "moduleEvaluation" /\ Top.m = call.m /\ frames[1].m = call.m /\ call.m \in Module
         /\ \A x \in Module : md[x].status \notin WalkStatuses /\ md[x].status # "Evaluating"
         /\ ToSet(stack) = {}
<1>t. Types /\ InEvaluation /\ Len(frames) = 1
  BY StageOf DEF ModulesInv
<1>1. PICK out : Walking("moduleEvaluation", "innerModuleEvaluation", "Evaluating", out)
  BY <1>t DEF InEvaluation
<1>2. /\ Top.m = call.m /\ frames[1].m = call.m /\ call.m \in Module /\ ToSet(stack) = {}
      /\ \A x \in Module : md[x].status \notin WalkStatuses
  BY <1>1, <1>t, OnlyStarted
<1>3. frames \in Seq(FrameSet) /\ frames # << >> /\ Top.fn = "moduleEvaluation"
  BY <1>t DEF Types, In
<1>4. Top = frames[1] /\ frames[1] \in FrameSet
  BY <1>3, TopIsFirst
<1>5. \A j \in 1 .. Len(frames) : frames[j] \in QuietFrames
  BY <1>3, <1>4, <1>t DEF QuietFrames
<1>6. NoCalls
  BY <1>3, <1>5 DEF NoCalls
<1> QED
  BY <1>t, <1>2, <1>3, <1>4, <1>6 DEF WalkStatuses

\* A call returns.
LEMMA ReturnWaits ==
  ASSUME ModulesInv, RootsAgree, Waits, ImportsWait, NoCalls, \A x \in Module : md[x].status # "Evaluating",
         UNCHANGED <<requests, jobs, running, runs, deps, done, escaped>>,
         NEW data \in [Module -> Records], AlikeData(data), CallReturns(data), call.m \in Module,
         call.op = "import" => md[call.m].status = "Evaluated"
  PROVE  Waits' /\ ImportsWait'
<1>1. frames' = << >> /\ call' = NoCall
  BY DEF CallReturns
<1>j. \A i \in 1 .. Len(jobs') : \E k \in 1 .. Len(jobs) : jobs'[i] = jobs[k]
  OBVIOUS
<1>2. CASE call.op = "import"
  <2>1. PICK m, p : m = call.m /\ p = call.p
    OBVIOUS
  <2>2. CallWaits
    BY ImportsParts
  <2>3. m \in Module /\ p \in 1 .. Len(imports) /\ imports[p].m = m /\ md[m].status = "Evaluated"
    BY <2>1, <2>2, <1>2 DEF CallWaits, Waited
  <2>4. ImportReturns(m, p, data)
    BY <2>1, <1>2 DEF CallReturns
  <2> QED
    BY <2>3, <2>4, <1>1, <1>j, ImportReturnsWaits
<1>3. CASE call.op # "import"
  <2>1. md' = data /\ imports' = imports
    BY <1>3 DEF CallReturns
  <2>2. NoCalls'
    BY <1>1 DEF NoCalls
  <2>3. Quiet
    BY <2>1, <2>2, <1>j DEF Quiet, AlikeData
  <2>4. Waits'
    BY <2>3, QuietKeeps
  <2>5. Types
    BY DEF ModulesInv
  <2>6. Capable'
    BY <2>1, <1>1 DEF Capable, AlikeData
  <2>7. ImportsMove
    BY <2>1, <2>6, <1>1, <1>j DEF ImportsMove, AlikeData, SameWaits, NoCall
  <2> QED
    BY <2>4, <2>5, <2>7, ImportsKept
<1> QED
  BY <1>2, <1>3

\* What moduleEvaluation does to the roots: the one of an evaluated module is overwritten.
LEMMA EvaluateCallRoots ==
  ASSUME ModulesInv, EvaluateCall
  PROVE  /\ \A x \in Module : md'[x].cycleRoot \in {md[x].cycleRoot, x}
         /\ Top.m \in Module /\ md[Top.m].status = "Evaluated" => md'[Top.m].cycleRoot = Top.m
<1>t. Types /\ In("moduleEvaluation")
  BY DEF ModulesInv, EvaluateCall
<1>s. InEvaluation /\ Len(frames) = 1
  BY <1>t, StageOf DEF ModulesInv
<1>w. PICK out : Walking("moduleEvaluation", "innerModuleEvaluation", "Evaluating", out)
  BY <1>s DEF InEvaluation
<1>m. PICK m : m = Top.m
  OBVIOUS
<1>1. m = call.m /\ m \in Module
  BY <1>w, <1>s, <1>t, <1>m, OnlyStarted
<1>y. md \in [Module -> Records] /\ imports \in Seq(ImportSet) /\ call \in CallSet
  BY <1>t DEF Types
<1>r. PICK rooted : rooted = IF md[m].status = "Evaluated" THEN [md EXCEPT ![m].cycleRoot = m] ELSE md
  OBVIOUS
<1>2. /\ rooted \in [Module -> Records]
      /\ \A x \in Module : rooted[x].cycleRoot \in {md[x].cycleRoot, x}
      /\ md[m].status = "Evaluated" => rooted[m].cycleRoot = m
  <2>1. CASE md[m].status = "Evaluated"
    <3>1. PICK e, d : e = md[m] /\ d = [md[m] EXCEPT !.cycleRoot = m]
      OBVIOUS
    <3>2. e \in Records /\ d = [e EXCEPT !.cycleRoot = m]
      BY <3>1, <1>1, <1>y
    <3>3. d \in Records /\ d.cycleRoot = m
      BY <3>2, <1>1 DEF Records
    <3>4. rooted = [md EXCEPT ![m] = d]
      BY <2>1, <3>1, <1>r
    <3> QED
      BY <3>3, <3>4, <1>1, <1>y
  <2>2. CASE md[m].status # "Evaluated"
    BY <2>2, <1>r, <1>y
  <2> QED
    BY <2>1, <2>2
<1>3. CASE md[m].topLevelCapability # "none"
  <2>1. CallReturns(rooted)
    BY <1>3, <1>m, <1>r DEF EvaluateCall
  <2>2. Like(rooted)
    BY <2>1, <1>1, <1>2, <1>y, CallReturnsData
  <2> QED
    BY <2>2, <1>1, <1>2, <1>m DEF Like
<1>4. CASE md[m].topLevelCapability = "none"
  <2>1. md' = [rooted EXCEPT ![m].topLevelCapability = "pending"]
    BY <1>4, <1>m, <1>r DEF EvaluateCall
  <2>2. PICK e, d : e = rooted[m] /\ d = [rooted[m] EXCEPT !.topLevelCapability = "pending"]
    OBVIOUS
  <2>3. e \in Records /\ d = [e EXCEPT !.topLevelCapability = "pending"]
    BY <2>2, <1>1, <1>2
  <2>4. d.cycleRoot = e.cycleRoot
    BY <2>3 DEF Records
  <2>5. md' = [rooted EXCEPT ![m] = d]
    BY <2>1, <2>2
  <2> QED
    BY <2>2, <2>4, <2>5, <1>1, <1>2, <1>m
<1> QED
  BY <1>3, <1>4

LEMMA EvaluateCallWaits ==
  ASSUME ModulesInv, RootsAgree, Waits, ImportsWait, Rerooted = {}, Rerooted' = {}, EvaluateCall
  PROVE  Waits' /\ ImportsWait'
<1>o. In("moduleEvaluation") /\ Top.i = 0
  BY DEF EvaluateCall
<1>t. /\ Types /\ InEvaluation /\ Len(frames) = 1 /\ NoCalls
      /\ Top = frames[1] /\ frames[Len(frames)] = frames[1] /\ frames # << >>
      /\ frames[1].fn = "moduleEvaluation" /\ Top.m = call.m /\ frames[1].m = call.m /\ call.m \in Module
      /\ \A x \in Module : md[x].status \notin WalkStatuses /\ md[x].status # "Evaluating"
  BY <1>o, OuterCall
<1>u. UNCHANGED <<requests, jobs, running, runs, deps, done, escaped>>
  BY DEF EvaluateCall, env, scenario, history
<1>y. md \in [Module -> Records]
  BY <1>t DEF Types
<1>c. Capable
  BY ImportsParts
<1>s. \A x \in Module : md[x].topLevelCapability # "none" => md[x].status \in Started
  BY <1>c, <1>o, <1>t DEF Capable
<1>3. (IF md[Top.m].status = "Evaluated" THEN [md EXCEPT ![Top.m].cycleRoot = Top.m] ELSE md) = md
  <2>1. found' = found /\ found[call.m] = md[call.m].cycleRoot
    BY <1>t DEF EvaluateCall, history, Rerooted
  <2>2. md[call.m].status = "Evaluated" => md[call.m].cycleRoot = call.m
    <3> SUFFICES ASSUME md[call.m].status = "Evaluated" PROVE md[call.m].cycleRoot = call.m
      OBVIOUS
    <3>1. md'[call.m].cycleRoot = call.m
      BY <1>t, EvaluateCallRoots
    <3> QED
      BY <3>1, <2>1, <1>t DEF Rerooted
  <2>3. md[call.m].cycleRoot = call.m => [md EXCEPT ![call.m].cycleRoot = call.m] = md
    BY <1>t, <1>y DEF Records
  <2> QED
    BY <2>2, <2>3, <1>t
<1>4. CASE md[Top.m].topLevelCapability # "none"
  <2>1. CallReturns(md)
    BY <1>3, <1>4 DEF EvaluateCall
  <2>2. AlikeData(md)
    BY <1>s DEF AlikeData, SameWaits
  <2>3. md[call.m].status = "Evaluated"
    BY <1>4, <1>s, <1>t DEF Started
  <2> QED
    BY <2>1, <2>2, <2>3, <1>t, <1>u, <1>y, ReturnWaits
<1>5. CASE md[Top.m].topLevelCapability = "none"
  <2>1. PICK m : m = call.m
    OBVIOUS
  <2>2. /\ md' = [md EXCEPT ![m].topLevelCapability = "pending"] /\ m \in Module
        /\ frames' = <<Frame("moduleEvaluation", m, 1)>> /\ call' = call /\ imports' = imports
    BY <2>1, <1>t, <1>3, <1>5 DEF EvaluateCall
  <2>3. PICK f : f = Frame("moduleEvaluation", m, 1)
    OBVIOUS
  <2>4. f \in QuietFrames /\ frames' = <<f>> /\ f.fn = "moduleEvaluation" /\ f.m = m /\ f.i = 1
    BY <2>2, <2>3 DEF Frame, QuietFrames, FrameSet
  <2>5. NoCalls' /\ frames'[1] = f /\ frames'[Len(frames')] = f /\ frames' # << >>
    BY <2>4 DEF NoCalls
  <2>6. /\ \A x \in Module : /\ SameWaits(md'[x], md[x]) /\ md'[x].status = md[x].status
                             /\ md'[x].dfsIndex = md[x].dfsIndex
                             /\ md'[x].asyncPendingPromises = md[x].asyncPendingPromises
        /\ \A x \in Module \ {m} : md'[x].topLevelCapability = md[x].topLevelCapability
    <3>1. PICK e, g : e = md[m] /\ g = [e EXCEPT !.topLevelCapability = "pending"]
      OBVIOUS
    <3>2. e \in Records
      BY <3>1, <2>2, <1>y
    <3>3. /\ SameWaits(g, e) /\ g.status = e.status /\ g.dfsIndex = e.dfsIndex
          /\ g.asyncPendingPromises = e.asyncPendingPromises
      BY ONLY <3>1, <3>2 DEF Records, SameWaits
    <3>4. md'[m] = g /\ \A x \in Module \ {m} : md'[x] = md[x]
      BY <3>1, <2>2, <1>y
    <3> QED
      BY <3>1, <3>3, <3>4 DEF SameWaits
  <2>7. Quiet
    BY <2>5, <2>6, <1>t, <1>u DEF Quiet
  <2>8. Capable'
    BY <2>4, <2>5, <2>6, <1>s DEF Capable
  <2>9. ImportsMove
    BY <2>2, <2>6, <2>8, <1>u DEF ImportsMove, SameWaits
  <2> QED
    BY <2>7, <2>9, <1>t, QuietKeeps, ImportsKept
<1> QED
  BY <1>4, <1>5

-----------------------------------------------------------------------------
(* Evaluation: a module is entered                                          *)

WalkFrames == {f \in FrameSet : f.fn \in {"moduleEvaluation", "innerModuleEvaluation"}}

\* The calls of the walk, and where they are on its stack.
LEMMA EvaluationCalls ==
  ASSUME ModulesInv, RootsAgree, InEvaluation
  PROVE  /\ Types /\ frames \in Seq(WalkFrames) /\ frames # << >> /\ Len(frames) \in Nat /\ Len(frames) >= 1
         /\ \A x : Executing(x) <=> \E j \in Inner(frames) : frames[j].m = x
         /\ \A x : Executing(x) => x \in Module /\ md[x].status = "Evaluating" /\ 1 \in Inner(frames)
                                   /\ md[x].dfsIndex <= md[frames[1].m].dfsIndex
         /\ \A x \in Module : md[x].dfsIndex \in Nat
         /\ \A x \in HasStatus({"Evaluating"}) : x \in Module /\ md[x].dfsIndex < index
         /\ index \in Nat /\ ToSet(stack) = HasStatus({"Evaluating"})
         /\ \A x, y \in HasStatus({"Evaluating"}) : md[x].dfsIndex = md[y].dfsIndex => x = y
<1>t. Types
  BY DEF ModulesInv
<1>w. PICK out : Walking("moduleEvaluation", "innerModuleEvaluation", "Evaluating", out)
  BY DEF InEvaluation
<1>y. md \in [Module -> Records] /\ frames \in Seq(FrameSet) /\ index \in Nat
  BY <1>t DEF Types
<1>1. /\ frames # << >> /\ frames[Len(frames)].fn = "moduleEvaluation"
      /\ \A j \in Inner(frames) : frames[j].fn = "innerModuleEvaluation"
      /\ ToSet(stack) = HasStatus({"Evaluating"})
  BY <1>w DEF Walking
<1>2. Len(frames) \in Nat /\ Len(frames) >= 1 /\ \A j \in 1 .. Len(frames) : frames[j] \in FrameSet
  BY <1>1, <1>y
<1>3. \A j \in 1 .. Len(frames) : j \in Inner(frames) \/ j = Len(frames)
  BY <1>2 DEF Inner
<1>4. \A j \in 1 .. Len(frames) : frames[j] \in WalkFrames
  BY <1>1, <1>2, <1>3 DEF WalkFrames
<1>5. frames \in Seq(WalkFrames)
  BY <1>4, <1>y
<1>6. \A j \in Inner(frames) : j \in 1 .. Len(frames)
  BY <1>2 DEF Inner
<1>7. \A x : Executing(x) <=> \E j \in Inner(frames) : frames[j].m = x
  BY <1>1, <1>3, <1>6 DEF Executing
<1>d. \A x \in Module : md[x] \in Records /\ md[x].dfsIndex \in Nat /\ DfsIndex[x] = md[x].dfsIndex
  BY <1>y DEF Records, DfsIndex
<1>T. Tarjan(requests, frames, ToSet(stack), DfsIndex, DfsAncestorIndex, index, out)
  BY <1>w DEF Walking
<1>8. \A x \in HasStatus({"Evaluating"}) : x \in Module /\ md[x].status = "Evaluating"
  BY DEF HasStatus
<1>9. \A x \in HasStatus({"Evaluating"}) : md[x].dfsIndex < index
  BY <1>T, <1>d, <1>8, <1>1 DEF Tarjan, Indices
<1>10. \A x, y \in HasStatus({"Evaluating"}) : md[x].dfsIndex = md[y].dfsIndex => x = y
  BY <1>T, <1>d, <1>8, <1>1 DEF Tarjan, Indices
<1>11. ASSUME NEW x, Executing(x)
       PROVE  x \in Module /\ md[x].status = "Evaluating" /\ 1 \in Inner(frames)
              /\ md[x].dfsIndex <= md[frames[1].m].dfsIndex
  <2>1. PICK j \in Inner(frames) : frames[j].m = x
    BY <1>7, <1>11
  <2>2. 1 \in Inner(frames) /\ j \in Nat /\ 1 <= j
    BY <1>2 DEF Inner
  <2>3. x \in ToSet(stack) /\ frames[1].m \in ToSet(stack)
    BY <2>1, <2>2, <1>T DEF Tarjan, Indices
  <2>4. x \in Module /\ md[x].status = "Evaluating" /\ frames[1].m \in Module
    BY <2>3, <1>1, <1>8
  <2>5. 1 < j => DfsIndex[frames[j].m] < DfsIndex[frames[1].m]
    BY <2>1, <2>2, <1>T DEF Tarjan, Indices
  <2>6. CASE j = 1
    BY <2>1, <2>2, <2>4, <2>6, <1>d
  <2>7. CASE j # 1
    <3>1. 1 < j
      BY <2>2, <2>7
    <3>2. DfsIndex[x] < DfsIndex[frames[1].m]
      BY <3>1, <2>5, <2>1
    <3> QED
      BY <3>2, <2>2, <2>4, <1>d
  <2> QED
    BY <2>6, <2>7
<1> QED
  BY <1>t, <1>1, <1>2, <1>5, <1>7, <1>8, <1>9, <1>10, <1>11, <1>d, <1>y

\* A step of the walk, or its end, has no call of the parents in progress.
LEMMA WalkCalling ==
  ASSUME frames' \in Seq(WalkFrames),
         ~ escaped' => \A x \in Module : md'[x].error =>
            \A l \in 1 .. Len(md'[x].asyncParentModules) : md'[md'[x].asyncParentModules[l]].error
  PROVE  Calling'
<1>1. \A j \in 1 .. Len(frames') : frames'[j] \in WalkFrames
  OBVIOUS
<1>2. \A j \in 1 .. Len(frames') : frames'[j].fn \in {"moduleEvaluation", "innerModuleEvaluation"}
  BY <1>1 DEF WalkFrames
<1>3. Fulfilling' /\ Rejecting'
  BY <1>2 DEF Fulfilling, Rejecting
<1>4. Reported'
  BY DEF Reported, Parents
<1> QED
  BY <1>3, <1>4 DEF Calling

\* Before such a step the parents of a failed module have failed.
LEMMA WalkReported ==
  ASSUME frames \in Seq(WalkFrames), Waits, ~ escaped, NEW x \in Module, md[x].error,
         NEW l \in 1 .. Len(Parents(x))
  PROVE  md[Parents(x)[l]].error
<1>1. \A j \in 1 .. Len(frames) : frames[j] \in WalkFrames
  OBVIOUS
<1>2. \A j \in 1 .. Len(frames) : frames[j].fn # "asyncModuleRejected"
  BY <1>1 DEF WalkFrames
<1>3. frames # << >> => 1 \in 1 .. Len(frames)
  OBVIOUS
<1>4. Reported
  BY DEF Waits, Calling
<1> QED
  BY <1>2, <1>3, <1>4 DEF Reported

\* Nothing is registered and nothing runs.
LEMMA BooksSame ==
  ASSUME Bookkeeping, UNCHANGED <<requests, jobs, runs, deps, running, done>>,
         \A x \in Module : SameWaits(md'[x], md[x]),
         \A x \in Module : md'[x].status \notin Started => md[x].status \notin Started
  PROVE  Bookkeeping'
<1>2. \A x \in Module : Parents(x)' = Parents(x)
  BY DEF Parents, SameWaits
<1>b. HistoryTypes /\ Fresh /\ Registered /\ Waiting /\ Bodies
  BY DEF Bookkeeping
<1>3. HistoryTypes'
  BY <1>b DEF HistoryTypes
<1>4. Fresh'
  BY <1>b, <1>2 DEF Fresh, SameWaits, Parents
<1>5. Registered'
  <2>1. \A x \in Module : requests'[x] = << >> => deps'[x] = 0
    BY <1>b DEF Registered
  <2>2. \A x \in Module : \A i \in 1 .. Len(Parents(x)') : deps'[Parents(x)'[i]] > 0
    BY <1>b, <1>2 DEF Registered
  <2>3. \A x, y \in Module : \A i \in 1 .. Len(Parents(x)') : \A j \in 1 .. Len(Parents(y)') :
          Parents(x)'[i] = Parents(y)'[j] => x = y /\ i = j
    BY <1>b, <1>2 DEF Registered
  <2> QED
    BY <2>1, <2>2, <2>3 DEF Registered
<1>6. Waiting'
  BY <1>b, <1>2 DEF Waiting, SameWaits, Parents
<1>7. Bodies'
  BY <1>b DEF Bodies
<1> QED
  BY <1>3, <1>4, <1>5, <1>6, <1>7 DEF Bookkeeping

LEMMA EnterWaits ==
  ASSUME ModulesInv, RootsAgree, Waits, ImportsWait, InEvaluation, NEW m \in Module, md[m].status = "Linked",
         \/ Len(frames) = 1 /\ frames[1].m = m
         \/ /\ Len(frames) > 1 /\ frames[1].i <= Len(requests[frames[1].m])
            /\ requests[frames[1].m][frames[1].i] = m,
         Enter("innerModuleEvaluation", m, "Evaluating"),
         UNCHANGED <<requests, jobs, call, imports, running, runs, deps, done, escaped>>
  PROVE  Waits' /\ ImportsWait'
<1>h. Len(frames) = 1 \/ requests[frames[1].m][frames[1].i] = m
  OBVIOUS
<1>t. Types /\ frames \in Seq(WalkFrames) /\ frames # << >> /\ Len(frames) \in Nat /\ Len(frames) >= 1
  BY EvaluationCalls
<1>e. /\ \A x : Executing(x) <=> \E j \in Inner(frames) : frames[j].m = x
      /\ \A x : Executing(x) => x \in Module /\ md[x].status = "Evaluating"
      /\ \A x \in Module : md[x].dfsIndex \in Nat
      /\ \A x \in HasStatus({"Evaluating"}) : x \in Module /\ md[x].dfsIndex < index
      /\ index \in Nat
  BY EvaluationCalls
<1>y. md \in [Module -> Records] /\ md[m].status \notin Started
  BY <1>t DEF Types, Started
<1>d. /\ \A x \in Module : SameWaits(md'[x], md[x]) /\ SameImport(md'[x], md[x])
      /\ md'[m].status = "Evaluating" /\ md'[m].dfsIndex = index
      /\ \A x \in Module \ {m} : md'[x] = md[x]
  <2>1. "Evaluating" \in WalkStatuses
    BY DEF WalkStatuses
  <2> QED
    BY <2>1, <1>e, <1>y, EnterLinkData
<1>f. /\ frames' \in Seq(WalkFrames) /\ Len(frames') = Len(frames) + 1 /\ frames' # << >>
      /\ frames'[1].fn = "innerModuleEvaluation" /\ frames'[1].m = m /\ frames'[1].i = 1
      /\ \A j \in 1 .. Len(frames) : frames'[j + 1] = frames[j]
  <2>1. PICK f : f = Frame("innerModuleEvaluation", m, 1)
    OBVIOUS
  <2>2. f \in WalkFrames /\ f.fn = "innerModuleEvaluation" /\ f.m = m /\ f.i = 1
    BY <2>1 DEF Frame, WalkFrames, FrameSet
  <2>3. frames' = <<f>> \o frames
    BY <2>1 DEF Enter
  <2>4. /\ frames' \in Seq(WalkFrames) /\ Len(frames') = Len(frames) + 1 /\ frames'[1] = f
        /\ \A j \in 1 .. Len(frames) : frames'[j + 1] = frames[j]
    BY ONLY <2>2, <2>3, <1>t, SMTT(30)
  <2> QED
    BY <2>2, <2>4, <1>t
<1>x. \A x : Executing(x)' <=> Executing(x) \/ x = m
  <2>1. ASSUME NEW j \in 1 .. Len(frames') PROVE j = 1 \/ (j - 1 \in 1 .. Len(frames) /\ frames'[j] = frames[j - 1])
    <3>1. j = 1 \/ (j - 1 \in 1 .. Len(frames) /\ (j - 1) + 1 = j)
      BY <1>f, <1>t
    <3> QED
      BY <3>1, <1>f
  <2>2. \A j \in 1 .. Len(frames) : j + 1 \in 1 .. Len(frames')
    BY <1>f, <1>t
  <2>3. 1 \in 1 .. Len(frames')
    BY <1>f, <1>t
  <2>4. ASSUME NEW x, Executing(x)' PROVE Executing(x) \/ x = m
    <3>1. PICK j \in 1 .. Len(frames') : frames'[j].fn = "innerModuleEvaluation" /\ frames'[j].m = x
      BY <2>4 DEF Executing
    <3> QED
      BY <3>1, <2>1, <1>f DEF Executing
  <2>5. ASSUME NEW x, Executing(x) PROVE Executing(x)'
    <3>1. PICK j \in 1 .. Len(frames) : frames[j].fn = "innerModuleEvaluation" /\ frames[j].m = x
      BY <2>5 DEF Executing
    <3> QED
      BY <3>1, <2>2, <1>f DEF Executing
  <2>6. Executing(m)'
    BY <2>3, <1>f DEF Executing
  <2> QED
    BY <2>4, <2>5, <2>6
<1>v. \A x \in Module : x \in HasStatus({"Evaluating"})' <=> x \in HasStatus({"Evaluating"}) \/ x = m
  BY <1>d, <1>y DEF HasStatus, Started
<1>p. \A x \in Module : Parents(x)' = Parents(x)
  BY <1>d DEF Parents, SameWaits
<1>w. Bookkeeping /\ WalkWaits /\ Findings
  BY DEF Waits
<1>m. /\ runs[m] = 0 /\ deps[m] = 0 /\ md[m].pendingAsyncDependencies = 0
      /\ ~ md[m].asyncEvaluating /\ ~ md[m].error /\ Parents(m) = << >>
  BY <1>w, <1>y DEF Bookkeeping, Fresh
<1>1. Bookkeeping'
  <2>1. \A x \in Module : md'[x].status \notin Started => md[x].status \notin Started
    BY <1>d, <1>y
  <2> QED
    BY <2>1, <1>d, <1>w, BooksSame
<1>2. Calling'
  <2> SUFFICES ASSUME ~ escaped', NEW x \in Module, md'[x].error, NEW l \in 1 .. Len(md'[x].asyncParentModules)
               PROVE  md'[md'[x].asyncParentModules[l]].error
    BY <1>f, WalkCalling
  <2>1. md[x].error /\ md'[x].asyncParentModules = Parents(x) /\ ~ escaped
    BY <1>d DEF SameWaits, Parents
  <2>2. md[Parents(x)[l]].error
    BY <2>1, <1>t, WalkReported
  <2>3. Parents(x) \in Seq(Module)
    BY <1>y DEF Records, Parents
  <2>4. Parents(x)[l] \in Module
    BY <2>1, <2>3
  <2> QED
    BY <2>1, <2>2, <2>4, <1>d DEF SameWaits
<1>s. HasStatus({"Evaluating"}) \subseteq Module /\ HasStatus({"Evaluating"})' \subseteq Module
      /\ m \notin HasStatus({"Evaluating"})
  BY DEF HasStatus
<1>3. Walked'
  <2>w. Walked
    BY <1>w DEF WalkWaits
  <2>1. \A x \in Module : Executing(x)' =>
          /\ runs'[x] = 0 /\ md'[x].pendingAsyncDependencies = deps'[x]
          /\ ~ md'[x].asyncEvaluating /\ Parents(x)' = << >>
    BY <2>w, <1>x, <1>m, <1>d, <1>p DEF Walked, SameWaits
  <2>2. \A x \in HasStatus({"Evaluating"})' : ~ md'[x].error
    BY <2>w, <1>v, <1>m, <1>d, <1>s DEF Walked, SameWaits
  <2>3. \A x \in HasStatus({"Evaluating"})' : Executing(x)' \/ x \in done' \/ md'[x].asyncEvaluating
    BY <2>w, <1>v, <1>x, <1>d, <1>s DEF Walked, SameWaits
  <2>4. ASSUME NEW x \in HasStatus({"Evaluating"})', NEW z \in ToSet(Parents(x))'
        PROVE  z \in HasStatus({"Evaluating"})' /\ x \in ToSet(requests[z])'
    <3>1. x \in Module /\ z \in ToSet(Parents(x))
      BY <2>4, <1>s, <1>p
    <3>2. x # m
      <4>1. CASE x = m
        <5>1. z \in ToSet(<< >>)
          BY <4>1, <3>1, <1>m
        <5> QED
          BY <5>1 DEF ToSet
      <4> QED
        BY <4>1
    <3>3. z \in HasStatus({"Evaluating"}) /\ x \in ToSet(requests[z])
      BY <2>w, <3>1, <3>2, <1>v DEF Walked
    <3> QED
      BY <3>3, <1>v, <1>s
  <2> QED
    BY <2>1, <2>2, <2>3, <2>4 DEF Walked
<1>n. ASSUME NEW y \in HasStatus({"Evaluating"}), NEW r \in HasStatus({"Evaluating"}), NoneBetween(y, r)
      PROVE  NoneBetween(y, r)'
  <2> SUFFICES ASSUME NEW x \in Module, Executing(x)', md'[x].dfsIndex <= md'[r].dfsIndex
               PROVE  md'[x].dfsIndex <= md'[y].dfsIndex
    BY DEF NoneBetween
  <2>1. md'[r] = md[r] /\ md'[y] = md[y] /\ md[r].dfsIndex < index /\ md[r].dfsIndex \in Nat
    BY <1>n, <1>d, <1>e, <1>s
  <2>2. x # m
    BY <2>1, <1>d, <1>e
  <2>3. Executing(x) /\ md'[x] = md[x]
    BY <2>2, <1>x, <1>d
  <2> QED
    BY <2>1, <2>3, <1>n DEF NoneBetween
<1>4. TreeWalk'
  <2> SUFFICES ASSUME NEW y \in HasStatus({"Evaluating"})', ~ Executing(y)', y \notin done'
               PROVE  \E z \in HasStatus({"Evaluating"})' :
                        md'[z].dfsIndex < md'[y].dfsIndex /\ NoneBetween(z, y)' /\ TreeParent(z, y)'
    BY DEF TreeWalk
  <2>1. y \in HasStatus({"Evaluating"}) /\ ~ Executing(y) /\ y \notin done /\ y \in Module /\ y # m
    BY <1>x, <1>v, <1>s
  <2>2. PICK z \in HasStatus({"Evaluating"}) :
            md[z].dfsIndex < md[y].dfsIndex /\ NoneBetween(z, y) /\ TreeParent(z, y)
    BY <2>1, <1>w DEF WalkWaits, TreeWalk
  <2>3. z \in Module /\ md'[z] = md[z] /\ md'[y] = md[y]
    BY <2>1, <2>2, <1>d, <1>s
  <2>4. NoneBetween(z, y)'
    BY <2>1, <2>2, <1>n
  <2>5. z \in ToSet(Parents(y))
    <3>1. SUFFICES ASSUME Len(frames) > 1, frames[1].m = z, requests[z][frames[1].i] = y PROVE FALSE
      BY <2>2 DEF TreeParent
    <3>2. requests[frames[1].m][frames[1].i] = m
      <4>0. PICK n : n = Len(frames)
        OBVIOUS
      <4>1. Len(frames) # 1
        <5>1. n > 1 /\ n \in Nat
          BY <4>0, <3>1, <1>t
        <5>2. n # 1
          BY ONLY <5>1
        <5> QED
          BY <4>0, <5>2
      <4> QED
        BY <4>1, <1>h
    <3>3. y = m
      BY <3>1, <3>2
    <3> QED
      BY <3>3, <2>1
  <2>6. TreeParent(z, y)'
    BY <2>1, <2>5, <1>p DEF TreeParent
  <2>7. z \in HasStatus({"Evaluating"})'
    BY <2>2, <2>3, <1>v
  <2> QED
    BY <2>2, <2>3, <2>4, <2>6, <2>7
<1>c. Rooted' = Rooted /\ Rooted \subseteq Module
      /\ \A x \in Rooted : md'[x] = md[x]
  <2>1. \A x \in Module : x \in Rooted' <=> x \in Rooted
    BY <1>d DEF Rooted, HasStatus
  <2>2. Rooted' \subseteq Module /\ Rooted \subseteq Module /\ m \notin Rooted
    BY DEF Rooted, HasStatus
  <2> QED
    BY <2>1, <2>2, <1>d
<1>5. RequestsWalk'
  <2> SUFFICES ASSUME NEW y \in HasStatus({"Evaluating"})', NEW k \in 1 .. Len(requests[y]), Past(y, k)'
               PROVE  Seen(y, requests[y][k])'
    BY DEF RequestsWalk
  <2>1. y # m /\ y \in Module
    <3>1. CASE y = m
      <4>1. k < 1
        <5>1. 1 \in 1 .. Len(frames')
          BY <1>f, <1>t
        <5> QED
          BY <5>1, <3>1, <1>f DEF Past
      <4> QED
        BY <4>1
    <3> QED
      BY <3>1, <1>s
  <2>2. y \in HasStatus({"Evaluating"})
    BY <2>1, <1>v
  <2>3. Past(y, k)
    <3> SUFFICES ASSUME NEW j \in 1 .. Len(frames), frames[j].fn = "innerModuleEvaluation", frames[j].m = y
                 PROVE  k < frames[j].i
      BY DEF Past
    <3>1. j + 1 \in 1 .. Len(frames') /\ frames'[j + 1] = frames[j]
      BY <1>f, <1>t
    <3> QED
      BY <3>1 DEF Past
  <2>4. PICK r : r = requests[y][k]
    OBVIOUS
  <2>5. Seen(y, r) /\ r \in Module
    <3>1. requests[y] \in Seq(Module)
      BY <2>1, <1>t DEF Types
    <3>2. r \in Module
      BY <3>1, <2>4
    <3>3. RequestsWalk
      BY <1>w DEF WalkWaits
    <3>4. Seen(y, requests[y][k])
      BY <3>3, <2>2, <2>3 DEF RequestsWalk
    <3> QED
      BY <3>2, <3>4, <2>4
  <2>6. Seen(y, r)'
    <3>1. CASE r \in HasStatus({"Evaluating"}) /\ NoneBetween(y, r)
      BY <3>1, <2>2, <2>5, <1>n, <1>v DEF Seen
    <3>2. CASE r \in Rooted /\ (AllDone(r) \/ y \in ToSet(Parents(md[r].cycleRoot)))
      <4>1. r \in Rooted' /\ md'[r].cycleRoot = md[r].cycleRoot
        BY <3>2, <1>c
      <4>2. AllDone(r) => AllDone(r)'
        BY <2>5, AllDoneGrows
      <4>3. md[r].cycleRoot \in Module
        BY <3>2, RootIsComplete
      <4>4. Parents(md[r].cycleRoot)' = Parents(md[r].cycleRoot)
        BY <4>1, <4>3, <1>p DEF Parents
      <4> QED
        BY <3>2, <4>1, <4>2, <4>4 DEF Seen
    <3> QED
      BY <2>5, <3>1, <3>2 DEF Seen
  <2> QED
    BY <2>4, <2>6 DEF Seen, NoneBetween, AllDone, Reaches, Executing, HasStatus, Rooted, Parents
<1>6. Findings'
  <2>1. Outcomes'
    BY <1>c, <1>w DEF Findings, Outcomes
  <2>2. Grows
    BY <1>c, <1>p DEF Grows, Parents
  <2>3. Found' /\ Starts'
    BY <2>2, <1>c, <1>w, FindingsGrow DEF Findings
  <2> QED
    BY <2>1, <2>3 DEF Findings
<1>7. ImportsMove
  <2>1. Capable'
    <3>1. frames'[Len(frames')] = frames[Len(frames)]
      BY <1>f, <1>t
    <3>2. \A x \in Module : md'[x].topLevelCapability = md[x].topLevelCapability
                            /\ (md[x].status \in Started => md'[x].status \in Started)
      BY <1>d, <1>y DEF SameImport
    <3>3. Capable
      BY ImportsParts
    <3> QED
      BY <3>1, <3>2, <3>3, <1>f DEF Capable
  <2>2. \A x \in Module : /\ md[x].status = "Evaluated" => md'[x].status = "Evaluated"
                          /\ md[x].error => md'[x].error
                          /\ md'[x].asyncPendingPromises = md[x].asyncPendingPromises
    BY <1>d DEF SameWaits, SameImport
  <2> QED
    BY <2>1, <2>2 DEF ImportsMove
<1> QED
  BY <1>1, <1>2, <1>3, <1>4, <1>5, <1>6, <1>7, <1>t, ImportsKept DEF Waits, WalkWaits

-----------------------------------------------------------------------------
(* Evaluation: the walk fails                                               *)

\* No body starts, or one that nothing was registered for.
StartsBody ==
    \/ runs' = runs
    \/ \E m \in Module : /\ Executing(m) /\ deps[m] = 0 /\ StartOf(m)
                         /\ runs' = [runs EXCEPT ![m] = @ + 1]

LEMMA StartsBodyFacts ==
  ASSUME Bookkeeping, StartsBody
  PROVE  /\ runs' \in [Module -> Nat]
         /\ \A x \in Module : /\ runs[x] > 0 => runs'[x] > 0
                              /\ runs'[x] # runs[x] => Executing(x) /\ deps[x] = 0 /\ StartOf(x)
<1>1. runs \in [Module -> Nat]
  BY DEF Bookkeeping, HistoryTypes
<1>2. CASE runs' = runs
  BY <1>1, <1>2
<1>3. ASSUME NEW m \in Module, Executing(m), deps[m] = 0, StartOf(m), runs' = [runs EXCEPT ![m] = @ + 1]
      PROVE  /\ runs' \in [Module -> Nat]
             /\ \A x \in Module : /\ runs[x] > 0 => runs'[x] > 0
                                  /\ runs'[x] # runs[x] => Executing(x) /\ deps[x] = 0 /\ StartOf(x)
  <2>1. runs[m] \in Nat /\ runs'[m] = runs[m] + 1 /\ \A x \in Module \ {m} : runs'[x] = runs[x]
    BY <1>1, <1>3
  <2> QED
    BY <1>1, <1>3, <2>1
<1> QED
  BY <1>2, <1>3 DEF StartsBody

LEMMA FailWalkData ==
  ASSUME Types, FailWalk
  PROVE  /\ frames' = << >> /\ call' = NoCall
         /\ \A x \in Module :
              /\ md'[x].status = IF x \in ToSet(stack) THEN "Evaluated" ELSE md[x].status
              /\ md'[x].error <=> md[x].error \/ x \in ToSet(stack)
              /\ md'[x].cycleRoot = md[x].cycleRoot /\ md'[x].asyncEvaluating = md[x].asyncEvaluating
              /\ md'[x].asyncParentModules = md[x].asyncParentModules
              /\ md'[x].pendingAsyncDependencies = md[x].pendingAsyncDependencies
              /\ md'[x].asyncPendingPromises = md[x].asyncPendingPromises
              /\ md'[x].dfsIndex = md[x].dfsIndex
              /\ x # call.m => md'[x].topLevelCapability = md[x].topLevelCapability
         /\ Len(imports') = Len(imports)
         /\ \A p \in 1 .. Len(imports) :
              /\ imports'[p].m = imports[p].m
              /\ imports'[p].state = "fulfilled" => imports[p].state = "fulfilled"
<1>y. md \in [Module -> Records] /\ imports \in Seq(ImportSet)
  BY DEF Types
<1>1. /\ frames' = << >> /\ call' = NoCall
      /\ md' = [m \in Module |->
        [md[m] EXCEPT !.status = IF m \in ToSet(stack) THEN "Evaluated" ELSE @,
                      !.error = @ \/ m \in ToSet(stack),
                      !.topLevelCapability = IF m = call.m THEN "rejected" ELSE @]]
      /\ imports' = IF call.op = "import" THEN Settled({call.p}, "rejected") ELSE imports
  BY DEF FailWalk, CallThrows
<1>2. ASSUME NEW x \in Module
      PROVE  /\ md'[x].status = IF x \in ToSet(stack) THEN "Evaluated" ELSE md[x].status
             /\ md'[x].error <=> md[x].error \/ x \in ToSet(stack)
             /\ md'[x].cycleRoot = md[x].cycleRoot /\ md'[x].asyncEvaluating = md[x].asyncEvaluating
             /\ md'[x].asyncParentModules = md[x].asyncParentModules
             /\ md'[x].pendingAsyncDependencies = md[x].pendingAsyncDependencies
             /\ md'[x].asyncPendingPromises = md[x].asyncPendingPromises
             /\ md'[x].dfsIndex = md[x].dfsIndex
             /\ x # call.m => md'[x].topLevelCapability = md[x].topLevelCapability
  <2>1. PICK e, b, c, s : /\ e = md[x] /\ b = (md[x].error \/ x \in ToSet(stack))
                          /\ c = IF x = call.m THEN "rejected" ELSE md[x].topLevelCapability
                          /\ s = IF x \in ToSet(stack) THEN "Evaluated" ELSE md[x].status
    OBVIOUS
  <2>3. e \in Records
    BY <2>1, <1>y
  <2>5. md'[x] = [e EXCEPT !.status = s, !.error = b, !.topLevelCapability = c]
    BY <2>1, <1>1
  <2>6. /\ md'[x].status = s /\ md'[x].error = b /\ md'[x].topLevelCapability = c
        /\ md'[x].cycleRoot = e.cycleRoot /\ md'[x].asyncEvaluating = e.asyncEvaluating
        /\ md'[x].asyncParentModules = e.asyncParentModules
        /\ md'[x].pendingAsyncDependencies = e.pendingAsyncDependencies
        /\ md'[x].asyncPendingPromises = e.asyncPendingPromises
        /\ md'[x].dfsIndex = e.dfsIndex
    BY ONLY <2>3, <2>5 DEF Records
  <2> QED
    BY <2>1, <2>6
<1>3. /\ Len(imports') = Len(imports)
      /\ \A p \in 1 .. Len(imports) :
              /\ imports'[p].m = imports[p].m
              /\ imports'[p].state = "fulfilled" => imports[p].state = "fulfilled"
  <2>1. CASE call.op = "import"
    <3>1. PICK ps : ps = {call.p}
      OBVIOUS
    <3>2. imports' = Settled(ps, "rejected")
      BY <3>1, <2>1, <1>1
    <3> QED
      BY <3>2, <1>y, SettledFacts
  <2>2. CASE call.op # "import"
    BY <2>2, <1>1
  <2> QED
    BY <2>1, <2>2
<1> QED
  BY <1>1, <1>2, <1>3

LEMMA FailWalkWaits ==
  ASSUME ModulesInv, RootsAgree, Waits, ImportsWait, InEvaluation, FailWalk, StartsBody, md[call.m].status \in Started,
         UNCHANGED <<requests, jobs, running, deps, done, escaped>>
  PROVE  Waits' /\ ImportsWait'
<1>t. Types /\ RootsAgree /\ frames \in Seq(WalkFrames) /\ ToSet(stack) = HasStatus({"Evaluating"})
  BY EvaluationCalls DEF ModulesInv
<1>e. \A x : Executing(x) => x \in Module /\ md[x].status = "Evaluating"
  BY EvaluationCalls
<1>w. Bookkeeping /\ Walked /\ Findings
  BY DEF Waits, WalkWaits
<1>f. frames' = << >> /\ call' = NoCall
  BY <1>t, FailWalkData
<1>d. \A x \in Module :
              /\ md'[x].status = IF x \in ToSet(stack) THEN "Evaluated" ELSE md[x].status
              /\ md'[x].error <=> md[x].error \/ x \in ToSet(stack)
              /\ md'[x].cycleRoot = md[x].cycleRoot /\ md'[x].asyncEvaluating = md[x].asyncEvaluating
              /\ md'[x].asyncParentModules = md[x].asyncParentModules
              /\ md'[x].pendingAsyncDependencies = md[x].pendingAsyncDependencies
              /\ md'[x].asyncPendingPromises = md[x].asyncPendingPromises
              /\ md'[x].dfsIndex = md[x].dfsIndex
              /\ x # call.m => md'[x].topLevelCapability = md[x].topLevelCapability
  BY <1>t, FailWalkData
<1>i. Len(imports') = Len(imports) /\ \A p \in 1 .. Len(imports) :
              /\ imports'[p].m = imports[p].m
              /\ imports'[p].state = "fulfilled" => imports[p].state = "fulfilled"
  BY <1>t, FailWalkData
<1>r. /\ runs' \in [Module -> Nat]
      /\ \A x \in Module : /\ runs[x] > 0 => runs'[x] > 0
                           /\ runs'[x] # runs[x] => Executing(x) /\ deps[x] = 0 /\ StartOf(x)
  BY <1>w, StartsBodyFacts
<1>k. \A x \in Module : x \in ToSet(stack) <=> md[x].status = "Evaluating"
  BY <1>t DEF HasStatus
<1>p. \A x \in Module : Parents(x)' = Parents(x) /\ Parents(x) \in Seq(Module)
  BY <1>d, <1>t DEF Parents, Types, Records
<1>1. Bookkeeping'
  <2>b. HistoryTypes /\ Fresh /\ Registered /\ Waiting /\ Bodies
    BY <1>w DEF Bookkeeping
  <2>1. HistoryTypes'
    BY <2>b, <1>r DEF HistoryTypes
  <2>2. Fresh'
    <3> SUFFICES ASSUME NEW x \in Module, md'[x].status \notin Started
                 PROVE  /\ runs'[x] = 0 /\ deps'[x] = 0 /\ md'[x].pendingAsyncDependencies = 0
                        /\ ~ md'[x].asyncEvaluating /\ ~ md'[x].error /\ Parents(x)' = << >>
      BY DEF Fresh
    <3>1. x \notin ToSet(stack) /\ md[x].status \notin Started /\ md[x].status # "Evaluating"
      BY <1>d, <1>k DEF Started
    <3>2. /\ runs[x] = 0 /\ deps[x] = 0 /\ md[x].pendingAsyncDependencies = 0
          /\ ~ md[x].asyncEvaluating /\ ~ md[x].error /\ Parents(x) = << >>
      BY <3>1, <2>b DEF Fresh
    <3> QED
      BY <3>1, <3>2, <1>d, <1>p, <1>r, <1>e
  <2>3. Registered'
    <3>1. \A x \in Module : requests'[x] = << >> => deps'[x] = 0
      BY <2>b DEF Registered
    <3>2. \A x \in Module : \A i \in 1 .. Len(Parents(x)') : deps'[Parents(x)'[i]] > 0
      BY <2>b, <1>p DEF Registered
    <3>3. \A x, y \in Module : \A i \in 1 .. Len(Parents(x)') : \A j \in 1 .. Len(Parents(y)') :
            Parents(x)'[i] = Parents(y)'[j] => x = y /\ i = j
      BY <2>b, <1>p DEF Registered
    <3> QED
      BY <3>1, <3>2, <3>3 DEF Registered
  <2>4. Waiting'
    <3> SUFFICES ASSUME NEW x \in Module, x \notin done' \/ md'[x].asyncEvaluating,
                        NEW i \in 1 .. Len(Parents(x)')
                 PROVE  runs'[Parents(x)'[i]] = 0
      BY DEF Waiting
    <3>1. PICK q : q = Parents(x)[i]
      OBVIOUS
    <3>2. q \in Module /\ q = Parents(x)'[i] /\ i \in 1 .. Len(Parents(x))
      BY <3>1, <1>p
    <3>3. deps[q] > 0 /\ runs[q] = 0
      <4>1. x \notin done \/ md[x].asyncEvaluating
        BY <1>d
      <4>2. runs[Parents(x)[i]] = 0
        BY <4>1, <3>2, <2>b DEF Waiting
      <4>3. deps[Parents(x)[i]] > 0
        BY <3>2, <2>b DEF Registered
      <4> QED
        BY <4>2, <4>3, <3>1
    <3>4. runs'[q] = runs[q]
      BY <3>2, <3>3, <1>r
    <3> QED
      BY <3>2, <3>3, <3>4
  <2>5. Bodies'
    <3>0. \A i \in 1 .. Len(jobs) : jobs[i] \in JobSet
      BY <1>t DEF Types
    <3>1. \A i \in 1 .. Len(jobs) : jobs[i].m \in Module
      BY <3>0 DEF JobSet
    <3>2. done \subseteq Module
      BY <2>b DEF HistoryTypes
    <3>3. \A x \in done' : runs'[x] > 0
      BY <3>2, <2>b, <1>r DEF Bodies
    <3>4. \A x \in Module : running'[x] > 0 => running'[x] = 1 /\ runs'[x] > 0 /\ x \notin done'
      BY <2>b, <1>r DEF Bodies
    <3>5. \A i \in 1 .. Len(jobs) : jobs[i].fn \in BodyJobs =>
             /\ running[jobs[i].m] = 0 /\ runs'[jobs[i].m] > 0
             /\ jobs[i].fn = "asyncModuleFulfilled" <=> jobs[i].m \in done
      BY <3>1, <2>b, <1>r DEF Bodies
    <3> QED
      BY <3>3, <3>4, <3>5 DEF Bodies
  <2> QED
    BY <2>1, <2>2, <2>3, <2>4, <2>5 DEF Bookkeeping
<1>2. Calling'
  <2>f. frames' \in Seq(WalkFrames)
    BY <1>f
  <2> SUFFICES ASSUME ~ escaped', NEW x \in Module, md'[x].error, NEW l \in 1 .. Len(md'[x].asyncParentModules)
               PROVE  md'[md'[x].asyncParentModules[l]].error
    BY <2>f, WalkCalling
  <2>1. md'[x].asyncParentModules = Parents(x) /\ ~ escaped
    BY <1>d DEF Parents
  <2>2. PICK q : q = Parents(x)[l]
    OBVIOUS
  <2>3. q \in Module /\ q \in ToSet(Parents(x))
    BY <2>1, <2>2, <1>p DEF ToSet
  <2>4. CASE x \in ToSet(stack)
    <3>1. q \in HasStatus({"Evaluating"})
      BY <2>3, <2>4, <1>w, <1>t DEF Walked
    <3> QED
      BY <3>1, <2>1, <2>2, <2>3, <1>d, <1>t
  <2>5. CASE x \notin ToSet(stack)
    <3>1. md[x].error
      BY <2>5, <1>d
    <3>2. md[q].error
      BY <3>1, <2>1, <2>2, <1>t, WalkReported
    <3> QED
      BY <3>2, <2>1, <2>2, <2>3, <1>d
  <2> QED
    BY <2>4, <2>5
<1>3. WalkWaits'
  <2>1. \A x \in Module : ~ Executing(x)'
    BY <1>f DEF Executing
  <2>2. HasStatus({"Evaluating"})' = {}
    BY <1>d, <1>k DEF HasStatus
  <2>3. Walked'
    BY <2>1, <2>2 DEF Walked
  <2>4. TreeWalk' /\ RequestsWalk'
    BY <2>2 DEF TreeWalk, RequestsWalk
  <2> QED
    BY <2>3, <2>4 DEF WalkWaits
<1>c. /\ \A x \in Rooted : x \in Module /\ x \in Rooted' /\ x \notin ToSet(stack)
      /\ \A x \in Rooted' : x \in Module /\ (x \in Rooted \/ x \in ToSet(stack))
  BY <1>d, <1>k DEF Rooted, HasStatus
<1>j. ASSUME NEW x \in Rooted', x \in ToSet(stack)
      PROVE  /\ md'[x].cycleRoot = x /\ requests[x] = << >>
             /\ x \notin done /\ running[x] = 0
  <2>1. x \in Module /\ md[x].cycleRoot # None /\ md[x].status = "Evaluating"
    BY <1>j, <1>d, <1>k DEF Rooted, HasStatus
  <2>2. kind[x] = "json" /\ md[x].cycleRoot = x
    BY <2>1, <1>t DEF RootsAgree
  <2>3. requests[x] = << >>
    BY <2>1, <2>2, <1>t DEF Types
  <2>4. Executing(x)
    <3>1. PICK out : Walking("moduleEvaluation", "innerModuleEvaluation", "Evaluating", out)
      BY DEF InEvaluation
    <3>2. Tarjan(requests, frames, ToSet(stack), DfsIndex, DfsAncestorIndex, index, out)
      BY <3>1 DEF Walking
    <3>3. \E i \in Inner(frames) : frames[i].m = x
      BY <3>2, <2>3, <1>j, EmptyIsRoot
    <3> QED
      BY <3>3, EvaluationCalls
  <2>5. runs[x] = 0
    BY <2>1, <2>4, <1>w DEF Walked
  <2>6. x \notin done /\ running[x] = 0
    <3>1. running[x] \in Nat /\ ~ (running[x] > 0)
      BY <2>1, <2>5, <1>w DEF Bookkeeping, Bodies, HistoryTypes
    <3> QED
      BY <3>1, <2>5, <1>w DEF Bookkeeping, Bodies
  <2> QED
    BY <2>1, <2>2, <2>3, <2>6, <1>d
<1>4. Findings'
  <2>f. Outcomes /\ Found /\ Starts
    BY <1>w DEF Findings
  <2>1. Outcomes'
    <3>1. ASSUME NEW x \in Rooted'
          PROVE  /\ x \in done' \/ md'[x].asyncEvaluating \/ md'[x].error
                 /\ md'[x].error => x \notin done' /\ running'[x] = 0
      <4>1. CASE x \in Rooted
        BY <4>1, <2>f, <1>d, <1>c DEF Outcomes
      <4>2. CASE x \in ToSet(stack)
        BY <4>2, <1>d, <1>c, <1>j
      <4> QED
        BY <4>1, <4>2, <1>c
    <3> QED
      BY <3>1 DEF Outcomes
  <2>g. Grows
    BY <1>c, <1>d DEF Grows, Parents
  <2>2. ASSUME NEW y \in Rooted' PROVE TreeOf(y)' /\ RequestsOf(y)'
    <3>1. CASE y \in Rooted
      BY <3>1, <2>f, <2>g, FoundGrows DEF Found
    <3>2. CASE y \in ToSet(stack)
      <4>1. md'[y].cycleRoot = y /\ requests'[y] = << >>
        BY <3>2, <1>j
      <4> QED
        BY <4>1 DEF TreeOf, RequestsOf
    <3> QED
      BY <3>1, <3>2, <1>c
  <2>3. ASSUME NEW y \in Module, runs'[y] > 0 PROVE StartOf(y)'
    <3>1. StartOf(y)
      BY <2>3, <2>f, <1>r DEF Starts
    <3> QED
      BY <3>1, <1>t, StartGrows
  <2> QED
    BY <2>1, <2>2, <2>3 DEF Findings, Found, Starts
<1>5. ImportsMove
  <2>1. Capable'
    <3>1. Capable
      BY ImportsParts
    <3>2. ASSUME NEW x \in Module, md'[x].topLevelCapability # "none" PROVE md'[x].status \in Started
      <4>1. CASE x = call.m
        BY <4>1, <1>d DEF Started
      <4>2. CASE x # call.m
        <5>1. frames[Len(frames)].m = call.m
          BY DEF InEvaluation, Walking
        <5>2. md[x].status \in Started
          BY <5>1, <4>2, <3>1, <3>2, <1>d DEF Capable
        <5> QED
          BY <5>2, <1>d DEF Started
      <4> QED
        BY <4>1, <4>2
    <3> QED
      BY <3>2, <1>f DEF Capable
  <2>2. \A x \in Module : /\ md[x].status = "Evaluated" => md'[x].status = "Evaluated"
                          /\ md[x].error => md'[x].error
                          /\ md'[x].asyncPendingPromises = md[x].asyncPendingPromises
    BY <1>d
  <2> QED
    BY <2>1, <2>2, <1>i, <1>f DEF ImportsMove, NoCall
<1> QED
  BY <1>1, <1>2, <1>3, <1>4, <1>5, <1>t, ImportsKept DEF Waits

\* The call in progress is for a module that has started.
LEMMA EntryStarted ==
  ASSUME ModulesInv, RootsAgree, InEvaluation, Len(frames) > 1
  PROVE  md[call.m].status \in Started
<1>1. PICK out : Walking("moduleEvaluation", "innerModuleEvaluation", "Evaluating", out)
  BY DEF InEvaluation
<1>2. PICK n : n = Len(frames)
  OBVIOUS
<1>3. /\ Tarjan(requests, frames, ToSet(stack), DfsIndex, DfsAncestorIndex, index, out)
      /\ frames[n].m = call.m /\ ToSet(stack) = HasStatus({"Evaluating"})
  BY <1>1, <1>2 DEF Walking
<1>4. n \in Nat /\ n > 1 /\ n # 1
  <2>1. n \in Nat /\ n > 1
    BY <1>2 DEF ModulesInv, Types
  <2> QED
    BY ONLY <2>1
<1>5. n - 1 \in Inner(frames)
  <2>1. n - 1 \in 1 .. n - 1
    BY ONLY <1>4
  <2> QED
    BY <2>1, <1>2 DEF Inner
<1>6. frames[n - 1].m \in ToSet(stack)
  BY <1>3, <1>5 DEF Tarjan, Indices
<1>7. frames[n - 1].m = frames[n].m
  BY <1>2, <1>3, <1>4 DEF Tarjan, Bottom
<1> QED
  BY <1>3, <1>6, <1>7 DEF HasStatus, Started

LEMMA EvaluateReturnsWaits ==
  ASSUME ModulesInv, RootsAgree, Waits, ImportsWait, EvaluateReturns
  PROVE  Waits' /\ ImportsWait'
<1>o. In("moduleEvaluation") /\ Top.i = 1
  BY DEF EvaluateReturns
<1>t. /\ Types /\ InEvaluation /\ Len(frames) = 1 /\ NoCalls
      /\ Top = frames[1] /\ frames[Len(frames)] = frames[1] /\ frames # << >>
      /\ Top.m = call.m /\ frames[1].m = call.m /\ call.m \in Module
      /\ \A x \in Module : md[x].status \notin WalkStatuses /\ md[x].status # "Evaluating"
  BY <1>o, OuterCall
<1>u. UNCHANGED <<requests, jobs, running, runs, deps, done, escaped>>
  BY DEF EvaluateReturns, env, scenario, history
<1>y. md \in [Module -> Records]
  BY <1>t DEF Types
<1>m. PICK m : m = call.m
  OBVIOUS
<1>1. m \in Module /\ m = Top.m /\ frames[1].m = m /\ md[m].status # "Evaluating"
  BY <1>m, <1>t
<1>2. CASE NeedsEvaluation(m)
  <2>1. Enter("innerModuleEvaluation", m, "Evaluating") /\ call' = call /\ imports' = imports
    BY <1>2, <1>1 DEF EvaluateReturns
  <2>2. md[m].status = "Linked"
    <3>1. m \in LinkedOrMore
      BY <1>t, <1>m DEF InEvaluation
    <3> QED
      BY <3>1, <1>2 DEF LinkedOrMore, HasStatus, NeedsEvaluation
  <2>3. Len(frames) = 1 /\ frames[1].m = m
    BY <1>t, <1>1
  <2> QED
    BY <2>1, <2>2, <2>3, <1>1, <1>t, <1>u, EnterWaits
<1>3. CASE ~ NeedsEvaluation(m) /\ index = 0 /\ md[m].error
  <2>1. FailWalk
    BY <1>3, <1>1 DEF EvaluateReturns
  <2>2. md[call.m].status \in Started
    BY <1>3, <1>m DEF NeedsEvaluation, Started
  <2>3. StartsBody
    BY <1>u DEF StartsBody
  <2> QED
    BY <2>1, <2>2, <2>3, <1>t, <1>u, FailWalkWaits
<1>4. CASE ~ NeedsEvaluation(m) /\ ~ (index = 0 /\ md[m].error)
  <2>1. PICK data : data = IF md[m].asyncEvaluating THEN md ELSE [md EXCEPT ![m].topLevelCapability = "resolved"]
    OBVIOUS
  <2>2. CallReturns(data)
    BY <2>1, <1>4, <1>1 DEF EvaluateReturns
  <2>3. md[m].status = "Evaluated"
    BY <1>1, <1>4 DEF NeedsEvaluation
  <2>4. \A x \in Module : md[x].topLevelCapability # "none" => md[x].status \in Started
    <3>1. Capable
      BY ImportsParts
    <3>2. \A x \in Module : md[x].topLevelCapability # "none" => md[x].status \in Started \/ x = m
      BY <3>1, <1>1, <1>t DEF Capable
    <3> QED
      BY <3>2, <2>3 DEF Started
  <2>5. AlikeData(data) /\ data \in [Module -> Records]
    <3>1. CASE md[m].asyncEvaluating
      BY <3>1, <2>1, <2>4, <1>y DEF AlikeData, SameWaits
    <3>2. CASE ~ md[m].asyncEvaluating
      <4>1. PICK e, f : e = md[m] /\ f = [e EXCEPT !.topLevelCapability = "resolved"]
        OBVIOUS
      <4>2. e \in Records
        BY <4>1, <1>1, <1>y
      <4>3. /\ SameWaits(f, e) /\ f.status = e.status /\ f.dfsIndex = e.dfsIndex
            /\ f.asyncPendingPromises = e.asyncPendingPromises /\ f \in Records
        BY ONLY <4>1, <4>2 DEF Records, SameWaits
      <4>4. data = [md EXCEPT ![m] = f]
        BY <4>1, <3>2, <2>1, <1>1, <1>y
      <4>5. data[m] = f /\ (\A x \in Module \ {m} : data[x] = md[x]) /\ data \in [Module -> Records]
        BY <4>3, <4>4, <1>1, <1>y
      <4>6. \A x \in Module : x # m => SameWaits(data[x], md[x]) /\ data[x] = md[x]
        BY <4>5 DEF SameWaits
      <4>7. m \in Module /\ data[m].status \in Started
        BY <4>1, <4>3, <4>5, <2>3, <1>1 DEF Started
      <4>8. SameWaits(data[m], md[m])
        BY <4>1, <4>3, <4>5
      <4>9. ASSUME NEW x \in Module
            PROVE  /\ SameWaits(data[x], md[x])
                   /\ data[x].status = md[x].status /\ data[x].dfsIndex = md[x].dfsIndex
                   /\ data[x].asyncPendingPromises = md[x].asyncPendingPromises
                   /\ data[x].topLevelCapability # "none" => data[x].status \in Started
        <5>1. CASE x = m
          BY <5>1, <4>1, <4>3, <4>5, <4>7, <4>8
        <5>2. CASE x # m
          BY <5>2, <4>6, <2>4
        <5> QED
          BY <5>1, <5>2
      <4> QED
        BY <4>5, <4>9 DEF AlikeData
    <3> QED
      BY <3>1, <3>2
  <2>6. md[call.m].status = "Evaluated"
    BY <2>3, <1>m
  <2> QED
    BY <2>2, <2>5, <2>6, <1>t, <1>u, ReturnWaits
<1> QED
  BY <1>2, <1>3, <1>4

-----------------------------------------------------------------------------
(* Evaluation: a call ends                                                  *)

\* The innermost call, which is the only one for its module.
LEMMA InnermostCall ==
  ASSUME ModulesInv, RootsAgree, InEvaluation, Len(frames) > 1, NEW m, m = frames[1].m
  PROVE  /\ Executing(m) /\ m \in Module /\ md[m].status = "Evaluating"
         /\ frames[1].fn = "innerModuleEvaluation" /\ 1 \in Inner(frames) /\ frames[1].i \in Nat
         /\ \A j \in 1 .. Len(frames) : frames[j].fn = "innerModuleEvaluation" /\ frames[j].m = m => j = 1
         /\ \A x \in Module : Executing(x) => md[x].dfsIndex <= md[m].dfsIndex
         /\ frames[Len(frames)].fn = "moduleEvaluation" /\ frames[Len(frames)].i = 1
<1>1. PICK out : Walking("moduleEvaluation", "innerModuleEvaluation", "Evaluating", out)
  BY DEF InEvaluation
<1>2. PICK n : n = Len(frames)
  OBVIOUS
<1>3. n \in Nat /\ n > 1 /\ n # 1 /\ frames \in Seq(FrameSet)
  <2>1. n \in Nat /\ n > 1 /\ frames \in Seq(FrameSet)
    BY <1>2 DEF ModulesInv, Types
  <2> QED
    BY <2>1
<1>4. 1 \in 1 .. n - 1 /\ 1 \in 1 .. n /\ \A j \in 1 .. n : j \in 1 .. n - 1 \/ j = n
  BY ONLY <1>3
<1>5. 1 \in Inner(frames) /\ \A j \in 1 .. Len(frames) : j \in Inner(frames) \/ j = Len(frames)
  BY <1>2, <1>4 DEF Inner
<1>6. Executing(m)
  BY <1>5, EvaluationCalls
<1>7. m \in Module /\ md[m].status = "Evaluating"
  BY <1>6, EvaluationCalls
<1>8. /\ frames[Len(frames)].fn = "moduleEvaluation"
      /\ \A j \in Inner(frames) : frames[j].fn = "innerModuleEvaluation"
      /\ Tarjan(requests, frames, ToSet(stack), DfsIndex, DfsAncestorIndex, index, out)
  BY <1>1 DEF Walking
<1>9. frames[Len(frames)].i = 1
  BY <1>2, <1>3 DEF InEvaluation
<1>10. frames[1].i \in Nat
  <2>1. frames[1] \in FrameSet
    BY <1>2, <1>3, <1>4
  <2> QED
    BY <2>1 DEF FrameSet
<1>11. ASSUME NEW j \in 1 .. Len(frames), frames[j].fn = "innerModuleEvaluation", frames[j].m = m
       PROVE  j = 1
  <2>1. j \in Inner(frames)
    BY <1>5, <1>8, <1>11
  <2>2. 1 < j => DfsIndex[frames[j].m] < DfsIndex[frames[1].m]
    BY <2>1, <1>5, <1>8 DEF Tarjan, Indices
  <2>3. ~ (DfsIndex[m] < DfsIndex[m])
    <3>1. DfsIndex[m] \in Nat
      BY <1>7 DEF DfsIndex, ModulesInv, Types, Records
    <3> QED
      BY <3>1
  <2>4. ~ (1 < j)
    BY <2>2, <2>3, <1>11
  <2>5. j \in 1 .. n
    BY <1>2
  <2> QED
    BY ONLY <2>4, <2>5, <1>3
<1>12. \A x \in Module : Executing(x) => md[x].dfsIndex <= md[m].dfsIndex
  BY EvaluationCalls
<1> QED
  BY <1>5, <1>6, <1>7, <1>8, <1>9, <1>10, <1>11, <1>12

\* At the end of a call all its requests were looked at.
LEMMA PastAll ==
  ASSUME ModulesInv, RootsAgree, InEvaluation, Len(frames) > 1, NEW m, m = frames[1].m, Len(requests[m]) < frames[1].i,
         NEW k \in 1 .. Len(requests[m])
  PROVE  Past(m, k)
<1> SUFFICES ASSUME NEW j \in 1 .. Len(frames), frames[j].fn = "innerModuleEvaluation", frames[j].m = m
             PROVE  k < frames[j].i
  BY DEF Past
<1>1. j = 1 /\ m \in Module /\ frames[1].i \in Nat
  BY InnermostCall
<1>2. Len(requests[m]) \in Nat
  BY <1>1 DEF ModulesInv, Types
<1> QED
  BY <1>1, <1>2

\* A call ends with nothing registered: its body may start.
LEMMA ReadyAtEnd ==
  ASSUME ModulesInv, RootsAgree, Waits, InEvaluation, Len(frames) > 1, NEW m, m = frames[1].m, Len(requests[m]) < frames[1].i,
         md[m].pendingAsyncDependencies = 0 \/ requests[m] = << >>
  PROVE  StartOf(m) /\ deps[m] = 0
<1>t. Types /\ Walked /\ RequestsWalk /\ Registered
  BY DEF ModulesInv, Waits, WalkWaits, Bookkeeping
<1>1. Executing(m) /\ m \in Module /\ md[m].status = "Evaluating"
  BY InnermostCall
<1>2. deps[m] = 0
  <2>1. CASE md[m].pendingAsyncDependencies = 0
    BY <2>1, <1>1, <1>t DEF Walked
  <2>2. CASE requests[m] = << >>
    BY <2>2, <1>1, <1>t DEF Registered
  <2> QED
    BY <2>1, <2>2
<1>3. ASSUME NEW k \in 1 .. Len(requests[m])
      PROVE  SameCycle(m, requests[m][k]) \/ AllDone(requests[m][k])
  <2>1. PICK r : r = requests[m][k]
    OBVIOUS
  <2>2. Past(m, k) /\ m \in HasStatus({"Evaluating"})
    BY <1>1, PastAll DEF HasStatus
  <2>3. Seen(m, requests[m][k])
    BY <2>2, <1>t DEF RequestsWalk
  <2>4. r \in Module /\ Reaches(m, r)
    <3>1. requests \in [Module -> Seq(Module)]
      BY <1>t DEF Types
    <3> QED
      BY <3>1, <2>1, <1>1, ReachesRequest DEF Reaches
  <2>5. CASE r \in HasStatus({"Evaluating"})
    <3>1. PICK out : Walking("moduleEvaluation", "innerModuleEvaluation", "Evaluating", out)
      BY DEF InEvaluation
    <3>2. /\ Tarjan(requests, frames, ToSet(stack), DfsIndex, DfsAncestorIndex, index, out)
          /\ r \in ToSet(stack)
      BY <3>1, <2>5 DEF Walking
    <3>3. ReachesIn(requests, r, frames[1].m)
      BY <3>2, StackReaches
    <3> QED
      BY <3>3, <2>1, <2>4 DEF SameCycle, Reaches
  <2>6. CASE r \in Rooted /\ AllDone(r)
    BY <2>1, <2>6
  <2>7. CASE r \in Rooted /\ m \in ToSet(Parents(md[r].cycleRoot))
    <3>1. PICK q : q = md[r].cycleRoot
      OBVIOUS
    <3>2. q \in Module
      BY <3>1, <2>7, RootIsComplete
    <3>3. Parents(q) \in Seq(Module)
      BY <3>2, <1>t DEF Types, Records, Parents
    <3>4. PICK i \in 1 .. Len(Parents(q)) : Parents(q)[i] = m
      BY <3>1, <3>3, <2>7 DEF ToSet
    <3>5. deps[m] > 0
      BY <3>2, <3>4, <1>t DEF Registered
    <3> QED
      BY <3>5, <1>2
  <2> QED
    BY <2>1, <2>3, <2>5, <2>6, <2>7 DEF Seen
<1> QED
  BY <1>2, <1>3 DEF StartOf

LEMMA TailCalls ==
  ASSUME ModulesInv, RootsAgree, InEvaluation, Len(frames) > 1, NEW m, m = frames[1].m, frames' = Tail(frames)
  PROVE  /\ frames' \in Seq(WalkFrames) /\ Len(frames') = Len(frames) - 1 /\ frames' # << >>
         /\ \A j \in 1 .. Len(frames') : j + 1 \in 1 .. Len(frames) /\ frames'[j] = frames[j + 1]
         /\ frames'[Len(frames')] = frames[Len(frames)]
         /\ \A x : Executing(x)' <=> Executing(x) /\ x # m
         /\ \A x, k : x # m /\ Past(x, k)' => Past(x, k)
<1>1. frames \in Seq(WalkFrames) /\ frames # << >> /\ Len(frames) \in Nat
  BY EvaluationCalls
<1>2. /\ frames' \in Seq(WalkFrames) /\ Len(frames') = Len(frames) - 1
      /\ \A j \in 1 .. Len(frames') : frames'[j] = frames[j + 1]
  BY ONLY <1>1, frames' = Tail(frames), SMTT(30)
<1>3. PICK n, n1 : n = Len(frames) /\ n1 = Len(frames')
  OBVIOUS
<1>4. n \in Nat /\ n > 1 /\ n1 = n - 1
  BY <1>1, <1>2, <1>3
<1>5. /\ n1 \in Nat /\ n1 >= 1 /\ n1 \in 1 .. n1 /\ n1 + 1 = n
      /\ \A j \in 1 .. n1 : j + 1 \in 1 .. n /\ j + 1 # 1
      /\ \A j \in 1 .. n : j = 1 \/ (j - 1 \in 1 .. n1 /\ (j - 1) + 1 = j)
  BY ONLY <1>4
<1>6. /\ frames' # << >> /\ frames'[Len(frames')] = frames[Len(frames)]
      /\ \A j \in 1 .. Len(frames') : j + 1 \in 1 .. Len(frames)
  <2>1. frames' # << >>
    <3>1. n1 # 0
      BY ONLY <1>5
    <3>2. Len(frames') # 0
      BY <3>1, <1>3
    <3>3. CASE frames' = << >>
      <4>1. Len(frames') = 0
        BY ONLY <3>3
      <4> QED
        BY <4>1, <3>2
    <3> QED
      BY <3>3
  <2>2. frames'[n1] = frames[n1 + 1]
    BY <1>2, <1>3, <1>5
  <2>3. frames'[Len(frames')] = frames[Len(frames)]
    BY <2>2, <1>3, <1>5
  <2> QED
    BY <2>1, <2>3, <1>3, <1>5
<1>7. frames[1].fn = "innerModuleEvaluation"
      /\ \A j \in 1 .. Len(frames) : frames[j].fn = "innerModuleEvaluation" /\ frames[j].m = m => j = 1
  BY InnermostCall
<1>8. ASSUME NEW j \in 1 .. Len(frames), j # 1
      PROVE  j - 1 \in 1 .. Len(frames') /\ frames'[j - 1] = frames[j]
  BY <1>2, <1>3, <1>5, <1>8
<1>9. ASSUME NEW x, Executing(x)' PROVE Executing(x) /\ x # m
  <2>1. PICK j \in 1 .. Len(frames') : frames'[j].fn = "innerModuleEvaluation" /\ frames'[j].m = x
    BY <1>9 DEF Executing
  <2>2. j + 1 \in 1 .. Len(frames) /\ frames'[j] = frames[j + 1] /\ j + 1 # 1
    BY <1>2, <1>3, <1>5
  <2> QED
    BY <2>1, <2>2, <1>7 DEF Executing
<1>10. ASSUME NEW x, Executing(x), x # m PROVE Executing(x)'
  <2>1. PICK j \in 1 .. Len(frames) : frames[j].fn = "innerModuleEvaluation" /\ frames[j].m = x
    BY <1>10 DEF Executing
  <2>2. j # 1
    BY <2>1, <1>10
  <2>3. j - 1 \in 1 .. Len(frames') /\ frames'[j - 1] = frames[j]
    BY <2>2, <1>8
  <2> QED
    BY <2>1, <2>3 DEF Executing
<1>11. ASSUME NEW x, NEW k, x # m, Past(x, k)' PROVE Past(x, k)
  <2> SUFFICES ASSUME NEW j \in 1 .. Len(frames), frames[j].fn = "innerModuleEvaluation", frames[j].m = x
               PROVE  k < frames[j].i
    BY DEF Past
  <2>1. j # 1
    BY <1>11
  <2>2. j - 1 \in 1 .. Len(frames') /\ frames'[j - 1] = frames[j]
    BY <2>1, <1>8
  <2> QED
    BY <2>2, <1>11 DEF Past
<1> QED
  BY <1>2, <1>6, <1>9, <1>10, <1>11

\* How the innermost call may end.
Ended(m, data) ==
    /\ data \in [Module -> Records]
    /\ \A x \in Module \ {m} : data[x] = md[x]
    /\ data[m].status = md[m].status /\ data[m].cycleRoot = md[m].cycleRoot
    /\ data[m].dfsIndex = md[m].dfsIndex /\ data[m].dfsAncestorIndex = md[m].dfsAncestorIndex
    /\ data[m].asyncParentModules = md[m].asyncParentModules
    /\ data[m].pendingAsyncDependencies = md[m].pendingAsyncDependencies
    /\ SameImport(data[m], md[m])
    /\ runs' \in [Module -> Nat] /\ running' \in [Module -> Nat]
    /\ \A x \in Module \ {m} : runs'[x] = runs[x] /\ running'[x] = running[x]
    /\ done \subseteq done' /\ done' \subseteq done \union {m}
    /\ runs'[m] > 0 => StartOf(m) /\ deps[m] = 0
    /\ m \in done' => runs'[m] > 0 /\ running'[m] = 0 /\ ~ data[m].error
    /\ running'[m] > 0 => running'[m] = 1 /\ runs'[m] > 0
    /\ m \in done' \/ data[m].asyncEvaluating \/ data[m].error
    /\ data[m].error => requests[m] = << >> /\ running'[m] = 0

\* The set P is popped.
Pops(m, data, P) ==
    /\ P \subseteq HasStatus({"Evaluating"}) /\ P \subseteq Module
    /\ \A x \in Module :
          /\ md'[x].status = IF x \in P THEN "Evaluated" ELSE md[x].status
          /\ md'[x].cycleRoot = IF x \in P THEN m ELSE md[x].cycleRoot
          /\ md'[x].asyncParentModules = md[x].asyncParentModules
          /\ md'[x].pendingAsyncDependencies = md[x].pendingAsyncDependencies
          /\ md'[x].dfsIndex = md[x].dfsIndex
          /\ SameImport(md'[x], md[x])
          /\ x # m => md'[x].error = md[x].error /\ md'[x].asyncEvaluating = md[x].asyncEvaluating
    /\ md'[m].error = data[m].error /\ md'[m].asyncEvaluating = data[m].asyncEvaluating
    /\ P # {} => m \in P /\ \A x \in HasStatus({"Evaluating"}) : x \in P <=> md[m].dfsIndex <= md[x].dfsIndex
    /\ \A x \in P : \A k \in 1 .. Len(requests[x]) : requests[x][k] \in Rooted \union P
    /\ \A x \in P : x # m => ~ Executing(x)
    /\ P = {} => md[m].dfsAncestorIndex # md[m].dfsIndex

LEMMA PopData ==
  ASSUME ModulesInv, RootsAgree, InEvaluation, Len(frames) > 1, NEW m, m = frames[1].m, Len(requests[m]) < frames[1].i,
         NEW data, Ended(m, data), PopCycle(m, data)
  PROVE  \E P : Pops(m, data, P)
<1>t. Types
  BY DEF ModulesInv
<1>y. md \in [Module -> Records]
  BY <1>t DEF Types
<1>w. PICK out : out = Rooted
  OBVIOUS
<1>1. Walking("moduleEvaluation", "innerModuleEvaluation", "Evaluating", out)
  BY <1>w DEF InEvaluation, RootsAgree
<1>2. m \in Module /\ md[m].status = "Evaluating"
  BY InnermostCall
<1>d. data \in [Module -> Records] /\ \A x \in Module :
          /\ data[x].status = md[x].status /\ data[x].cycleRoot = md[x].cycleRoot
          /\ data[x].dfsIndex = md[x].dfsIndex
          /\ data[x].asyncParentModules = md[x].asyncParentModules
          /\ data[x].pendingAsyncDependencies = md[x].pendingAsyncDependencies
          /\ SameImport(data[x], md[x])
          /\ x # m => data[x].error = md[x].error /\ data[x].asyncEvaluating = md[x].asyncEvaluating
  <2>1. \A x \in Module : x # m => data[x] = md[x] /\ SameImport(data[x], md[x])
    BY DEF Ended, SameImport
  <2> QED
    BY <2>1 DEF Ended
<1>3. CASE ~ IsCycleRoot(m)
  <2>1. md' = data
    BY <1>3 DEF PopCycle
  <2>2. md[m].dfsAncestorIndex # md[m].dfsIndex
    BY <1>3 DEF IsCycleRoot
  <2>3. Pops(m, data, {})
    BY <2>1, <2>2, <1>d DEF Pops
  <2> QED
    BY <2>3
<1>4. CASE IsCycleRoot(m)
  <2>1. PICK P : P = ToSet(Popped(m))
    OBVIOUS
  <2>2. md' = [x \in Module |-> IF x \in P
                 THEN [data[x] EXCEPT !.status = "Evaluated", !.cycleRoot = m] ELSE data[x]]
    BY <2>1, <1>4 DEF PopCycle
  <2>3. md[m].dfsAncestorIndex = md[m].dfsIndex
    BY <1>4 DEF IsCycleRoot
  <2>4. /\ m \in P /\ P \subseteq ToSet(stack)
        /\ \A x \in P : \A k \in 1 .. Len(requests[x]) : requests[x][k] \in out \union P
        /\ \A x \in P : x # m => \A j \in Inner(frames) : frames[j].m # x
    BY <2>1, <2>3, <1>1, <1>t, PoppedIsCycle
  <2>5. stack \in Seq(Module) /\ DfsIndex \in [Module -> Nat] /\ Ordered(stack, DfsIndex)
        /\ ToSet(stack) = HasStatus({"Evaluating"})
    BY <1>1, <1>t DEF Walking, Types, DfsIndex, Records
  <2>6. P = Segment(ToSet(stack), DfsIndex, m)
    <3>1. PICK d : d = DfsIndex
      OBVIOUS
    <3>2. stack \in Seq(Module) /\ d \in [Module -> Nat] /\ Ordered(stack, d) /\ m \in ToSet(stack)
      BY <3>1, <2>4, <2>5
    <3>3. ToSet(Popped(m)) = Segment(ToSet(stack), d, m)
      BY ONLY <3>2, PoppedSegment
    <3> QED
      BY <3>1, <3>3, <2>1
  <2>7. \A x \in HasStatus({"Evaluating"}) : x \in P <=> md[m].dfsIndex <= md[x].dfsIndex
    BY <2>5, <2>6, <1>2 DEF Segment, DfsIndex, HasStatus
  <2>8. P \subseteq HasStatus({"Evaluating"}) /\ P \subseteq Module
    BY <2>4, <2>5 DEF HasStatus
  <2>9. \A x \in P : x # m => ~ Executing(x)
    BY <2>4, EvaluationCalls
  <2>10. ASSUME NEW x \in Module
         PROVE  /\ md'[x].status = IF x \in P THEN "Evaluated" ELSE data[x].status
                /\ md'[x].cycleRoot = IF x \in P THEN m ELSE data[x].cycleRoot
                /\ md'[x].asyncParentModules = data[x].asyncParentModules
                /\ md'[x].pendingAsyncDependencies = data[x].pendingAsyncDependencies
                /\ md'[x].dfsIndex = data[x].dfsIndex
                /\ SameImport(md'[x], data[x])
                /\ md'[x].error = data[x].error /\ md'[x].asyncEvaluating = data[x].asyncEvaluating
    <3>1. CASE x \in P
      <4>1. PICK e, f : e = data[x] /\ f = [e EXCEPT !.status = "Evaluated", !.cycleRoot = m]
        OBVIOUS
      <4>2. e \in Records
        BY <4>1, <1>d
      <4>3. /\ f.status = "Evaluated" /\ f.cycleRoot = m /\ f.asyncParentModules = e.asyncParentModules
            /\ f.pendingAsyncDependencies = e.pendingAsyncDependencies /\ f.dfsIndex = e.dfsIndex
            /\ SameImport(f, e) /\ f.error = e.error /\ f.asyncEvaluating = e.asyncEvaluating
        BY ONLY <4>1, <4>2 DEF Records, SameImport
      <4>4. md'[x] = f
        BY <4>1, <3>1, <2>2
      <4> QED
        BY <4>1, <4>3, <4>4, <3>1
    <3>2. CASE x \notin P
      <4>1. md'[x] = data[x]
        BY <3>2, <2>2
      <4> QED
        BY <4>1, <3>2 DEF SameImport
    <3> QED
      BY <3>1, <3>2
  <2>11. ASSUME NEW x \in Module
         PROVE  /\ md'[x].status = IF x \in P THEN "Evaluated" ELSE md[x].status
                /\ md'[x].cycleRoot = IF x \in P THEN m ELSE md[x].cycleRoot
                /\ md'[x].asyncParentModules = md[x].asyncParentModules
                /\ md'[x].pendingAsyncDependencies = md[x].pendingAsyncDependencies
                /\ md'[x].dfsIndex = md[x].dfsIndex
                /\ SameImport(md'[x], md[x])
                /\ x # m => md'[x].error = md[x].error /\ md'[x].asyncEvaluating = md[x].asyncEvaluating
    BY <2>10, <1>d DEF SameImport
  <2>12. md'[m].error = data[m].error /\ md'[m].asyncEvaluating = data[m].asyncEvaluating
    BY <2>10, <1>2
  <2>13. Pops(m, data, P)
    BY <2>4, <2>7, <2>8, <2>9, <2>11, <2>12, <1>w DEF Pops
  <2> QED
    BY <2>13
<1> QED
  BY <1>3, <1>4

LEMMA PopBooks ==
  ASSUME ModulesInv, RootsAgree, Waits, InEvaluation, Len(frames) > 1, NEW m, m = frames[1].m,
         NEW data, Ended(m, data), NEW P, Pops(m, data, P), UNCHANGED <<requests, jobs, deps>>
  PROVE  Bookkeeping'
<1>t. Types
  BY DEF ModulesInv
<1>b. HistoryTypes /\ Fresh /\ Registered /\ Waiting /\ Bodies /\ Walked
  BY DEF Waits, Bookkeeping, WalkWaits
<1>1. Executing(m) /\ m \in Module /\ md[m].status = "Evaluating"
  BY InnermostCall
<1>2. runs[m] = 0 /\ Parents(m) = << >>
  BY <1>1, <1>b DEF Walked
<1>d. \A x \in Module :
          /\ md'[x].status = md[x].status \/ (x \in P /\ md'[x].status = "Evaluated")
          /\ md'[x].pendingAsyncDependencies = md[x].pendingAsyncDependencies
          /\ x # m => md'[x].error = md[x].error /\ md'[x].asyncEvaluating = md[x].asyncEvaluating
  BY DEF Pops
<1>p. \A x \in Module : Parents(x)' = Parents(x) /\ Parents(x) \in Seq(Module)
  BY <1>t DEF Pops, Parents, Types, Records
<1>r. /\ runs' \in [Module -> Nat] /\ running' \in [Module -> Nat]
      /\ \A x \in Module : x # m => runs'[x] = runs[x] /\ running'[x] = running[x]
      /\ done \subseteq done' /\ done' \subseteq done \union {m}
      /\ runs'[m] > 0 => deps[m] = 0
      /\ m \in done' => runs'[m] > 0 /\ running'[m] = 0
      /\ running'[m] > 0 => running'[m] = 1 /\ runs'[m] > 0
  BY DEF Ended
<1>3. HistoryTypes'
  BY <1>b, <1>r, <1>1 DEF HistoryTypes
<1>4. Fresh'
  <2> SUFFICES ASSUME NEW x \in Module, md'[x].status \notin Started
               PROVE  /\ runs'[x] = 0 /\ deps'[x] = 0 /\ md'[x].pendingAsyncDependencies = 0
                      /\ ~ md'[x].asyncEvaluating /\ ~ md'[x].error /\ Parents(x)' = << >>
    BY DEF Fresh
  <2>1. md[x].status \notin Started /\ x # m
    BY <1>d, <1>1 DEF Started
  <2>2. /\ runs[x] = 0 /\ deps[x] = 0 /\ md[x].pendingAsyncDependencies = 0
        /\ ~ md[x].asyncEvaluating /\ ~ md[x].error /\ Parents(x) = << >>
    BY <2>1, <1>b DEF Fresh
  <2> QED
    BY <2>1, <2>2, <1>d, <1>p, <1>r
<1>5. Registered'
  <2>1. \A x \in Module : requests'[x] = << >> => deps'[x] = 0
    BY <1>b DEF Registered
  <2>2. \A x \in Module : \A i \in 1 .. Len(Parents(x)') : deps'[Parents(x)'[i]] > 0
    BY <1>b, <1>p DEF Registered
  <2>3. \A x, y \in Module : \A i \in 1 .. Len(Parents(x)') : \A j \in 1 .. Len(Parents(y)') :
          Parents(x)'[i] = Parents(y)'[j] => x = y /\ i = j
    BY <1>b, <1>p DEF Registered
  <2> QED
    BY <2>1, <2>2, <2>3 DEF Registered
<1>6. Waiting'
  <2> SUFFICES ASSUME NEW x \in Module, x \notin done' \/ md'[x].asyncEvaluating,
                      NEW i \in 1 .. Len(Parents(x)')
               PROVE  runs'[Parents(x)'[i]] = 0
    BY DEF Waiting
  <2>0. i \in 1 .. Len(Parents(x)) /\ Parents(x) \in Seq(Module) /\ Parents(x)'[i] = Parents(x)[i]
    BY <1>p
  <2>1. x # m
    <3>1. CASE x = m
      <4>1. i \in 1 .. Len(<< >>)
        BY <3>1, <2>0, <1>2
      <4> QED
        BY <4>1
    <3> QED
      BY <3>1
  <2>2. x \notin done \/ md[x].asyncEvaluating
    BY <2>1, <1>d, <1>r
  <2>3. PICK q : q = Parents(x)[i]
    OBVIOUS
  <2>4. q \in Module
    BY <2>0, <2>3
  <2>5. runs[q] = 0 /\ deps[q] > 0
    BY <2>0, <2>2, <2>3, <1>b DEF Waiting, Registered
  <2>6. runs'[q] = 0
    <3>1. CASE q = m
      <4>1. runs'[m] \in Nat /\ ~ (runs'[m] > 0)
        BY <3>1, <2>5, <1>r, <1>1
      <4> QED
        BY <4>1, <3>1
    <3>2. CASE q # m
      BY <3>2, <2>4, <2>5, <1>r
    <3> QED
      BY <3>1, <3>2
  <2> QED
    BY <2>0, <2>3, <2>6
<1>7. Bodies'
  <2>1. done \subseteq Module /\ \A x \in done : runs[x] > 0
    BY <1>b DEF HistoryTypes, Bodies
  <2>2. m \notin done
    BY <2>1, <1>2
  <2>3. \A x \in done' : runs'[x] > 0
    BY <2>1, <2>2, <1>r
  <2>4. ASSUME NEW x \in Module, running'[x] > 0 PROVE running'[x] = 1 /\ runs'[x] > 0 /\ x \notin done'
    <3>1. CASE x = m
      BY <3>1, <2>4, <1>r
    <3>2. CASE x # m
      <4>1. running[x] = 1 /\ runs[x] > 0 /\ x \notin done
        BY <3>2, <2>4, <1>r, <1>b DEF Bodies
      <4> QED
        BY <4>1, <3>2, <1>r
    <3> QED
      BY <3>1, <3>2
  <2>5. ASSUME NEW i \in 1 .. Len(jobs), jobs[i].fn \in BodyJobs
        PROVE  /\ running'[jobs[i].m] = 0 /\ runs'[jobs[i].m] > 0
               /\ jobs[i].fn = "asyncModuleFulfilled" <=> jobs[i].m \in done'
    <3>1. PICK j : j = jobs[i]
      OBVIOUS
    <3>2. j \in JobSet
      BY <3>1, <1>t DEF Types
    <3>3. j.m \in Module
      BY <3>2 DEF JobSet
    <3>4. running[j.m] = 0 /\ runs[j.m] > 0 /\ (j.fn = "asyncModuleFulfilled" <=> j.m \in done)
      BY <3>1, <2>5, <1>b DEF Bodies
    <3>5. j.m # m
      BY <3>4, <1>2
    <3>6. running'[j.m] = 0 /\ runs'[j.m] > 0 /\ (j.m \in done' <=> j.m \in done)
      BY <3>3, <3>4, <3>5, <1>r
    <3> QED
      BY <3>1, <3>4, <3>6
  <2> QED
    BY <2>3, <2>4, <2>5 DEF Bodies
<1> QED
  BY <1>3, <1>4, <1>5, <1>6, <1>7 DEF Bookkeeping

LEMMA PopCalling ==
  ASSUME ModulesInv, RootsAgree, Waits, InEvaluation, Len(frames) > 1, NEW m, m = frames[1].m, frames' = Tail(frames),
         NEW data, Ended(m, data), NEW P, Pops(m, data, P), escaped' = escaped
  PROVE  Calling'
<1>t. Types /\ frames \in Seq(WalkFrames)
  BY EvaluationCalls
<1>b. Walked
  BY DEF Waits, WalkWaits
<1>1. Executing(m) /\ m \in Module /\ md[m].status = "Evaluating"
  BY InnermostCall
<1>2. Parents(m) = << >> /\ ~ md[m].error
  BY <1>1, <1>b DEF Walked, HasStatus
<1>d. \A x \in Module :
          /\ md'[x].asyncParentModules = md[x].asyncParentModules
          /\ x # m => md'[x].error = md[x].error
  BY DEF Pops
<1>f. frames' \in Seq(WalkFrames)
  BY TailCalls
<1> SUFFICES ASSUME ~ escaped', NEW x \in Module, md'[x].error, NEW l \in 1 .. Len(md'[x].asyncParentModules)
             PROVE  md'[md'[x].asyncParentModules[l]].error
  BY <1>f, WalkCalling
<1>3. md'[x].asyncParentModules = Parents(x) /\ ~ escaped /\ Parents(x) \in Seq(Module)
  BY <1>d, <1>t DEF Parents, Types, Records
<1>4. x # m
  <2>1. CASE x = m
    <3>1. l \in 1 .. Len(<< >>)
      BY <2>1, <1>2, <1>3
    <3> QED
      BY <3>1
  <2> QED
    BY <2>1
<1>5. PICK q : q = Parents(x)[l]
  OBVIOUS
<1>6. q \in Module
  BY <1>3, <1>5
<1>7. md[q].error
  BY <1>3, <1>4, <1>5, <1>d, <1>t, WalkReported
<1>8. md'[q].error
  BY <1>2, <1>6, <1>7, <1>d
<1> QED
  BY <1>3, <1>5, <1>8

LEMMA PopWalk ==
  ASSUME ModulesInv, RootsAgree, Waits, InEvaluation, Len(frames) > 1, NEW m, m = frames[1].m, Len(requests[m]) < frames[1].i,
         frames' = Tail(frames), NEW data, Ended(m, data), NEW P, Pops(m, data, P),
         UNCHANGED <<requests, deps>>
  PROVE  WalkWaits'
<1>t. Types /\ RootsAgree
  BY DEF ModulesInv
<1>b. Walked /\ TreeWalk /\ RequestsWalk
  BY DEF Waits, WalkWaits
<1>1. /\ Executing(m) /\ m \in Module /\ md[m].status = "Evaluating"
      /\ \A x \in Module : Executing(x) => md[x].dfsIndex <= md[m].dfsIndex
  BY InnermostCall
<1>f. /\ Len(frames') = Len(frames) - 1
      /\ \A j \in 1 .. Len(frames') : j + 1 \in 1 .. Len(frames) /\ frames'[j] = frames[j + 1]
      /\ \A x : Executing(x)' <=> Executing(x) /\ x # m
      /\ \A x, k : x # m /\ Past(x, k)' => Past(x, k)
  BY TailCalls
<1>e. /\ \A x \in Module : md[x].dfsIndex \in Nat
      /\ \A x : Executing(x) => x \in HasStatus({"Evaluating"})
  BY EvaluationCalls DEF HasStatus
<1>d. \A x \in Module :
          /\ md'[x].status = IF x \in P THEN "Evaluated" ELSE md[x].status
          /\ md'[x].cycleRoot = IF x \in P THEN m ELSE md[x].cycleRoot
          /\ md'[x].pendingAsyncDependencies = md[x].pendingAsyncDependencies
          /\ md'[x].dfsIndex = md[x].dfsIndex
          /\ x # m => md'[x].error = md[x].error /\ md'[x].asyncEvaluating = md[x].asyncEvaluating
  BY DEF Pops
<1>p. \A x \in Module : Parents(x)' = Parents(x) /\ Parents(x) \in Seq(Module)
  BY <1>t DEF Pops, Parents, Types, Records
<1>s. /\ P \subseteq HasStatus({"Evaluating"}) /\ P \subseteq Module
      /\ P # {} => m \in P /\ \A x \in HasStatus({"Evaluating"}) : x \in P <=> md[m].dfsIndex <= md[x].dfsIndex
      /\ \A x \in P : \A k \in 1 .. Len(requests[x]) : requests[x][k] \in Rooted \union P
      /\ \A x \in P : x # m => ~ Executing(x)
      /\ P = {} => md[m].dfsAncestorIndex # md[m].dfsIndex
      /\ md'[m].error = data[m].error /\ md'[m].asyncEvaluating = data[m].asyncEvaluating
  BY DEF Pops
<1>r. /\ \A x \in Module : x # m => runs'[x] = runs[x]
      /\ done \subseteq done'
      /\ m \in done' \/ data[m].asyncEvaluating \/ data[m].error
      /\ data[m].error => requests[m] = << >>
  BY DEF Ended
<1>v. \A x : x \in HasStatus({"Evaluating"})' <=> x \in HasStatus({"Evaluating"}) /\ x \notin P
  BY <1>d, <1>s DEF HasStatus
<1>h. HasStatus({"Evaluating"}) \subseteq Module /\ m \in HasStatus({"Evaluating"})
      /\ \A x \in HasStatus({"Evaluating"}) : x \notin Rooted
  BY <1>1 DEF HasStatus, Rooted
\* A module that requests one that stays, stays.
<1>c. ASSUME NEW z \in HasStatus({"Evaluating"}), NEW x \in HasStatus({"Evaluating"}), x \notin P, x \in ToSet(requests[z])
      PROVE  z \notin P
  <2>1. requests[z] \in Seq(Module)
    BY <1>h, <1>t DEF Types
  <2>2. PICK k \in 1 .. Len(requests[z]) : requests[z][k] = x
    BY <2>1, <1>c DEF ToSet
  <2> QED
    BY <2>2, <1>c, <1>s, <1>h
\* A JSON module that failed is popped.
<1>j. data[m].error => m \in P
  <2> SUFFICES ASSUME data[m].error PROVE m \in P
    OBVIOUS
  <2>1. PICK out : Walking("moduleEvaluation", "innerModuleEvaluation", "Evaluating", out)
    BY DEF InEvaluation
  <2>2. /\ Tarjan(requests, frames, ToSet(stack), DfsIndex, DfsAncestorIndex, index, out)
        /\ m \in ToSet(stack) /\ requests[m] = << >>
    BY <2>1, <1>h, <1>r DEF Walking
  <2>3. DfsAncestorIndex[m] = DfsIndex[m]
    BY <2>2, EmptyIsRoot
  <2>4. md[m].dfsAncestorIndex = md[m].dfsIndex
    BY <2>3, <1>1 DEF DfsAncestorIndex, DfsIndex
  <2> QED
    BY <2>4, <1>s
<1>2. Walked'
  <2>1. \A x \in Module : Executing(x)' =>
          /\ runs'[x] = 0 /\ md'[x].pendingAsyncDependencies = deps'[x]
          /\ ~ md'[x].asyncEvaluating /\ Parents(x)' = << >>
    BY <1>b, <1>f, <1>d, <1>p, <1>r DEF Walked
  <2>2. \A x \in HasStatus({"Evaluating"})' : ~ md'[x].error
    BY <1>b, <1>v, <1>d, <1>h, <1>j, <1>s DEF Walked
  <2>3. \A x \in HasStatus({"Evaluating"})' : Executing(x)' \/ x \in done' \/ md'[x].asyncEvaluating
    BY <1>b, <1>v, <1>f, <1>d, <1>h, <1>j, <1>s, <1>r DEF Walked
  <2>4. ASSUME NEW x \in HasStatus({"Evaluating"})', NEW z \in ToSet(Parents(x))'
        PROVE  z \in HasStatus({"Evaluating"})' /\ x \in ToSet(requests[z])'
    <3>1. x \in Module /\ z \in ToSet(Parents(x)) /\ x \in HasStatus({"Evaluating"}) /\ x \notin P
      BY <2>4, <1>v, <1>h, <1>p
    <3>2. z \in HasStatus({"Evaluating"}) /\ x \in ToSet(requests[z])
      BY <3>1, <1>b DEF Walked
    <3> QED
      BY <3>1, <3>2, <1>c, <1>v
  <2> QED
    BY <2>1, <2>2, <2>3, <2>4 DEF Walked
<1>n. ASSUME NEW y \in Module, NEW r \in Module, NoneBetween(y, r) PROVE NoneBetween(y, r)'
  BY <1>n, <1>f, <1>d DEF NoneBetween
<1>3. TreeWalk'
  <2> SUFFICES ASSUME NEW y \in HasStatus({"Evaluating"})', ~ Executing(y)', y \notin done'
               PROVE  \E z \in HasStatus({"Evaluating"})' :
                        md'[z].dfsIndex < md'[y].dfsIndex /\ NoneBetween(z, y)' /\ TreeParent(z, y)'
    BY DEF TreeWalk
  <2>1. y \in HasStatus({"Evaluating"}) /\ y \notin P /\ y \in Module /\ y \notin done
    BY <1>v, <1>h, <1>r
  <2>2. CASE y # m
    <3>1. ~ Executing(y)
      BY <2>2, <1>f
    <3>2. PICK z \in HasStatus({"Evaluating"}) :
              md[z].dfsIndex < md[y].dfsIndex /\ NoneBetween(z, y) /\ TreeParent(z, y)
      BY <3>1, <2>1, <1>b DEF TreeWalk
    <3>3. z \in ToSet(Parents(y))
      <4>1. ASSUME frames[1].m = z, frames[1].i <= Len(requests[z]) PROVE FALSE
        <5>1. frames[1].i \in Nat
          BY InnermostCall
        <5>2. Len(requests[m]) \in Nat
          BY <1>1, <1>t DEF Types
        <5> QED
          BY <4>1, <5>1, <5>2
      <4> QED
        BY <4>1, <3>2 DEF TreeParent
    <3>4. y \in ToSet(requests[z])
      BY <3>3, <2>1, <1>b DEF Walked
    <3>5. z \in HasStatus({"Evaluating"})' /\ z \in Module
      BY <3>4, <2>1, <1>c, <1>v, <1>h
    <3>6. TreeParent(z, y)'
      BY <3>3, <2>1, <1>p DEF TreeParent
    <3>7. NoneBetween(z, y)' /\ md'[z].dfsIndex < md'[y].dfsIndex
      BY <3>2, <3>5, <2>1, <1>n, <1>d
    <3> QED
      BY <3>5, <3>6, <3>7
  <2>3. CASE y = m
    <3>1. P = {}
      BY <2>1, <2>3, <1>s
    <3>2. md[m].dfsAncestorIndex # md[m].dfsIndex
      BY <3>1, <1>s
    <3>3. PICK out : Walking("moduleEvaluation", "innerModuleEvaluation", "Evaluating", out)
      BY DEF InEvaluation
    <3>4. /\ Tarjan(requests, frames, ToSet(stack), DfsIndex, DfsAncestorIndex, index, out)
          /\ ToSet(stack) = HasStatus({"Evaluating"})
      BY <3>3 DEF Walking
    <3>5. PICK n, F, d, a : n = Len(frames) /\ F = frames /\ d = DfsIndex /\ a = DfsAncestorIndex
      OBVIOUS
    <3>6. n \in Nat /\ n > 1
      BY <3>5, <1>t DEF Types
    <3>7. a[m] # d[m] /\ a[m] <= d[m] /\ a[m] \in Nat /\ d[m] \in Nat
      <4>1. md[m] \in Records
        BY <1>1, <1>t DEF Types
      <4>2. md[m].dfsAncestorIndex \in Nat /\ md[m].dfsIndex \in Nat
        BY <4>1 DEF Records
      <4>3. DfsAncestorIndex[m] <= DfsIndex[m]
        BY <3>4, <1>h DEF Tarjan, Indices
      <4> QED
        BY <4>2, <4>3, <3>2, <3>5, <1>1 DEF DfsAncestorIndex, DfsIndex
    <3>8. n > 2
      <4>1. CASE n = 2
        <5>1. F[n - 1].m = F[n].m /\ d[F[n].m] <= a[m]
          <6>1. n # 1
            BY <4>1
          <6>2. Bottom(F, ToSet(stack), d, a)
            BY <3>4, <3>5 DEF Tarjan
          <6> QED
            BY <6>1, <6>2, <3>4, <3>5, <1>h DEF Bottom
        <5>2. n - 1 = 1
          BY ONLY <4>1
        <5>3. F[n].m = m
          BY <5>1, <5>2, <3>5
        <5>4. d[m] <= a[m]
          BY <5>1, <5>3
        <5> QED
          BY ONLY <5>4, <3>7
      <4> QED
        BY ONLY <4>1, <3>6
    <3>9. 1 \in 1 .. n - 1 /\ 2 \in 1 .. n - 1 /\ 1 + 1 = 2 /\ 1 < 2 /\ n - 1 > 1 /\ 1 \in 1 .. n - 1
      BY ONLY <3>6, <3>8
    <3>10. 1 \in Inner(frames) /\ 2 \in Inner(frames) /\ 1 + 1 \in Inner(frames) /\ Len(frames') > 1 /\ 1 \in 1 .. Len(frames')
      BY <3>5, <3>9, <1>f DEF Inner
    <3>11. PICK z : z = frames[2].m
      OBVIOUS
    <3>12. /\ frames[2].i <= Len(requests[z]) /\ requests[z][frames[2].i] = m
      <4>1. frames[1 + 1].i <= Len(requests[frames[1 + 1].m]) /\ requests[frames[1 + 1].m][frames[1 + 1].i] = frames[1].m
        BY <3>4, <3>10 DEF Tarjan, Calls
      <4> QED
        BY <4>1, <3>9, <3>11
    <3>13. z \in HasStatus({"Evaluating"}) /\ DfsIndex[z] < DfsIndex[m]
      BY <3>4, <3>9, <3>10, <3>11 DEF Tarjan, Indices
    <3>14. z \in Module /\ md'[z].dfsIndex < md'[m].dfsIndex /\ z \in HasStatus({"Evaluating"})'
      BY <3>13, <3>1, <1>d, <1>h, <1>v, <1>1 DEF DfsIndex
    <3>15. frames'[1] = frames[2]
      BY <3>9, <3>10, <1>f
    <3>16. TreeParent(z, m)'
      BY <3>10, <3>11, <3>12, <3>15 DEF TreeParent
    <3>17. NoneBetween(z, m)'
      <4> SUFFICES ASSUME NEW x \in Module, Executing(x)' PROVE md'[x].dfsIndex <= md'[z].dfsIndex
        BY DEF NoneBetween
      <4>1. Executing(x) /\ x # m
        BY <1>f
      <4>2. PICK j \in Inner(frames) : frames[j].m = x
        BY <4>1, EvaluationCalls
      <4>3. j # 1
        BY <4>1, <4>2
      <4>4. j \in 1 .. n - 1
        BY <3>5 DEF Inner
      <4>5. j = 2 \/ 2 < j
        BY ONLY <4>3, <4>4, <3>6
      <4>6. 2 < j => DfsIndex[frames[j].m] < DfsIndex[frames[2].m]
        BY <3>4, <3>10, <4>2 DEF Tarjan, Indices
      <4>7. md[x].dfsIndex \in Nat /\ md[z].dfsIndex \in Nat /\ DfsIndex[x] = md[x].dfsIndex /\ DfsIndex[z] = md[z].dfsIndex
        BY <3>14, <1>e DEF DfsIndex
      <4>8. md[x].dfsIndex <= md[z].dfsIndex
        BY <4>2, <4>5, <4>6, <4>7, <3>11
      <4> QED
        BY <4>8, <3>14, <1>d
    <3> QED
      BY <3>14, <3>16, <3>17, <2>3
  <2> QED
    BY <2>2, <2>3
<1>4. RequestsWalk'
  <2> SUFFICES ASSUME NEW y \in HasStatus({"Evaluating"})', NEW k \in 1 .. Len(requests[y]), Past(y, k)'
               PROVE  Seen(y, requests[y][k])'
    BY DEF RequestsWalk
  <2>1. y \in HasStatus({"Evaluating"}) /\ y \notin P /\ y \in Module
    BY <1>v, <1>h
  <2>2. Past(y, k)
    <3>1. CASE y = m
      BY <3>1, PastAll
    <3>2. CASE y # m
      BY <3>2, <1>f
    <3> QED
      BY <3>1, <3>2
  <2>3. PICK r : r = requests[y][k]
    OBVIOUS
  <2>4. Seen(y, requests[y][k])
    BY <2>1, <2>2, <1>b DEF RequestsWalk
  <2>5. Seen(y, r) /\ r \in Module
    <3>1. requests[y] \in Seq(Module)
      BY <2>1, <1>t DEF Types
    <3> QED
      BY <3>1, <2>3, <2>4
  <2>6. Seen(y, r)'
    <3>1. CASE r \in HasStatus({"Evaluating"}) /\ NoneBetween(y, r)
      <4>1. r \notin P
        <5> SUFFICES ASSUME r \in P PROVE FALSE
          OBVIOUS
        <5>1. md[m].dfsIndex <= md[r].dfsIndex
          BY <3>1, <1>s
        <5>2. md[m].dfsIndex <= md[y].dfsIndex
          BY <5>1, <3>1, <1>1 DEF NoneBetween
        <5> QED
          BY <5>2, <2>1, <1>s
      <4> QED
        BY <4>1, <3>1, <2>1, <2>5, <1>n, <1>v DEF Seen
    <3>2. CASE r \in Rooted /\ (AllDone(r) \/ y \in ToSet(Parents(md[r].cycleRoot)))
      <4>1. r \in Rooted' /\ md'[r].cycleRoot = md[r].cycleRoot
        BY <3>2, <2>5, <1>d, <1>h, <1>s DEF Rooted, HasStatus
      <4>2. AllDone(r) => AllDone(r)'
        BY <2>5, <1>r, AllDoneGrows
      <4>3. md[r].cycleRoot \in Module
        BY <3>2, RootIsComplete
      <4>4. Parents(md[r].cycleRoot)' = Parents(md[r].cycleRoot)
        BY <4>1, <4>3, <1>p DEF Parents
      <4> QED
        BY <3>2, <4>1, <4>2, <4>4 DEF Seen
    <3> QED
      BY <2>5, <3>1, <3>2 DEF Seen
  <2> QED
    BY <2>3, <2>6 DEF Seen, NoneBetween, AllDone, Reaches, Executing, HasStatus, Rooted, Parents
<1> QED
  BY <1>2, <1>3, <1>4 DEF WalkWaits

LEMMA PopFindings ==
  ASSUME ModulesInv, RootsAgree, Waits, InEvaluation, Len(frames) > 1, NEW m, m = frames[1].m, Len(requests[m]) < frames[1].i,
         NEW data, Ended(m, data), NEW P, Pops(m, data, P), requests' = requests
  PROVE  Findings'
<1>t. Types /\ RootsAgree
  BY DEF ModulesInv
<1>b. Walked /\ TreeWalk /\ RequestsWalk /\ Outcomes /\ Found /\ Starts /\ Bookkeeping
  BY DEF Waits, WalkWaits, Findings
<1>1. Executing(m) /\ m \in Module /\ md[m].status = "Evaluating"
  BY InnermostCall
<1>e. \A x \in Module : md[x].dfsIndex \in Nat
  BY EvaluationCalls
<1>d. \A x \in Module :
          /\ md'[x].status = IF x \in P THEN "Evaluated" ELSE md[x].status
          /\ md'[x].cycleRoot = IF x \in P THEN m ELSE md[x].cycleRoot
          /\ md'[x].dfsIndex = md[x].dfsIndex
          /\ x # m => md'[x].error = md[x].error /\ md'[x].asyncEvaluating = md[x].asyncEvaluating
  BY DEF Pops
<1>p. \A x \in Module : Parents(x)' = Parents(x) /\ Parents(x) \in Seq(Module)
  BY <1>t DEF Pops, Parents, Types, Records
<1>s. /\ P \subseteq HasStatus({"Evaluating"}) /\ P \subseteq Module
      /\ P # {} => m \in P /\ \A x \in HasStatus({"Evaluating"}) : x \in P <=> md[m].dfsIndex <= md[x].dfsIndex
      /\ \A x \in P : \A k \in 1 .. Len(requests[x]) : requests[x][k] \in Rooted \union P
      /\ \A x \in P : x # m => ~ Executing(x)
      /\ md'[m].error = data[m].error /\ md'[m].asyncEvaluating = data[m].asyncEvaluating
  BY DEF Pops
<1>r. /\ \A x \in Module : x # m => runs'[x] = runs[x] /\ running'[x] = running[x]
      /\ done \subseteq done' /\ done' \subseteq done \union {m}
      /\ runs'[m] > 0 => StartOf(m)
      /\ m \in done' => ~ data[m].error
      /\ m \in done' \/ data[m].asyncEvaluating \/ data[m].error
      /\ data[m].error => running'[m] = 0
  BY DEF Ended
<1>h. HasStatus({"Evaluating"}) \subseteq Module /\ m \in HasStatus({"Evaluating"})
      /\ \A x \in HasStatus({"Evaluating"}) : x \notin Rooted
  BY <1>1 DEF HasStatus, Rooted
<1>c. /\ \A x \in Rooted : x \in Module /\ x \in Rooted' /\ x \notin P /\ x # m
      /\ \A x \in Rooted' : x \in Module /\ (x \in Rooted \/ x \in P)
      /\ \A x \in P : x \in Rooted'
  <2>1. m # None
    BY <1>1, ModulesAssumption
  <2> QED
    BY <2>1, <1>d, <1>s, <1>h DEF Rooted, HasStatus
<1>2. Outcomes'
  <2>1. ASSUME NEW x \in Rooted'
        PROVE  /\ x \in done' \/ md'[x].asyncEvaluating \/ md'[x].error
               /\ md'[x].error => x \notin done' /\ running'[x] = 0
    <3>1. CASE x \in Rooted
      BY <3>1, <1>b, <1>c, <1>d, <1>r DEF Outcomes
    <3>2. CASE x = m
      BY <3>2, <1>r, <1>s
    <3>3. CASE x \in P /\ x # m
      <4>1. ~ Executing(x) /\ x \in HasStatus({"Evaluating"}) /\ x \in Module
        BY <3>3, <1>s
      <4>2. ~ md[x].error /\ (x \in done \/ md[x].asyncEvaluating)
        BY <4>1, <1>b DEF Walked
      <4> QED
        BY <4>1, <4>2, <3>3, <1>d, <1>r
    <3> QED
      BY <3>1, <3>2, <3>3, <1>c
  <2> QED
    BY <2>1 DEF Outcomes
<1>g. Grows
  <2>1. \A x \in Rooted : md'[x].cycleRoot = md[x].cycleRoot /\ md'[x].dfsIndex = md[x].dfsIndex
    BY <1>c, <1>d
  <2>2. \A x \in Module : ToSet(Parents(x)) \subseteq ToSet(md'[x].asyncParentModules)
    BY <1>p DEF Parents
  <2> QED
    BY <2>1, <2>2, <1>c, <1>r DEF Grows
\* What a popped module has seen.
<1>3. ASSUME NEW y \in P, NEW k \in 1 .. Len(requests[y])
      PROVE  \/ requests[y][k] \in P
             \/ /\ requests[y][k] \in Rooted /\ requests[y][k] \in Module
                /\ AllDone(requests[y][k]) \/ y \in ToSet(Parents(md[requests[y][k]].cycleRoot))
  <2>1. Past(y, k)
    <3>1. CASE y = m
      BY <3>1, PastAll
    <3>2. CASE y # m
      BY <3>2, <1>s DEF Past, Executing
    <3> QED
      BY <3>1, <3>2
  <2>2. Seen(y, requests[y][k])
    BY <2>1, <1>s, <1>b DEF RequestsWalk
  <2>3. PICK r : r = requests[y][k]
    OBVIOUS
  <2>4. r \in Rooted \union P /\ Seen(y, r)
    BY <2>2, <2>3, <1>s
  <2>5. CASE r \in P
    BY <2>3, <2>5
  <2>6. CASE r \in Rooted
    <3>1. r \in Module /\ r \notin HasStatus({"Evaluating"})
      BY <2>6, <1>c, <1>h
    <3>2. AllDone(r) \/ y \in ToSet(Parents(md[r].cycleRoot))
      BY <3>1, <2>4 DEF Seen
    <3> QED
      BY <3>1, <3>2, <2>3, <2>6
  <2> QED
    BY <2>4, <2>5, <2>6
<1>4. ASSUME NEW y \in P PROVE TreeOf(y)' /\ RequestsOf(y)'
  <2>0. y \in Module /\ y \in HasStatus({"Evaluating"}) /\ md'[y].cycleRoot = m
    BY <1>s, <1>d
  <2>1. TreeOf(y)'
    <3>1. CASE y = m
      BY <3>1, <2>0 DEF TreeOf
    <3>2. CASE y \in done'
      BY <3>2 DEF TreeOf
    <3>3. CASE y # m /\ y \notin done'
      <4>1. ~ Executing(y) /\ y \notin done
        BY <3>3, <1>s, <1>r
      <4>2. PICK z \in HasStatus({"Evaluating"}) :
                md[z].dfsIndex < md[y].dfsIndex /\ NoneBetween(z, y) /\ TreeParent(z, y)
        BY <4>1, <2>0, <1>b DEF TreeWalk
      <4>3. z \in ToSet(Parents(y))
        <5>1. ASSUME frames[1].m = z, frames[1].i <= Len(requests[z]) PROVE FALSE
          <6>1. frames[1].i \in Nat
            BY InnermostCall
          <6>2. Len(requests[m]) \in Nat
            BY <1>1, <1>t DEF Types
          <6> QED
            BY <5>1, <6>1, <6>2
        <5> QED
          BY <5>1, <4>2 DEF TreeParent
      <4>4. md[m].dfsIndex <= md[y].dfsIndex
        BY <2>0, <1>s
      <4>5. md[m].dfsIndex <= md[z].dfsIndex
        BY <4>2, <4>4, <1>1 DEF NoneBetween
      <4>6. z \in P
        BY <4>2, <4>5, <1>s
      <4>7. z \in Rooted' /\ md'[z].cycleRoot = m /\ md'[z].dfsIndex < md'[y].dfsIndex
        BY <4>2, <4>6, <2>0, <1>c, <1>d, <1>s
      <4>8. z \in ToSet(Parents(y))'
        BY <4>3, <2>0, <1>p
      <4> QED
        BY <4>7, <4>8, <2>0 DEF TreeOf
    <3> QED
      BY <3>1, <3>2, <3>3
  <2>2. RequestsOf(y)'
    <3> SUFFICES ASSUME NEW k \in 1 .. Len(requests[y])
                 PROVE  \/ md'[requests[y][k]].cycleRoot = md'[y].cycleRoot
                        \/ AllDone(requests[y][k])'
                        \/ y \in ToSet(md'[md'[requests[y][k]].cycleRoot].asyncParentModules)
      BY DEF RequestsOf, Parents, AllDone, Reaches
    <3>1. PICK r : r = requests[y][k] /\ r = requests'[y][k]
      OBVIOUS
    <3>2. CASE r \in P
      <4>1. r \in Module
        BY <3>2, <1>s
      <4> QED
        BY <4>1, <3>1, <3>2, <2>0, <1>d
    <3>3. CASE r \in Rooted /\ r \in Module /\ (AllDone(r) \/ y \in ToSet(Parents(md[r].cycleRoot)))
      <4>1. md'[r].cycleRoot = md[r].cycleRoot
        BY <3>3, <1>c, <1>d
      <4>2. AllDone(r) => AllDone(r)'
        BY <3>3, <1>r, AllDoneGrows
      <4>3. md[r].cycleRoot \in Module
        BY <3>3, RootIsComplete
      <4>4. Parents(md[r].cycleRoot) = md'[md[r].cycleRoot].asyncParentModules
        BY <4>3, <1>p DEF Parents
      <4>5. AllDone(r)' \/ y \in ToSet(md'[md'[r].cycleRoot].asyncParentModules)
        BY <3>3, <4>1, <4>2, <4>4
      <4> QED
        BY <4>5, <3>1 DEF AllDone, Reaches
    <3> QED
      BY <3>1, <3>2, <3>3, <1>3
  <2> QED
    BY <2>1, <2>2
<1>5. Found'
  <2>1. ASSUME NEW y \in Rooted' PROVE TreeOf(y)' /\ RequestsOf(y)'
    <3>1. CASE y \in Rooted
      BY <3>1, <1>b, <1>g, FoundGrows DEF Found
    <3>2. CASE y \in P
      BY <3>2, <1>4
    <3> QED
      BY <3>1, <3>2, <1>c
  <2> QED
    BY <2>1 DEF Found
<1>6. Starts'
  <2>1. ASSUME NEW y \in Module, runs'[y] > 0 PROVE StartOf(y)'
    <3>1. StartOf(y)
      BY <2>1, <1>b, <1>r DEF Starts
    <3> QED
      BY <3>1, <1>t, <1>r, StartGrows
  <2> QED
    BY <2>1 DEF Starts
<1> QED
  BY <1>2, <1>5, <1>6 DEF Findings

LEMMA PopWaits ==
  ASSUME ModulesInv, RootsAgree, Waits, ImportsWait, InEvaluation, Len(frames) > 1,
         NEW m, m = frames[1].m, Len(requests[m]) < frames[1].i,
         NEW data, Ended(m, data), PopCycle(m, data), UNCHANGED <<requests, jobs, deps, escaped>>
  PROVE  Waits' /\ ImportsWait'
<1>t. Types
  BY DEF ModulesInv
<1>1. PICK P : Pops(m, data, P)
  BY PopData
<1>2. frames' = Tail(frames) /\ call' = call /\ imports' = imports
  BY DEF PopCycle
<1>3. Bookkeeping'
  BY <1>1, PopBooks
<1>4. Calling'
  BY <1>1, <1>2, PopCalling
<1>5. WalkWaits'
  BY <1>1, <1>2, PopWalk
<1>6. Findings'
  BY <1>1, PopFindings
<1>d. \A x \in Module :
          /\ md'[x].status = IF x \in P THEN "Evaluated" ELSE md[x].status
          /\ SameImport(md'[x], md[x])
          /\ x # m => md'[x].error = md[x].error
  BY <1>1 DEF Pops
<1>7. m \in Module /\ ~ md[m].error
  <2>1. m \in Module /\ md[m].status = "Evaluating"
    BY InnermostCall
  <2> QED
    BY <2>1 DEF Waits, WalkWaits, Walked, HasStatus
<1>8. done \subseteq done'
  BY DEF Ended
<1>9. Capable'
  <2>1. Capable
    BY ImportsParts
  <2>2. /\ frames' # << >> /\ frames'[Len(frames')] = frames[Len(frames)]
        /\ Len(frames') = Len(frames) - 1
        /\ \A j \in 1 .. Len(frames') : j + 1 \in 1 .. Len(frames) /\ frames'[j] = frames[j + 1]
    BY <1>2, TailCalls
  <2>3. frames[Len(frames)].i = 1
    BY InnermostCall
  <2>4. ~ (frames'[1].fn = "moduleEvaluation" /\ frames'[1].i = 0)
    <3>1. \A j \in Inner(frames) : frames[j].fn = "innerModuleEvaluation"
      BY DEF InEvaluation, Walking
    <3>2. PICK n : n = Len(frames)
      OBVIOUS
    <3>3. n \in Nat /\ n > 1
      BY <3>2, <1>t DEF Types
    <3>4. 1 \in 1 .. n - 1 /\ 1 + 1 = 2 /\ (2 \in 1 .. n - 1 \/ 2 = n)
      BY ONLY <3>3
    <3>5. frames'[1] = frames[2]
      BY <3>2, <3>4, <2>2
    <3> QED
      BY <3>1, <3>2, <3>4, <3>5, <2>3 DEF Inner
  <2>5. \A x \in Module : md[x].status \in Started => md'[x].status \in Started
    BY <1>d DEF Started
  <2> QED
    BY <2>1, <2>2, <2>3, <2>4, <2>5, <1>d DEF Capable, SameImport
<1>10. ImportsMove
  <2>1. \A x \in Module : /\ md[x].status = "Evaluated" => md'[x].status = "Evaluated"
                          /\ md[x].error => md'[x].error
                          /\ md'[x].asyncPendingPromises = md[x].asyncPendingPromises
    BY <1>d, <1>7 DEF SameImport
  <2> QED
    BY <2>1, <1>2, <1>8, <1>9 DEF ImportsMove
<1> QED
  BY <1>3, <1>4, <1>5, <1>6, <1>10, <1>t, ImportsKept DEF Waits

\* The data after the end of a call differ in the outcome of the module.
EndedAs(m, err, async, data) ==
    /\ data \in [Module -> Records]
    /\ \A x \in Module \ {m} : data[x] = md[x]
    /\ data[m].status = md[m].status /\ data[m].cycleRoot = md[m].cycleRoot
    /\ data[m].dfsIndex = md[m].dfsIndex /\ data[m].dfsAncestorIndex = md[m].dfsAncestorIndex
    /\ data[m].asyncParentModules = md[m].asyncParentModules
    /\ data[m].pendingAsyncDependencies = md[m].pendingAsyncDependencies
    /\ SameImport(data[m], md[m])
    /\ data[m].error = err /\ data[m].asyncEvaluating = async

LEMMA EndedData ==
  ASSUME Types, NEW m \in Module, NEW err \in BOOLEAN, NEW async \in BOOLEAN, NEW data,
         data = [md EXCEPT ![m].error = err, ![m].asyncEvaluating = async]
  PROVE  EndedAs(m, err, async, data)
<1>1. md \in [Module -> Records]
  BY DEF Types
<1>2. PICK e, f : e = md[m] /\ f = [e EXCEPT !.error = err, !.asyncEvaluating = async]
  OBVIOUS
<1>3. e \in Records
  BY <1>1, <1>2
<1>4. f \in Records
  BY ONLY <1>2, <1>3, err \in BOOLEAN, async \in BOOLEAN DEF Records
<1>5. /\ f.status = e.status /\ f.cycleRoot = e.cycleRoot
      /\ f.dfsIndex = e.dfsIndex /\ f.dfsAncestorIndex = e.dfsAncestorIndex
      /\ f.asyncParentModules = e.asyncParentModules
      /\ f.pendingAsyncDependencies = e.pendingAsyncDependencies
      /\ SameImport(f, e) /\ f.error = err /\ f.asyncEvaluating = async
  BY ONLY <1>2, <1>3 DEF Records, SameImport
<1>6. data[m] = f /\ \A x \in Module \ {m} : data[x] = md[x]
  BY <1>1, <1>2
<1>7. data \in [Module -> Records]
  <2>1. data = [md EXCEPT ![m] = f]
    BY <1>1, <1>2
  <2> QED
    BY <2>1, <1>1, <1>4
<1> QED
  BY <1>2, <1>5, <1>6, <1>7 DEF EndedAs

\* The module whose call ends was not run and waits as often as it registered.
LEMMA AtEnd ==
  ASSUME ModulesInv, RootsAgree, Waits, AtEvaluateEnd, NEW m, m = Top.m
  PROVE  /\ Types /\ InEvaluation /\ Len(frames) > 1 /\ m = frames[1].m /\ Len(requests[m]) < frames[1].i
         /\ m \in Module /\ Executing(m) /\ md[m].error = FALSE /\ md[m].asyncEvaluating = FALSE
         /\ runs[m] = 0 /\ running[m] = 0 /\ m \notin done
         /\ runs \in [Module -> Nat] /\ running \in [Module -> Nat]
         /\ md[m].pendingAsyncDependencies = 0 \/ requests[m] = << >> => StartOf(m) /\ deps[m] = 0
         /\ kind[m] = "json" => requests[m] = << >>
<1>t. Types /\ In("innerModuleEvaluation") /\ Top.i > Len(requests[Top.m])
  BY DEF ModulesInv, AtEvaluateEnd
<1>1. InEvaluation /\ Len(frames) > 1
  BY <1>t, StageOf DEF ModulesInv
<1>2. Top = frames[1]
  BY <1>t, TopIsFirst DEF Types, In
<1>3. m = frames[1].m
  BY <1>2
<1>4. Executing(m) /\ m \in Module /\ md[m].status = "Evaluating" /\ frames[1].i \in Nat
  BY <1>1, <1>3, InnermostCall
<1>5. Len(requests[m]) < frames[1].i
  <2>1. Len(requests[m]) \in Nat
    BY <1>4, <1>t DEF Types
  <2> QED
    BY <2>1, <1>t, <1>2, <1>4
<1>6. runs[m] = 0 /\ ~ md[m].asyncEvaluating /\ ~ md[m].error
  BY <1>4 DEF Waits, WalkWaits, Walked, HasStatus
<1>7. md[m].error = FALSE /\ md[m].asyncEvaluating = FALSE
  <2>1. md[m] \in Records
    BY <1>4, <1>t DEF Types
  <2>2. md[m].error \in BOOLEAN /\ md[m].asyncEvaluating \in BOOLEAN
    BY <2>1 DEF Records
  <2> QED
    BY <2>2, <1>6
<1>8. /\ runs \in [Module -> Nat] /\ running \in [Module -> Nat]
      /\ \A x \in done : runs[x] > 0
      /\ running[m] > 0 => runs[m] > 0
  BY <1>4 DEF Waits, Bookkeeping, HistoryTypes, Bodies
<1>9. m \notin done /\ running[m] = 0
  <2>1. running[m] \in Nat /\ ~ (running[m] > 0)
    BY <1>4, <1>6, <1>8
  <2> QED
    BY <2>1, <1>6, <1>8
<1>10. md[m].pendingAsyncDependencies = 0 \/ requests[m] = << >> => StartOf(m) /\ deps[m] = 0
  BY <1>1, <1>3, <1>5, ReadyAtEnd
<1>11. kind[m] = "json" => requests[m] = << >>
  BY <1>4, <1>t DEF Types
<1> QED
  BY <1>t, <1>1, <1>3, <1>4, <1>5, <1>6, <1>7, <1>8, <1>9, <1>10, <1>11

LEMMA EvaluateSyntheticWaits ==
  ASSUME ModulesInv, RootsAgree, Waits, ImportsWait, EvaluateSynthetic
  PROVE  Waits' /\ ImportsWait'
<1>m. PICK m : m = Top.m
  OBVIOUS
<1>0. /\ AtEvaluateEnd /\ kind[m] = "json" /\ UNCHANGED <<requests, jobs, deps, escaped, running>>
      /\ runs' = [runs EXCEPT ![m] = @ + 1]
  BY <1>m DEF EvaluateSynthetic, env, scenario
<1>1. PICK fails \in {FALSE, BodiesThrow} :
        /\ PopCycle(m, [md EXCEPT ![m].error = @ \/ fails])
        /\ done' = IF fails THEN done ELSE done \union {m}
  BY <1>m DEF EvaluateSynthetic
<1>2. /\ Types /\ InEvaluation /\ Len(frames) > 1 /\ m = frames[1].m /\ Len(requests[m]) < frames[1].i
      /\ m \in Module /\ md[m].error = FALSE /\ md[m].asyncEvaluating = FALSE
      /\ runs[m] = 0 /\ running[m] = 0 /\ m \notin done
      /\ runs \in [Module -> Nat] /\ running \in [Module -> Nat]
      /\ StartOf(m) /\ deps[m] = 0 /\ requests[m] = << >>
  BY <1>0, <1>m, AtEnd
<1>3. fails \in BOOLEAN
  BY ModulesAssumption, Zenon
<1>4. PICK data : data = [md EXCEPT ![m].error = fails, ![m].asyncEvaluating = FALSE]
  OBVIOUS
<1>5. [md EXCEPT ![m].error = @ \/ fails] = data
  <2>1. md \in [Module -> Records] /\ md[m] \in Records
    BY <1>2 DEF Types
  <2>2. (md[m].error \/ fails) = fails
    BY <1>2, <1>3
  <2>3. [md EXCEPT ![m].error = @ \/ fails] = [md EXCEPT ![m].error = fails]
    BY <2>1, <2>2
  <2>4. PICK e : e = [md[m] EXCEPT !.error = fails]
    OBVIOUS
  <2>5. [md EXCEPT ![m].error = fails] = [md EXCEPT ![m] = e] /\ data = [md EXCEPT ![m] = [e EXCEPT !.asyncEvaluating = FALSE]]
    BY <2>1, <2>4, <1>2, <1>4
  <2>6. [e EXCEPT !.asyncEvaluating = FALSE] = e
    <3>1. PICK b : b = md[m]
      OBVIOUS
    <3>2. b \in Records /\ b.asyncEvaluating = FALSE /\ e = [b EXCEPT !.error = fails]
      BY <3>1, <2>1, <2>4, <1>2
    <3> QED
      BY ONLY <3>2 DEF Records
  <2> QED
    BY <2>3, <2>5, <2>6
<1>6. Ended(m, data)
  <2>1. PICK err, async : err = fails /\ async = FALSE
    OBVIOUS
  <2>b. err \in BOOLEAN /\ async \in BOOLEAN
    BY <2>1, <1>3, Zenon
  <2>d. data = [md EXCEPT ![m].error = err, ![m].asyncEvaluating = async]
    BY <2>1, <1>4
  <2>2. EndedAs(m, err, async, data)
    BY ONLY <1>2, <2>b, <2>d, EndedData
  <2>3. runs' \in [Module -> Nat] /\ running' \in [Module -> Nat] /\ runs'[m] = 1 /\ running'[m] = 0
        /\ \A x \in Module \ {m} : runs'[x] = runs[x] /\ running'[x] = running[x]
    BY <1>0, <1>2
  <2>4. /\ done \subseteq done' /\ done' \subseteq done \union {m}
        /\ m \in done' => ~ fails
        /\ m \in done' \/ fails
    BY <1>1, <1>2
  <2> QED
    BY <2>1, <2>2, <2>3, <2>4, <1>2 DEF Ended, EndedAs
<1>7. PopCycle(m, data)
  BY <1>1, <1>5
<1> QED
  BY <1>0, <1>2, <1>6, <1>7, PopWaits

\* A module that goes on waiting, for its dependencies or for its own body.
LEMMA EvaluateAsyncWaits ==
  ASSUME ModulesInv, RootsAgree, Waits, ImportsWait, EvaluateDeferred \/ EvaluateAsync
  PROVE  Waits' /\ ImportsWait'
<1>m. PICK m : m = Top.m
  OBVIOUS
<1>0. /\ AtEvaluateEnd /\ UNCHANGED <<requests, jobs, deps, escaped, done>>
      /\ PopCycle(m, [md EXCEPT ![m].asyncEvaluating = TRUE])
      /\ \/ runs' = runs /\ running' = running
         \/ /\ runs' = [runs EXCEPT ![m] = @ + 1] /\ running' = [running EXCEPT ![m] = @ + 1]
            /\ md[m].pendingAsyncDependencies = 0
  BY <1>m DEF EvaluateDeferred, EvaluateAsync, env, scenario, history
<1>2. /\ Types /\ InEvaluation /\ Len(frames) > 1 /\ m = frames[1].m /\ Len(requests[m]) < frames[1].i
      /\ m \in Module /\ md[m].error = FALSE /\ md[m].asyncEvaluating = FALSE
      /\ runs[m] = 0 /\ running[m] = 0 /\ m \notin done
      /\ runs \in [Module -> Nat] /\ running \in [Module -> Nat]
      /\ md[m].pendingAsyncDependencies = 0 => StartOf(m) /\ deps[m] = 0
  BY <1>0, <1>m, AtEnd
<1>4. PICK data : data = [md EXCEPT ![m].error = FALSE, ![m].asyncEvaluating = TRUE]
  OBVIOUS
<1>5. [md EXCEPT ![m].asyncEvaluating = TRUE] = data
  <2>1. md \in [Module -> Records] /\ md[m] \in Records
    BY <1>2 DEF Types
  <2>2. [md[m] EXCEPT !.error = FALSE] = md[m]
    <3>1. PICK b : b = md[m]
      OBVIOUS
    <3>2. b \in Records /\ b.error = FALSE
      BY <3>1, <2>1, <1>2
    <3>3. [b EXCEPT !.error = FALSE] = b
      BY ONLY <3>2 DEF Records
    <3> QED
      BY <3>1, <3>3
  <2>3. [md EXCEPT ![m].error = FALSE] = md
    BY <2>1, <2>2, <1>2
  <2>4. data = [[md EXCEPT ![m].error = FALSE] EXCEPT ![m].asyncEvaluating = TRUE]
    BY <1>4
  <2> QED
    BY <2>3, <2>4
<1>6. Ended(m, data)
  <2>1. PICK err, async : err = FALSE /\ async = TRUE
    OBVIOUS
  <2>b. err \in BOOLEAN /\ async \in BOOLEAN
    BY <2>1, Zenon
  <2>d. data = [md EXCEPT ![m].error = err, ![m].asyncEvaluating = async]
    BY <2>1, <1>4
  <2>2. EndedAs(m, err, async, data)
    BY ONLY <1>2, <2>b, <2>d, EndedData
  <2>3. /\ runs' \in [Module -> Nat] /\ running' \in [Module -> Nat]
        /\ \A x \in Module \ {m} : runs'[x] = runs[x] /\ running'[x] = running[x]
        /\ runs'[m] > 0 => StartOf(m) /\ deps[m] = 0
        /\ running'[m] > 0 => running'[m] = 1 /\ runs'[m] > 0
    <3>1. CASE runs' = runs /\ running' = running
      BY <3>1, <1>2
    <3>2. CASE /\ runs' = [runs EXCEPT ![m] = @ + 1] /\ running' = [running EXCEPT ![m] = @ + 1]
               /\ md[m].pendingAsyncDependencies = 0
      <4>1. /\ runs' \in [Module -> Nat] /\ running' \in [Module -> Nat] /\ runs'[m] = 1 /\ running'[m] = 1
            /\ \A x \in Module \ {m} : runs'[x] = runs[x] /\ running'[x] = running[x]
        BY <3>2, <1>2
      <4> QED
        BY <4>1, <3>2, <1>2
    <3> QED
      BY <3>1, <3>2, <1>0
  <2>4. done \subseteq done' /\ done' \subseteq done \union {m} /\ m \notin done'
    BY <1>0, <1>2
  <2> QED
    BY <2>1, <2>2, <2>3, <2>4, <1>2 DEF Ended, EndedAs
<1>7. PopCycle(m, data)
  BY <1>0, <1>5
<1> QED
  BY <1>0, <1>2, <1>6, <1>7, PopWaits

LEMMA EvaluateSyncWaits ==
  ASSUME ModulesInv, RootsAgree, Waits, ImportsWait, EvaluateSync
  PROVE  Waits' /\ ImportsWait'
<1>m. PICK m : m = Top.m
  OBVIOUS
<1>0. /\ AtEvaluateEnd /\ UNCHANGED <<requests, jobs, deps, escaped, running>>
      /\ md[m].pendingAsyncDependencies = 0
      /\ runs' = [runs EXCEPT ![m] = @ + 1]
      /\ \/ PopCycle(m, md) /\ done' = done \union {m}
         \/ FailWalk /\ done' = done
  BY <1>m DEF EvaluateSync, env, scenario
<1>2. /\ Types /\ InEvaluation /\ Len(frames) > 1 /\ m = frames[1].m /\ Len(requests[m]) < frames[1].i
      /\ m \in Module /\ md[m].error = FALSE /\ md[m].asyncEvaluating = FALSE /\ Executing(m)
      /\ runs[m] = 0 /\ running[m] = 0 /\ m \notin done
      /\ runs \in [Module -> Nat] /\ running \in [Module -> Nat]
      /\ StartOf(m) /\ deps[m] = 0
  BY <1>0, <1>m, AtEnd
<1>3. CASE FailWalk /\ done' = done
  <2>1. StartsBody
    BY <1>0, <1>2 DEF StartsBody
  <2>2. md[call.m].status \in Started
    BY <1>2, EntryStarted
  <2> QED
    BY <2>1, <2>2, <1>0, <1>2, <1>3, FailWalkWaits
<1>4. CASE PopCycle(m, md) /\ done' = done \union {m}
  <2>1. Ended(m, md)
    <3>1. runs' \in [Module -> Nat] /\ running' \in [Module -> Nat] /\ runs'[m] = 1 /\ running'[m] = 0
          /\ \A x \in Module \ {m} : runs'[x] = runs[x] /\ running'[x] = running[x]
      BY <1>0, <1>2
    <3>2. md \in [Module -> Records]
      BY <1>2 DEF Types
    <3>3. SameImport(md[m], md[m])
      BY DEF SameImport
    <3> QED
      BY <3>1, <3>2, <3>3, <1>2, <1>4 DEF Ended
  <2> QED
    BY <2>1, <1>0, <1>2, <1>4, PopWaits
<1> QED
  BY <1>0, <1>3, <1>4

-----------------------------------------------------------------------------
(* Evaluation: a request                                                    *)

\* The sequence t is s with m at its end.
OneLonger(s, m, t) ==
    /\ t \in Seq(Module) /\ Len(t) = Len(s) + 1 /\ t[Len(s) + 1] = m
    /\ \A i \in 1 .. Len(t) : (i \in 1 .. Len(s) /\ t[i] = s[i]) \/ (i = Len(s) + 1 /\ t[i] = m)
    /\ ToSet(t) = ToSet(s) \union {m}

LEMMA OneMore ==
  ASSUME NEW s \in Seq(Module), NEW m \in Module, NEW t, t = Append(s, m)
  PROVE  OneLonger(s, m, t)
<1>1. t \in Seq(Module) /\ Len(t) = Len(s) + 1 /\ t[Len(s) + 1] = m
      /\ \A i \in 1 .. Len(s) : t[i] = s[i]
  OBVIOUS
<1>2. \A i \in 1 .. Len(t) : i \in 1 .. Len(s) \/ i = Len(s) + 1
  BY <1>1
<1>3. ToSet(t) = ToSet(s) \union {m}
  <2>1. \A x \in ToSet(t) : x \in ToSet(s) \union {m}
    BY <1>1, <1>2 DEF ToSet
  <2>2. m \in ToSet(t)
    <3>1. Len(s) + 1 \in 1 .. Len(t)
      BY <1>1
    <3> QED
      BY <3>1, <1>1 DEF ToSet
  <2>3. \A x \in ToSet(s) : x \in ToSet(t)
    <3>1. \A i \in 1 .. Len(s) : i \in 1 .. Len(t)
      BY <1>1
    <3> QED
      BY <3>1, <1>1 DEF ToSet
  <2> QED
    BY <2>1, <2>2, <2>3
<1> QED
  BY <1>1, <1>2, <1>3 DEF OneLonger

\* The module m goes on after a request that q stands for: it registers with q when q is
\* still evaluating.
Passed(m, q) ==
    /\ \A x \in Module :
          /\ md'[x].status = md[x].status /\ md'[x].cycleRoot = md[x].cycleRoot /\ md'[x].error = md[x].error
          /\ md'[x].asyncEvaluating = md[x].asyncEvaluating /\ md'[x].dfsIndex = md[x].dfsIndex
          /\ SameImport(md'[x], md[x])
          /\ md'[x].pendingAsyncDependencies =
                md[x].pendingAsyncDependencies + IF x = m /\ md[q].asyncEvaluating THEN 1 ELSE 0
          /\ deps'[x] = deps[x] + IF x = m /\ md[q].asyncEvaluating THEN 1 ELSE 0
          /\ md'[x].asyncParentModules =
                IF x = q /\ md[q].asyncEvaluating THEN Append(md[x].asyncParentModules, m)
                                                  ELSE md[x].asyncParentModules

LEMMA PassData ==
  ASSUME Types, HistoryTypes, NEW m \in Module, NEW q \in Module, NEW anc \in Nat,
         md' = [md EXCEPT ![m].dfsAncestorIndex = anc,
                          ![m].pendingAsyncDependencies = @ + IF md[q].asyncEvaluating THEN 1 ELSE 0,
                          ![q].asyncParentModules = IF md[q].asyncEvaluating THEN Append(@, m) ELSE @],
         deps' = [deps EXCEPT ![m] = @ + IF md[q].asyncEvaluating THEN 1 ELSE 0]
  PROVE  Passed(m, q)
<1>y. md \in [Module -> Records] /\ deps \in [Module -> Nat]
  BY DEF Types, HistoryTypes
<1>1. PICK more, parents :
        /\ more = IF md[q].asyncEvaluating THEN 1 ELSE 0
        /\ parents = IF md[q].asyncEvaluating THEN Append(md[q].asyncParentModules, m)
                                              ELSE md[q].asyncParentModules
  OBVIOUS
<1>2. PICK e : e = [md[m] EXCEPT !.dfsAncestorIndex = anc, !.pendingAsyncDependencies = @ + more]
  OBVIOUS
<1>3. /\ e \in Records /\ e.status = md[m].status /\ e.cycleRoot = md[m].cycleRoot
      /\ e.error = md[m].error /\ e.dfsIndex = md[m].dfsIndex /\ e.asyncEvaluating = md[m].asyncEvaluating
      /\ e.asyncParentModules = md[m].asyncParentModules /\ SameImport(e, md[m])
      /\ e.pendingAsyncDependencies = md[m].pendingAsyncDependencies + more
  <2>1. md[m] \in Records /\ more \in {0, 1}
    BY <1>y, <1>1
  <2>2. PICK b, n : b = md[m] /\ n = md[m].pendingAsyncDependencies + more
    OBVIOUS
  <2>3. b \in Records /\ anc \in Nat /\ n \in Int /\ e = [b EXCEPT !.dfsAncestorIndex = anc, !.pendingAsyncDependencies = n]
    BY <2>1, <2>2, <1>2 DEF Records
  <2>4. /\ e \in Records /\ e.status = b.status /\ e.cycleRoot = b.cycleRoot
        /\ e.error = b.error /\ e.dfsIndex = b.dfsIndex /\ e.asyncEvaluating = b.asyncEvaluating
        /\ e.asyncParentModules = b.asyncParentModules /\ SameImport(e, b)
        /\ e.pendingAsyncDependencies = n
    BY ONLY <2>3 DEF Records, SameImport
  <2> QED
    BY <2>2, <2>4
<1>4. \A x \in Module : md'[x] = LET b == IF x = m THEN e ELSE md[x]
                                 IN  IF x = q THEN [b EXCEPT !.asyncParentModules = parents] ELSE b
  <2>1. PICK one : one = [md EXCEPT ![m].dfsAncestorIndex = anc,
                                    ![m].pendingAsyncDependencies = @ + IF md[q].asyncEvaluating THEN 1 ELSE 0]
    OBVIOUS
  <2>2. one \in [Module -> Records] /\ one[m] = e /\ \A x \in Module \ {m} : one[x] = md[x]
    <3>1. one = [md EXCEPT ![m] = e]
      BY ONLY <2>1, <1>1, <1>2, <1>y, m \in Module
    <3>2. e \in Records
      BY <1>3
    <3> QED
      BY ONLY <3>1, <3>2, <1>y, m \in Module
  <2>3. md' = [one EXCEPT ![q].asyncParentModules = IF md[q].asyncEvaluating THEN Append(@, m) ELSE @]
    BY <2>1
  <2>4. one[q].asyncParentModules = md[q].asyncParentModules
    BY <2>2, <1>3
  <2>5. md' = [one EXCEPT ![q].asyncParentModules = parents]
    BY <2>3, <2>4, <1>1
  <2> QED
    BY ONLY <2>2, <2>5, m \in Module, q \in Module
<1>5. ASSUME NEW x \in Module
      PROVE  /\ md'[x].status = md[x].status /\ md'[x].cycleRoot = md[x].cycleRoot /\ md'[x].error = md[x].error
             /\ md'[x].asyncEvaluating = md[x].asyncEvaluating /\ md'[x].dfsIndex = md[x].dfsIndex
             /\ SameImport(md'[x], md[x])
             /\ md'[x].pendingAsyncDependencies = IF x = m THEN md[m].pendingAsyncDependencies + more
                                                           ELSE md[x].pendingAsyncDependencies
             /\ md'[x].asyncParentModules = IF x = q THEN parents ELSE md[x].asyncParentModules
  <2>1. PICK b : b = IF x = m THEN e ELSE md[x]
    OBVIOUS
  <2>2. /\ b \in Records /\ b.status = md[x].status /\ b.cycleRoot = md[x].cycleRoot
        /\ b.error = md[x].error /\ b.dfsIndex = md[x].dfsIndex /\ b.asyncEvaluating = md[x].asyncEvaluating
        /\ b.asyncParentModules = md[x].asyncParentModules /\ SameImport(b, md[x])
        /\ b.pendingAsyncDependencies = IF x = m THEN md[m].pendingAsyncDependencies + more
                                                 ELSE md[x].pendingAsyncDependencies
    BY <2>1, <1>3, <1>y DEF SameImport
  <2>3. md'[x] = IF x = q THEN [b EXCEPT !.asyncParentModules = parents] ELSE b
    BY <2>1, <1>4
  <2>4. /\ md'[x].status = b.status /\ md'[x].cycleRoot = b.cycleRoot /\ md'[x].error = b.error
        /\ md'[x].dfsIndex = b.dfsIndex /\ md'[x].asyncEvaluating = b.asyncEvaluating
        /\ SameImport(md'[x], b) /\ md'[x].pendingAsyncDependencies = b.pendingAsyncDependencies
        /\ md'[x].asyncParentModules = IF x = q THEN parents ELSE b.asyncParentModules
    BY ONLY <2>2, <2>3 DEF Records, SameImport
  <2> QED
    BY <2>2, <2>4 DEF SameImport
<1>6. \A x \in Module : md[x].pendingAsyncDependencies \in Int /\ md[x] \in Records
  BY <1>y DEF Records
<1>7. ASSUME NEW x \in Module
      PROVE  /\ md'[x].pendingAsyncDependencies =
                  md[x].pendingAsyncDependencies + IF x = m /\ md[q].asyncEvaluating THEN 1 ELSE 0
             /\ deps'[x] = deps[x] + IF x = m /\ md[q].asyncEvaluating THEN 1 ELSE 0
             /\ md'[x].asyncParentModules =
                  IF x = q /\ md[q].asyncEvaluating THEN Append(md[x].asyncParentModules, m)
                                                    ELSE md[x].asyncParentModules
  <2>1. md[x].pendingAsyncDependencies \in Int /\ deps[x] \in Nat
    BY <1>6, <1>y
  <2>2. md'[x].pendingAsyncDependencies =
                  md[x].pendingAsyncDependencies + IF x = m /\ md[q].asyncEvaluating THEN 1 ELSE 0
    BY ONLY <2>1, <1>5, <1>1, x \in Module
  <2>3. deps'[x] = deps[x] + IF x = m /\ md[q].asyncEvaluating THEN 1 ELSE 0
    <3>1. PICK n : n = deps[m] + more
      OBVIOUS
    <3>2. deps' = [deps EXCEPT ![m] = n]
      BY <3>1, <1>1
    <3>3. deps'[m] = n /\ \A z \in Module \ {m} : deps'[z] = deps[z]
      BY ONLY <3>2, <1>y, m \in Module
    <3>4. CASE x = m
      BY <3>1, <3>3, <3>4, <1>1
    <3>5. CASE x # m
      BY <3>3, <3>5, <2>1
    <3> QED
      BY <3>4, <3>5
  <2>4. md'[x].asyncParentModules =
                  IF x = q /\ md[q].asyncEvaluating THEN Append(md[x].asyncParentModules, m)
                                                    ELSE md[x].asyncParentModules
    BY ONLY <1>5, <1>1, x \in Module
  <2> QED
    BY <2>2, <2>3, <2>4
<1> QED
  BY <1>5, <1>7 DEF Passed

\* The calls when the innermost one goes on.
LEMMA NextRequest ==
  ASSUME ModulesInv, RootsAgree, InEvaluation, Len(frames) > 1, NEW m, m = frames[1].m,
         frames' = <<Frame("innerModuleEvaluation", m, frames[1].i + 1)>> \o Tail(frames)
  PROVE  /\ frames' \in Seq(WalkFrames) /\ Len(frames') = Len(frames) /\ frames' # << >>
         /\ frames'[1].fn = "innerModuleEvaluation" /\ frames'[1].i = frames[1].i + 1
         /\ frames'[Len(frames')] = frames[Len(frames)]
         /\ \A x : Executing(x)' <=> Executing(x)
         /\ \A x \in Module : \A k \in Nat : Past(x, k)' => Past(x, k) \/ (x = m /\ k = frames[1].i)
<1>1. frames \in Seq(WalkFrames) /\ frames # << >> /\ Len(frames) \in Nat
  BY EvaluationCalls
<1>2. /\ m \in Module /\ frames[1].fn = "innerModuleEvaluation" /\ frames[1].i \in Nat
      /\ \A j \in 1 .. Len(frames) : frames[j].fn = "innerModuleEvaluation" /\ frames[j].m = m => j = 1
  BY InnermostCall
<1>3. PICK f : f = Frame("innerModuleEvaluation", m, frames[1].i + 1)
  OBVIOUS
<1>4. f \in WalkFrames /\ f.fn = "innerModuleEvaluation" /\ f.m = m /\ f.i = frames[1].i + 1
  BY <1>2, <1>3 DEF Frame, WalkFrames, FrameSet
<1>5. PICK u : u = Tail(frames)
  OBVIOUS
<1>6. /\ u \in Seq(WalkFrames) /\ Len(u) = Len(frames) - 1
      /\ \A j \in 1 .. Len(u) : u[j] = frames[j + 1]
  BY ONLY <1>1, <1>5, SMTT(30)
<1>7. frames' = <<f>> \o u
  BY <1>3, <1>5
<1>8. /\ frames' \in Seq(WalkFrames) /\ Len(frames') = Len(u) + 1 /\ frames'[1] = f
      /\ \A j \in 1 .. Len(u) : frames'[j + 1] = u[j]
  BY ONLY <1>4, <1>6, <1>7, SMTT(30)
<1>9. PICK n : n = Len(frames)
  OBVIOUS
<1>10. n \in Nat /\ n > 1 /\ Len(u) = n - 1
  BY <1>1, <1>6, <1>9
<1>11. /\ 1 \in 1 .. n /\ n \in 1 .. n /\ n # 1 /\ (n - 1) + 1 = n
       /\ \A j \in 1 .. n : j = 1 \/ (j - 1 \in 1 .. n - 1 /\ (j - 1) + 1 = j)
  BY ONLY <1>10
<1>12. Len(frames') = n
  BY <1>8, <1>10, <1>11
<1>13. \A j \in 1 .. n : j # 1 => frames'[j] = frames[j]
  <2> SUFFICES ASSUME NEW j \in 1 .. n, j # 1 PROVE frames'[j] = frames[j]
    OBVIOUS
  <2>1. PICK i : i = j - 1
    OBVIOUS
  <2>2. i \in 1 .. Len(u) /\ i + 1 = j
    BY <2>1, <1>10, <1>11
  <2>3. frames'[i + 1] = u[i] /\ u[i] = frames[i + 1]
    BY <2>2, <1>6, <1>8
  <2> QED
    BY <2>2, <2>3
<1>14. ASSUME NEW x PROVE Executing(x)' <=> Executing(x)
  <2>1. \A j \in 1 .. n : frames'[j].m = frames[j].m /\ frames'[j].fn = frames[j].fn
    BY <1>2, <1>4, <1>8, <1>13
  <2> QED
    BY <2>1, <1>9, <1>12 DEF Executing
<1>15. ASSUME NEW x \in Module, NEW k \in Nat, Past(x, k)' PROVE Past(x, k) \/ (x = m /\ k = frames[1].i)
  <2>1. CASE x = m
    <3>1. k < frames[1].i + 1
      BY <2>1, <1>15, <1>4, <1>8, <1>11, <1>12 DEF Past
    <3>2. k < frames[1].i \/ k = frames[1].i
      BY <3>1, <1>2
    <3> QED
      BY <3>2, <2>1, <1>2 DEF Past
  <2>2. CASE x # m
    <3> SUFFICES ASSUME NEW j \in 1 .. Len(frames), frames[j].fn = "innerModuleEvaluation", frames[j].m = x
                 PROVE  k < frames[j].i
      BY DEF Past
    <3>1. j # 1
      BY <2>2
    <3>2. frames'[j] = frames[j] /\ j \in 1 .. Len(frames')
      BY <3>1, <1>9, <1>12, <1>13
    <3> QED
      BY <3>2, <1>15 DEF Past
  <2> QED
    BY <2>1, <2>2
<1>16. frames' # << >> /\ frames'[Len(frames')] = frames[Len(frames)] /\ frames'[1].fn = "innerModuleEvaluation"
       /\ frames'[1].i = frames[1].i + 1
  <2>1. frames' # << >>
    <3>1. CASE frames' = << >>
      <4>1. Len(frames') = 0
        BY ONLY <3>1
      <4>2. n = 0
        BY <4>1, <1>12
      <4> QED
        BY ONLY <4>2, <1>10
    <3> QED
      BY <3>1
  <2> QED
    BY <2>1, <1>4, <1>8, <1>9, <1>11, <1>12, <1>13
<1> QED
  BY <1>8, <1>9, <1>12, <1>14, <1>15, <1>16

\* The innermost call goes on after request r, which q stands for.
PassStep(m, r, q) ==
    /\ m = frames[1].m /\ Len(frames) > 1
    /\ frames[1].i \in 1 .. Len(requests[m]) /\ r = requests[m][frames[1].i] /\ r \in Module /\ q \in Module
    /\ \/ md[r].status = "Evaluating" /\ q = r
       \/ r \in Rooted /\ q = md[r].cycleRoot /\ ~ md[q].error
    /\ Passed(m, q) /\ deps' \in [Module -> Nat] /\ OneDependencyEach'
    /\ frames' = <<Frame("innerModuleEvaluation", m, frames[1].i + 1)>> \o Tail(frames)
    /\ UNCHANGED <<requests, jobs, imports, call, running, runs, done, escaped>>

\* What such a step does to the parents.
MoreParents(m, q) ==
    /\ \A x \in Module : ToSet(Parents(x)) \subseteq ToSet(Parents(x)')
    /\ md[q].asyncEvaluating => m \in ToSet(Parents(q)')
    /\ \A x \in Module : \A z \in ToSet(Parents(x)') :
          z \in ToSet(Parents(x)) \/ (x = q /\ md[q].asyncEvaluating /\ z = m)
    /\ \A x \in Module : \A i \in 1 .. Len(Parents(x)') :
          \/ i \in 1 .. Len(Parents(x)) /\ Parents(x)'[i] = Parents(x)[i]
          \/ x = q /\ md[q].asyncEvaluating /\ i = Len(Parents(q)) + 1 /\ Parents(x)'[i] = m
    /\ \A x \in Module : x # q \/ ~ md[q].asyncEvaluating => Parents(x)' = Parents(x)

LEMMA PassParents ==
  ASSUME Types, NEW m \in Module, NEW q \in Module, Passed(m, q)
  PROVE  MoreParents(m, q)
<1>1. \A x \in Module : Parents(x) \in Seq(Module)
  BY DEF Types, Records, Parents
<1>2. \A x \in Module : Parents(x)' = IF x = q /\ md[q].asyncEvaluating THEN Append(Parents(x), m) ELSE Parents(x)
  BY DEF Passed, Parents
<1>3. CASE ~ md[q].asyncEvaluating
  BY <1>2, <1>3 DEF MoreParents
<1>4. CASE md[q].asyncEvaluating
  <2>1. PICK s, t : s = Parents(q) /\ t = Parents(q)'
    OBVIOUS
  <2>2. s \in Seq(Module) /\ t = Append(s, m)
    BY <2>1, <1>1, <1>2, <1>4
  <2>3. /\ t \in Seq(Module) /\ Len(t) = Len(s) + 1 /\ t[Len(s) + 1] = m
        /\ \A i \in 1 .. Len(t) : (i \in 1 .. Len(s) /\ t[i] = s[i]) \/ (i = Len(s) + 1 /\ t[i] = m)
        /\ ToSet(t) = ToSet(s) \union {m}
    <3>1. OneLonger(s, m, t)
      BY ONLY <2>2, m \in Module, OneMore
    <3> QED
      BY ONLY <3>1 DEF OneLonger
  <2>4. \A x \in Module : x # q => Parents(x)' = Parents(x)
    BY <1>2
  <2>5. \A x \in Module : ToSet(Parents(x)) \subseteq ToSet(Parents(x)')
    BY <2>1, <2>3, <2>4
  <2>6. \A x \in Module : \A z \in ToSet(Parents(x)') : z \in ToSet(Parents(x)) \/ (x = q /\ z = m)
    BY <2>1, <2>3, <2>4
  <2>7. \A x \in Module : \A i \in 1 .. Len(Parents(x)') :
          \/ i \in 1 .. Len(Parents(x)) /\ Parents(x)'[i] = Parents(x)[i]
          \/ x = q /\ i = Len(Parents(q)) + 1 /\ Parents(x)'[i] = m
    BY <2>1, <2>3, <2>4
  <2>8. m \in ToSet(Parents(q)')
    BY <2>1, <2>3
  <2> QED
    BY <2>4, <2>5, <2>6, <2>7, <2>8, <1>4 DEF MoreParents
<1> QED
  BY <1>3, <1>4

\* What is known when the step is taken.
PassKnown(m, r, q) ==
    /\ m \in Module /\ q \in Module /\ r \in Module
    /\ Executing(m) /\ md[m].status = "Evaluating" /\ runs[m] = 0 /\ ~ md[m].asyncEvaluating
    /\ ~ md[q].error /\ md[q].status \in Started
    /\ md[q].status = "Evaluating" => q = r
    /\ md[q].asyncEvaluating => deps[m] = 0 /\ q # m /\ deps'[m] = 1
    /\ r \in ToSet(requests[m]) /\ requests[m] # << >>

LEMMA PassFacts ==
  ASSUME ModulesInv, RootsAgree, Waits, InEvaluation, NEW m, NEW r, NEW q, PassStep(m, r, q)
  PROVE  PassKnown(m, r, q)
<1>t. Types
  BY DEF ModulesInv
<1>p. /\ m = frames[1].m /\ Len(frames) > 1 /\ r \in Module /\ q \in Module
      /\ frames[1].i \in 1 .. Len(requests[m]) /\ r = requests[m][frames[1].i]
      /\ (md[r].status = "Evaluating" /\ q = r) \/ (r \in Rooted /\ q = md[r].cycleRoot /\ ~ md[q].error)
  BY DEF PassStep
<1>1. Executing(m) /\ m \in Module /\ md[m].status = "Evaluating"
  BY <1>p, InnermostCall
<1>2. runs[m] = 0 /\ ~ md[m].asyncEvaluating
  BY <1>1 DEF Waits, WalkWaits, Walked
<1>3. ~ md[q].error
  BY <1>p DEF Waits, WalkWaits, Walked, HasStatus
<1>4. md[q].status \in Started /\ (md[q].status = "Evaluating" => q = r)
  <2>1. CASE r \in Rooted /\ q = md[r].cycleRoot
    <3>1. q \in Rooted
      BY <2>1, RootIsComplete
    <3> QED
      BY <3>1 DEF Rooted, HasStatus, Started
  <2> QED
    BY <2>1, <1>p DEF Started
<1>5. md[q].asyncEvaluating => deps[m] = 0 /\ q # m /\ deps'[m] = 1
  <2> SUFFICES ASSUME md[q].asyncEvaluating PROVE deps[m] = 0 /\ q # m /\ deps'[m] = 1
    OBVIOUS
  <2>1. deps[m] \in Nat /\ deps'[m] = deps[m] + 1 /\ deps'[m] <= 1
    <3>1. deps[m] \in Nat
      BY <1>1 DEF Waits, Bookkeeping, HistoryTypes
    <3>2. Passed(m, q) /\ OneDependencyEach'
      BY DEF PassStep
    <3> QED
      BY <3>1, <3>2, <1>1 DEF Passed, OneDependencyEach
  <2> QED
    BY <2>1, <1>2
<1>6. r \in ToSet(requests[m]) /\ requests[m] # << >>
  <2>1. requests[m] \in Seq(Module)
    BY <1>1, <1>t DEF Types
  <2>2. r \in ToSet(requests[m])
    BY <2>1, <1>p DEF ToSet
  <2>3. CASE requests[m] = << >>
    <3>1. frames[1].i \in 1 .. 0
      BY <2>3, <1>p
    <3> QED
      BY ONLY <3>1
  <2> QED
    BY <2>2, <2>3
<1> QED
  BY <1>1, <1>2, <1>3, <1>4, <1>5, <1>6, <1>p DEF PassKnown

LEMMA PassBooks ==
  ASSUME ModulesInv, RootsAgree, Waits, InEvaluation, NEW m, NEW r, NEW q, PassStep(m, r, q)
  PROVE  Bookkeeping'
<1>t. Types /\ HistoryTypes /\ Fresh /\ Registered /\ Waiting /\ Bodies
  BY DEF ModulesInv, Waits, Bookkeeping
<1>k. PassKnown(m, r, q)
  BY PassFacts
<1>m. m \in Module /\ q \in Module
  BY <1>k DEF PassKnown
<1>p. MoreParents(m, q)
  BY <1>m, <1>t, PassParents DEF PassStep
<1>u. UNCHANGED <<requests, jobs, running, runs, done>>
  BY DEF PassStep
<1>d. \A x \in Module :
          /\ md'[x].status = md[x].status /\ md'[x].error = md[x].error
          /\ md'[x].asyncEvaluating = md[x].asyncEvaluating
          /\ md'[x].pendingAsyncDependencies =
                md[x].pendingAsyncDependencies + IF x = m /\ md[q].asyncEvaluating THEN 1 ELSE 0
          /\ deps'[x] = deps[x] + IF x = m /\ md[q].asyncEvaluating THEN 1 ELSE 0
  BY DEF PassStep, Passed
<1>n. \A x \in Module : deps[x] \in Nat /\ md[x].pendingAsyncDependencies \in Int
  BY <1>t DEF HistoryTypes, Types, Records
<1>o. \A x \in Module : x # m => deps'[x] = deps[x] /\ md'[x].pendingAsyncDependencies = md[x].pendingAsyncDependencies
  BY <1>d, <1>n
<1>g. \A x \in Module : deps[x] > 0 => deps'[x] > 0
  BY <1>d, <1>n
<1>c. \A x \in Module : \A i \in 1 .. Len(Parents(x)') :
          \/ i \in 1 .. Len(Parents(x)) /\ Parents(x)'[i] = Parents(x)[i]
          \/ x = q /\ md[q].asyncEvaluating /\ i = Len(Parents(q)) + 1 /\ Parents(x)'[i] = m
  BY <1>p DEF MoreParents
<1>w. \A x \in Module : \A i \in 1 .. Len(Parents(x)) : Parents(x)[i] \in Module
  <2>1. \A x \in Module : Parents(x) \in Seq(Module)
    BY <1>t DEF Types, Records, Parents
  <2> QED
    BY <2>1
<1>r. \A x, y \in Module : \A i \in 1 .. Len(Parents(x)) : \A j \in 1 .. Len(Parents(y)) :
          Parents(x)[i] = Parents(y)[j] => x = y /\ i = j
  BY <1>t DEF Registered
<1>1. HistoryTypes'
  BY <1>t, <1>u DEF HistoryTypes, PassStep
<1>2. Fresh'
  <2> SUFFICES ASSUME NEW x \in Module, md'[x].status \notin Started
               PROVE  /\ runs'[x] = 0 /\ deps'[x] = 0 /\ md'[x].pendingAsyncDependencies = 0
                      /\ ~ md'[x].asyncEvaluating /\ ~ md'[x].error /\ Parents(x)' = << >>
    BY DEF Fresh
  <2>1. x # m /\ x # q /\ md[x].status \notin Started
    BY <1>d, <1>k DEF PassKnown, Started
  <2>2. Parents(x)' = Parents(x)
    BY <2>1, <1>p DEF MoreParents
  <2> QED
    BY <2>1, <2>2, <1>t, <1>u, <1>d, <1>o DEF Fresh
<1>3. Registered'
  <2>1. \A x \in Module : requests'[x] = << >> => deps'[x] = 0
    BY <1>t, <1>u, <1>o, <1>k DEF Registered, PassKnown
  <2>2. ASSUME NEW x \in Module, NEW i \in 1 .. Len(Parents(x)')
        PROVE  deps'[Parents(x)'[i]] > 0
    <3>1. CASE i \in 1 .. Len(Parents(x)) /\ Parents(x)'[i] = Parents(x)[i]
      BY <3>1, <1>w, <1>g, <1>t DEF Registered
    <3>2. CASE md[q].asyncEvaluating /\ Parents(x)'[i] = m
      BY <3>2, <1>k DEF PassKnown
    <3> QED
      BY <3>1, <3>2, <1>c
  <2>3. ASSUME NEW x \in Module, NEW y \in Module, NEW i \in 1 .. Len(Parents(x)'),
               NEW j \in 1 .. Len(Parents(y)'), Parents(x)'[i] = Parents(y)'[j]
        PROVE  x = y /\ i = j
    <3>1. CASE /\ i \in 1 .. Len(Parents(x)) /\ Parents(x)'[i] = Parents(x)[i]
               /\ j \in 1 .. Len(Parents(y)) /\ Parents(y)'[j] = Parents(y)[j]
      <4>1. Parents(x)[i] = Parents(y)[j]
        BY <3>1, <2>3
      <4> QED
        BY <4>1, <3>1, <1>r
    <3>2. CASE /\ x = q /\ md[q].asyncEvaluating /\ i = Len(Parents(q)) + 1 /\ Parents(x)'[i] = m
               /\ y = q /\ j = Len(Parents(q)) + 1
      BY <3>2
    <3>3. \A z \in Module : \A k \in 1 .. Len(Parents(z)) : md[q].asyncEvaluating => Parents(z)[k] # m
      BY <1>k, <1>t DEF Registered, PassKnown
    <3> QED
      BY <3>1, <3>2, <3>3, <2>3, <1>c
  <2> QED
    BY <2>1, <2>2, <2>3 DEF Registered
<1>4. Waiting'
  <2> SUFFICES ASSUME NEW x \in Module, x \notin done' \/ md'[x].asyncEvaluating, NEW i \in 1 .. Len(Parents(x)')
               PROVE  runs'[Parents(x)'[i]] = 0
    BY DEF Waiting
  <2>1. x \notin done \/ md[x].asyncEvaluating
    BY <1>u, <1>d
  <2>2. CASE i \in 1 .. Len(Parents(x)) /\ Parents(x)'[i] = Parents(x)[i]
    BY <2>1, <2>2, <1>t, <1>u DEF Waiting
  <2>3. CASE Parents(x)'[i] = m
    BY <2>3, <1>k, <1>u DEF PassKnown
  <2> QED
    BY <2>2, <2>3, <1>c
<1>5. Bodies'
  BY <1>t, <1>u DEF Bodies
<1> QED
  BY <1>1, <1>2, <1>3, <1>4, <1>5 DEF Bookkeeping

LEMMA PassWalk ==
  ASSUME ModulesInv, RootsAgree, Waits, InEvaluation, NEW m, NEW r, NEW q, PassStep(m, r, q)
  PROVE  WalkWaits'
<1>t. Types /\ Walked /\ TreeWalk /\ RequestsWalk
  BY DEF ModulesInv, Waits, WalkWaits
<1>k. PassKnown(m, r, q)
  BY PassFacts
<1>m. m \in Module /\ q \in Module /\ r \in Module
  BY <1>k DEF PassKnown
<1>s. /\ m = frames[1].m /\ Len(frames) > 1
      /\ frames[1].i \in 1 .. Len(requests[m]) /\ r = requests[m][frames[1].i]
      /\ (md[r].status = "Evaluating" /\ q = r) \/ (r \in Rooted /\ q = md[r].cycleRoot /\ ~ md[q].error)
      /\ frames' = <<Frame("innerModuleEvaluation", m, frames[1].i + 1)>> \o Tail(frames)
  BY DEF PassStep
<1>p. /\ \A x \in Module : ToSet(Parents(x)) \subseteq ToSet(Parents(x)')
      /\ md[q].asyncEvaluating => m \in ToSet(Parents(q)')
      /\ \A x \in Module : \A z \in ToSet(Parents(x)') :
            z \in ToSet(Parents(x)) \/ (x = q /\ md[q].asyncEvaluating /\ z = m)
      /\ \A x \in Module : x # q \/ ~ md[q].asyncEvaluating => Parents(x)' = Parents(x)
  <2>1. MoreParents(m, q)
    BY <1>m, <1>t, PassParents DEF PassStep
  <2> QED
    BY <2>1 DEF MoreParents
<1>u. requests' = requests /\ runs' = runs /\ done' = done
  BY DEF PassStep
<1>d. \A x \in Module :
          /\ md'[x].status = md[x].status /\ md'[x].cycleRoot = md[x].cycleRoot /\ md'[x].error = md[x].error
          /\ md'[x].asyncEvaluating = md[x].asyncEvaluating /\ md'[x].dfsIndex = md[x].dfsIndex
          /\ md'[x].pendingAsyncDependencies =
                md[x].pendingAsyncDependencies + IF x = m /\ md[q].asyncEvaluating THEN 1 ELSE 0
          /\ deps'[x] = deps[x] + IF x = m /\ md[q].asyncEvaluating THEN 1 ELSE 0
  BY DEF PassStep, Passed
<1>f. /\ \A x : Executing(x)' <=> Executing(x)
      /\ \A x \in Module : \A k \in Nat : Past(x, k)' => Past(x, k) \/ (x = m /\ k = frames[1].i)
  BY <1>s, NextRequest
<1>i. /\ \A x \in Module : Executing(x) => md[x].dfsIndex <= md[m].dfsIndex
      /\ \A x \in Module : md[x].dfsIndex \in Nat
  BY <1>s, InnermostCall, EvaluationCalls
<1>v. HasStatus({"Evaluating"})' = HasStatus({"Evaluating"}) /\ HasStatus({"Evaluating"}) \subseteq Module
      /\ Rooted' = Rooted /\ m \in HasStatus({"Evaluating"})
  BY <1>d, <1>k DEF HasStatus, Rooted, PassKnown
<1>n. \A y, z \in Module : NoneBetween(y, z) => NoneBetween(y, z)'
  BY <1>f, <1>d DEF NoneBetween
<1>1. Walked'
  <2>1. ASSUME NEW x \in Module, Executing(x)'
        PROVE  /\ runs'[x] = 0 /\ md'[x].pendingAsyncDependencies = deps'[x]
               /\ ~ md'[x].asyncEvaluating /\ Parents(x)' = << >>
    <3>1. /\ runs[x] = 0 /\ md[x].pendingAsyncDependencies = deps[x]
          /\ ~ md[x].asyncEvaluating /\ Parents(x) = << >>
      BY <2>1, <1>f, <1>t DEF Walked
    <3>2. Parents(x)' = Parents(x)
      BY <3>1, <1>p
    <3>3. md'[x].pendingAsyncDependencies = deps'[x]
      BY <3>1, <1>d
    <3> QED
      BY <3>1, <3>2, <3>3, <1>u, <1>d
  <2>2. \A x \in HasStatus({"Evaluating"})' : ~ md'[x].error
    BY <1>t, <1>v, <1>d DEF Walked
  <2>3. \A x \in HasStatus({"Evaluating"})' : Executing(x)' \/ x \in done' \/ md'[x].asyncEvaluating
    BY <1>t, <1>v, <1>d, <1>f, <1>u DEF Walked
  <2>4. ASSUME NEW x \in HasStatus({"Evaluating"}), NEW z \in ToSet(Parents(x)')
        PROVE  z \in HasStatus({"Evaluating"}) /\ x \in ToSet(requests[z])
    <3>1. x \in Module /\ md[x].status = "Evaluating"
      BY DEF HasStatus
    <3>2. CASE z \in ToSet(Parents(x))
      BY <3>2, <1>t DEF Walked
    <3>3. CASE x = q /\ z = m
      BY <3>1, <3>3, <1>k, <1>v DEF PassKnown
    <3> QED
      BY <3>1, <3>2, <3>3, <1>p
  <2> QED
    BY <2>1, <2>2, <2>3, <2>4, <1>u, <1>v DEF Walked
<1>2. TreeWalk'
  <2> SUFFICES ASSUME NEW y \in HasStatus({"Evaluating"}), ~ Executing(y), y \notin done
               PROVE  \E z \in HasStatus({"Evaluating"}) :
                         md'[z].dfsIndex < md'[y].dfsIndex /\ NoneBetween(z, y)' /\ TreeParent(z, y)'
    BY <1>v, <1>f, <1>u DEF TreeWalk
  <2>1. PICK z \in HasStatus({"Evaluating"}) :
           md[z].dfsIndex < md[y].dfsIndex /\ NoneBetween(z, y) /\ TreeParent(z, y)
    BY <1>t DEF TreeWalk
  <2>2. y \in Module /\ z \in Module /\ md[y].status = "Evaluating"
    BY DEF HasStatus
  <2>3. z \in ToSet(Parents(y)')
    <3>1. CASE z \in ToSet(Parents(y))
      BY <3>1, <2>2, <1>p
    <3>2. CASE frames[1].m = z /\ requests[z][frames[1].i] = y
      <4>1. z = m /\ y = r
        BY <3>2, <1>s
      <4>2. q = r
        BY <4>1, <2>2, <1>s DEF Rooted, HasStatus
      <4>3. md[y].asyncEvaluating
        BY <1>t DEF Walked
      <4> QED
        BY <4>1, <4>2, <4>3, <1>p
    <3> QED
      BY <3>1, <3>2, <2>1 DEF TreeParent
  <2> QED
    BY <2>1, <2>2, <2>3, <1>d, <1>n DEF TreeParent
<1>3. RequestsWalk'
  <2> SUFFICES ASSUME NEW y \in HasStatus({"Evaluating"}), NEW k \in 1 .. Len(requests[y]), Past(y, k)',
                      NEW x, x = requests[y][k]
               PROVE  Seen(y, x)'
    BY <1>v, <1>u DEF RequestsWalk
  <2>1. y \in Module /\ k \in Nat /\ requests[y] \in Seq(Module)
    BY <1>t DEF HasStatus, Types
  <2>2. x \in Module
    BY <2>1
  <2>a. AllDone(x) => AllDone(x)'
    BY <2>2, <1>u, AllDoneGrows
  <2>3. CASE Past(y, k)
    <3>1. Seen(y, x)
      BY <2>3, <1>t DEF RequestsWalk
    <3>2. CASE x \in HasStatus({"Evaluating"}) /\ NoneBetween(y, x)
      BY <3>2, <2>1, <2>2, <1>n, <1>v DEF Seen
    <3>3. CASE x \in Rooted /\ AllDone(x)
      BY <3>3, <2>a, <1>v DEF Seen
    <3>4. CASE x \in Rooted /\ y \in ToSet(Parents(md[x].cycleRoot))
      <4>1. PICK c : c = md[x].cycleRoot
        OBVIOUS
      <4>2. c \in Module
        BY <4>1, <3>4, RootIsComplete
      <4>3. y \in ToSet(Parents(c)')
        BY <4>1, <4>2, <3>4, <1>p
      <4>4. Parents(c)' = Parents(md[x].cycleRoot)'
        BY <4>1, <2>2, <1>d DEF Parents
      <4> QED
        BY <4>3, <4>4, <3>4, <1>v DEF Seen
    <3> QED
      BY <3>1, <3>2, <3>3, <3>4 DEF Seen
  <2>4. CASE y = m /\ k = frames[1].i
    <3>1. x = r
      BY <2>4, <1>s
    <3>2. CASE md[r].status = "Evaluating"
      <4>1. NoneBetween(y, x)
        BY <3>1, <2>4, <1>i DEF NoneBetween
      <4> QED
        BY <4>1, <3>1, <3>2, <2>1, <2>2, <1>n, <1>v DEF Seen, HasStatus
    <3>3. CASE r \in Rooted /\ q = md[r].cycleRoot /\ ~ md[q].error
      <4>1. q \in Rooted /\ md[q].cycleRoot = q /\ Reaches(q, r)
        BY <3>3, RootIsComplete
      <4>2. CASE md[q].asyncEvaluating
        <5>1. m \in ToSet(Parents(q)') /\ Parents(q)' = Parents(md[x].cycleRoot)'
          BY <4>2, <3>1, <3>3, <2>2, <1>d, <1>p DEF Parents
        <5> QED
          BY <5>1, <3>1, <3>3, <2>4, <1>v DEF Seen
      <4>3. CASE ~ md[q].asyncEvaluating
        <5>1. q \in done
          BY <4>1, <4>3, <3>3 DEF Waits, Findings, Outcomes
        <5>2. AllDone(q)
          BY <5>1, <4>1, RootDone DEF Waits, Findings
        <5>3. AllDone(r)
          BY <5>2, <4>1, <1>m, AllDoneOn
        <5> QED
          BY <5>3, <3>1, <3>3, <2>a, <1>v DEF Seen
      <4> QED
        BY <4>2, <4>3
    <3> QED
      BY <3>2, <3>3, <1>s
  <2> QED
    BY <2>1, <2>3, <2>4, <1>f
<1> QED
  BY <1>1, <1>2, <1>3 DEF WalkWaits

LEMMA PassWaits ==
  ASSUME ModulesInv, RootsAgree, Waits, ImportsWait, InEvaluation, NEW m, NEW r, NEW q, PassStep(m, r, q)
  PROVE  Waits' /\ ImportsWait'
<1>t. Types /\ Findings /\ frames \in Seq(WalkFrames)
  BY EvaluationCalls DEF ModulesInv, Waits
<1>k. PassKnown(m, r, q)
  BY PassFacts
<1>m. m \in Module /\ q \in Module /\ r \in Module /\ ~ md[q].error
  BY <1>k DEF PassKnown
<1>s. /\ m = frames[1].m /\ Len(frames) > 1
      /\ frames' = <<Frame("innerModuleEvaluation", m, frames[1].i + 1)>> \o Tail(frames)
  BY DEF PassStep
<1>p. MoreParents(m, q)
  BY <1>m, <1>t, PassParents DEF PassStep
<1>u. UNCHANGED <<requests, jobs, imports, call, running, runs, done, escaped>>
  BY DEF PassStep
<1>d. \A x \in Module :
          /\ md'[x].status = md[x].status /\ md'[x].cycleRoot = md[x].cycleRoot /\ md'[x].error = md[x].error
          /\ md'[x].asyncEvaluating = md[x].asyncEvaluating /\ md'[x].dfsIndex = md[x].dfsIndex
          /\ SameImport(md'[x], md[x])
  BY DEF PassStep, Passed
<1>f. /\ frames' \in Seq(WalkFrames) /\ frames' # << >>
      /\ frames'[1].fn = "innerModuleEvaluation"
      /\ frames'[Len(frames')] = frames[Len(frames)]
  BY <1>s, NextRequest
<1>v. Rooted' = Rooted
  BY <1>d DEF HasStatus, Rooted
<1>1. Bookkeeping'
  BY PassBooks
<1>2. Calling'
  <2> SUFFICES ASSUME ~ escaped', NEW x \in Module, md'[x].error, NEW l \in 1 .. Len(md'[x].asyncParentModules)
               PROVE  md'[md'[x].asyncParentModules[l]].error
    BY <1>f, WalkCalling
  <2>1. x # q /\ md[x].error /\ ~ escaped
    BY <1>m, <1>d, <1>u
  <2>2. md'[x].asyncParentModules = Parents(x) /\ Parents(x) \in Seq(Module)
    BY <2>1, <1>p, <1>t DEF MoreParents, Parents, Types, Records
  <2>3. PICK z : z = Parents(x)[l]
    OBVIOUS
  <2>4. z \in Module
    BY <2>2, <2>3
  <2>5. md[z].error
    BY <2>1, <2>2, <2>3, <1>t, WalkReported
  <2> QED
    BY <2>2, <2>3, <2>4, <2>5, <1>d
<1>3. WalkWaits'
  BY PassWalk
<1>4. Findings'
  <2>1. \A x \in Rooted : x \in Module
    BY DEF Rooted, HasStatus
  <2>2. Outcomes'
    BY <2>1, <1>t, <1>v, <1>d, <1>u DEF Findings, Outcomes
  <2>3. Grows
    BY <2>1, <1>v, <1>d, <1>u, <1>p DEF Grows, MoreParents, Parents
  <2>4. Found' /\ Starts'
    BY <2>3, <1>v, <1>u, <1>t, FindingsGrow DEF Findings
  <2> QED
    BY <2>2, <2>4 DEF Findings
<1>5. ImportsWait'
  <2>1. Capable
    BY ImportsParts
  <2>2. Capable'
    BY <2>1, <1>f, <1>d, <1>u DEF Capable, SameImport, Started
  <2>3. ImportsMove
    BY <2>2, <1>u, <1>d DEF ImportsMove, SameImport
  <2> QED
    BY <2>3, <1>t, ImportsKept
<1> QED
  BY <1>1, <1>2, <1>3, <1>4, <1>5 DEF Waits

LEMMA EvaluateRequestWaits ==
  ASSUME ModulesInv, RootsAgree, Waits, ImportsWait, Loadable, OneDependencyEach', EvaluateRequest
  PROVE  Waits' /\ ImportsWait'
<1>t. Types /\ RootsAgree /\ LinkedFound /\ In("innerModuleEvaluation")
  BY Zenon DEF ModulesInv, EvaluateRequest
<1>s. InEvaluation /\ Len(frames) > 1
  BY <1>t, StageOf DEF ModulesInv
<1>w. PICK out : Walking("moduleEvaluation", "innerModuleEvaluation", "Evaluating", out)
  BY <1>s DEF InEvaluation
<1>2. /\ Top = frames[1] /\ Top.m \in Module /\ Top.i \in Nat /\ Top.fn = "innerModuleEvaluation"
      /\ md[Top.m].status = "Evaluating"
  BY <1>w, <1>s, <1>t, InnerCall
<1>m. PICK m : m = Top.m
  OBVIOUS
<1>r. PICK r : r = requests[m][Top.i]
  OBVIOUS
<1>3. /\ Top.i <= Len(requests[m]) /\ r \in Module /\ m \in Module /\ r \in ToSet(requests[m])
      /\ Top.i \in 1 .. Len(requests[m])
  <2>1. Top.i <= Len(requests[Top.m])
    BY Zenon DEF EvaluateRequest
  <2> QED
    BY <2>1, <1>w, <1>2, <1>s, <1>t, <1>m, <1>r, RequestAt
<1>4. fault[r] # "notFound"
  BY <1>3 DEF Loadable
<1>u. requests' = requests /\ jobs' = jobs /\ running' = running /\ runs' = runs /\ done' = done /\ escaped' = escaped
  BY Zenon DEF EvaluateRequest, env, scenario
<1>y. md \in [Module -> Records] /\ deps \in [Module -> Nat]
  BY <1>t DEF Types, Waits, Bookkeeping, HistoryTypes
<1>z. md[r].status \in {"Linked", "Evaluating", "Evaluated"}
  <2>1. m \in LinkedOrMore
    BY <1>2, <1>3, <1>m DEF LinkedOrMore, HasStatus
  <2>2. r \in LinkedOrMore
    BY <2>1, <1>3, <1>r, <1>t DEF LinkedFound
  <2> QED
    BY <2>2 DEF LinkedOrMore, HasStatus
<1>5. CASE NeedsEvaluation(r)
  <2>1. md[r].status = "Linked"
    BY <1>5, <1>z DEF NeedsEvaluation
  <2>2. Enter("innerModuleEvaluation", r, "Evaluating") /\ UNCHANGED <<call, imports, deps>>
    BY <1>4, <1>5, <1>m, <1>r DEF EvaluateRequest
  <2>3. /\ Len(frames) > 1 /\ frames[1].i <= Len(requests[frames[1].m])
        /\ requests[frames[1].m][frames[1].i] = r
        /\ UNCHANGED <<requests, jobs, call, imports, running, runs, deps, done, escaped>>
    BY <1>2, <1>3, <1>m, <1>r, <1>s, <1>u, <2>2
  <2> QED
    BY <2>1, <2>2, <2>3, <1>3, <1>s, EnterWaits
<1>q. PICK q : q = StandsFor(r)
  OBVIOUS
<1>6. CASE ~ NeedsEvaluation(r) /\ md[r].status = "Evaluated" /\ (md[r].error \/ md[q].error)
  <2>1. FailWalk /\ deps' = deps
    BY <1>4, <1>6, <1>m, <1>r, <1>q, Zenon DEF EvaluateRequest
  <2>2. StartsBody /\ md[call.m].status \in Started
    BY <1>u, <1>s, EntryStarted DEF StartsBody
  <2> QED
    BY <2>1, <2>2, <1>s, <1>u, FailWalkWaits
<1>7. CASE ~ NeedsEvaluation(r) /\ ~ (md[r].status = "Evaluated" /\ (md[r].error \/ md[q].error))
  <2>1. md[r].status = "Evaluated" => r \in Rooted /\ md[r].cycleRoot # None
    BY <1>7, <1>3, <1>t DEF RootsAgree, Rooted, HasStatus
  <2>2. /\ q \in Module
        /\ (md[r].status = "Evaluating" /\ q = r) \/ (r \in Rooted /\ q = md[r].cycleRoot /\ ~ md[q].error)
    <3>1. md[r].cycleRoot \in Module \union {None}
      BY <1>3, <1>y DEF Records
    <3> QED
      BY <3>1, <2>1, <1>7, <1>3, <1>q DEF StandsFor, NeedsEvaluation
  <2>3. PICK anc : anc = IF q = r /\ md[r].status = "Evaluating" /\ md[r].dfsAncestorIndex < md[m].dfsAncestorIndex
                         THEN md[r].dfsAncestorIndex ELSE md[m].dfsAncestorIndex
    OBVIOUS
  <2>4. anc \in Nat
    BY <2>3, <1>3, <1>y DEF Records
  <2>5. /\ md' = [md EXCEPT ![m].dfsAncestorIndex = anc,
                            ![m].pendingAsyncDependencies = @ + IF md[q].asyncEvaluating THEN 1 ELSE 0,
                            ![q].asyncParentModules = IF md[q].asyncEvaluating THEN Append(@, m) ELSE @]
        /\ deps' = [deps EXCEPT ![m] = @ + IF md[q].asyncEvaluating THEN 1 ELSE 0]
        /\ frames' = <<Frame(Top.fn, m, Top.i + 1)>> \o Tail(frames)
        /\ call' = call /\ imports' = imports
    BY <1>4, <1>7, <1>m, <1>r, <1>q, <2>3, Zenon DEF EvaluateRequest
  <2>6. Passed(m, q)
    <3>1. Types /\ HistoryTypes /\ m \in Module /\ q \in Module
      BY <2>2, <1>3, <1>t DEF Waits, Bookkeeping
    <3> QED
      BY ONLY <3>1, <2>4, <2>5, PassData
  <2>7. deps' \in [Module -> Nat]
    <3>1. PICK n : n = deps[m] + IF md[q].asyncEvaluating THEN 1 ELSE 0
      OBVIOUS
    <3>2. n \in Nat /\ deps' = [deps EXCEPT ![m] = n]
      BY <3>1, <2>5, <1>3, <1>y
    <3> QED
      BY ONLY <3>2, <1>y
  <2>8. frames' = <<Frame("innerModuleEvaluation", m, frames[1].i + 1)>> \o Tail(frames)
    BY <2>5, <1>2
  <2>9. PassStep(m, r, q)
    <3>1. UNCHANGED <<requests, jobs, imports, call, running, runs, done, escaped>>
      BY <2>5, <1>u
    <3>2. m = frames[1].m /\ Len(frames) > 1 /\ frames[1].i \in 1 .. Len(requests[m])
          /\ r = requests[m][frames[1].i] /\ r \in Module
      BY <1>2, <1>3, <1>m, <1>r, <1>s
    <3> QED
      BY ONLY <3>1, <3>2, <2>2, <2>6, <2>7, <2>8, OneDependencyEach' DEF PassStep
  <2> QED
    BY <2>9, <1>s, PassWaits
<1> QED
  BY <1>5, <1>6, <1>7

-----------------------------------------------------------------------------
(* Completion: the calls                                                    *)

\* The innermost call was replaced by n others; the ones below are as they were.
Below(n) ==
    /\ Len(frames) \in Nat /\ Len(frames) >= 1 /\ Len(frames') = (Len(frames) - 1) + n
    /\ \A j \in 2 .. Len(frames) : (j - 1) + n \in 1 .. Len(frames') /\ frames'[(j - 1) + n] = frames[j]
    /\ \A j \in 1 .. Len(frames') : j <= n \/ ((j - n) + 1 \in 2 .. Len(frames) /\ frames'[j] = frames[(j - n) + 1])

LEMMA TailOfCalls ==
  ASSUME frames \in Seq(AsyncFrames), frames # << >>, NEW u, u = Tail(frames)
  PROVE  /\ u \in Seq(AsyncFrames) /\ Len(frames) \in Nat /\ Len(frames) >= 1 /\ Len(u) = Len(frames) - 1
         /\ \A j \in 1 .. Len(u) : u[j] = frames[j + 1]
<1>1. u \in Seq(AsyncFrames) /\ Len(u) = Len(frames) - 1 /\ \A j \in 1 .. Len(u) : u[j] = frames[j + 1]
  BY ONLY frames \in Seq(AsyncFrames), frames # << >>, u = Tail(frames), SMTT(30)
<1>2. Len(frames) \in Nat /\ Len(frames) >= 1
  BY ONLY frames \in Seq(AsyncFrames), frames # << >>, SMTT(30)
<1> QED
  BY <1>1, <1>2

LEMMA BelowShifted ==
  ASSUME Len(frames) \in Nat, Len(frames) >= 1, NEW n \in {0, 1, 2}, NEW u, Len(u) = Len(frames) - 1,
         \A j \in 1 .. Len(u) : u[j] = frames[j + 1],
         Len(frames') = Len(u) + n, \A j \in 1 .. Len(u) : frames'[j + n] = u[j]
  PROVE  Below(n)
<1>1. PICK k, l : k = Len(frames) /\ l = Len(frames')
  OBVIOUS
<1>2. k \in Nat /\ k >= 1 /\ Len(u) = k - 1 /\ l = (k - 1) + n
  BY <1>1
<1>3. ASSUME NEW j \in 2 .. k
      PROVE  (j - 1) + n \in 1 .. l /\ frames'[(j - 1) + n] = frames[j]
  <2>1. PICK i : i = j - 1
    OBVIOUS
  <2>2. i \in 1 .. k - 1 /\ i + 1 = j /\ (j - 1) + n = i + n /\ i + n \in 1 .. l
    BY ONLY <2>1, <1>2, n \in {0, 1, 2}, j \in 2 .. k
  <2>3. frames'[i + n] = u[i] /\ u[i] = frames[i + 1]
    BY <2>2, <1>2
  <2> QED
    BY <2>2, <2>3
<1>4. ASSUME NEW j \in 1 .. l
      PROVE  j <= n \/ ((j - n) + 1 \in 2 .. k /\ frames'[j] = frames[(j - n) + 1])
  <2> SUFFICES ASSUME ~ (j <= n) PROVE (j - n) + 1 \in 2 .. k /\ frames'[j] = frames[(j - n) + 1]
    OBVIOUS
  <2>1. PICK i : i = j - n
    OBVIOUS
  <2>2. i \in 1 .. k - 1 /\ i + n = j /\ i + 1 \in 2 .. k
    BY ONLY <2>1, <1>2, n \in {0, 1, 2}, j \in 1 .. l, ~ (j <= n)
  <2>3. frames'[i + n] = u[i] /\ u[i] = frames[i + 1]
    BY <2>2, <1>2
  <2> QED
    BY <2>1, <2>2, <2>3
<1> QED
  BY <1>1, <1>2, <1>3, <1>4 DEF Below

LEMMA NoneMore ==
  ASSUME frames \in Seq(AsyncFrames), frames # << >>, frames' = Tail(frames)
  PROVE  frames' \in Seq(AsyncFrames) /\ Below(0)
<1>1. PICK u : u = Tail(frames)
  OBVIOUS
<1>2. /\ u \in Seq(AsyncFrames) /\ Len(frames) \in Nat /\ Len(frames) >= 1 /\ Len(u) = Len(frames) - 1
      /\ \A j \in 1 .. Len(u) : u[j] = frames[j + 1]
  BY <1>1, TailOfCalls
<1>3. Len(frames') = Len(u) + 0 /\ \A j \in 1 .. Len(u) : frames'[j + 0] = u[j]
  BY <1>1, <1>2
<1>4. PICK n : n = 0
  OBVIOUS
<1>5. n \in {0, 1, 2} /\ Len(frames') = Len(u) + n /\ \A j \in 1 .. Len(u) : frames'[j + n] = u[j]
  BY <1>3, <1>4
<1>6. Below(n)
  BY <1>2, <1>5, BelowShifted
<1> QED
  BY <1>1, <1>2, <1>4, <1>6

LEMMA OneCall ==
  ASSUME frames \in Seq(AsyncFrames), frames # << >>, NEW f \in AsyncFrames, frames' = <<f>> \o Tail(frames)
  PROVE  frames' \in Seq(AsyncFrames) /\ Below(1) /\ frames'[1] = f
<1>1. PICK u : u = Tail(frames)
  OBVIOUS
<1>2. /\ u \in Seq(AsyncFrames) /\ Len(frames) \in Nat /\ Len(frames) >= 1 /\ Len(u) = Len(frames) - 1
      /\ \A j \in 1 .. Len(u) : u[j] = frames[j + 1]
  BY <1>1, TailOfCalls
<1>3. frames' = <<f>> \o u
  BY <1>1
<1>4. /\ frames' \in Seq(AsyncFrames) /\ Len(frames') = Len(u) + 1 /\ frames'[1] = f
      /\ \A j \in 1 .. Len(u) : frames'[j + 1] = u[j]
  BY ONLY <1>2, <1>3, f \in AsyncFrames, SMTT(30)
<1>5. PICK n : n = 1
  OBVIOUS
<1>6. n \in {0, 1, 2} /\ Len(frames') = Len(u) + n /\ \A j \in 1 .. Len(u) : frames'[j + n] = u[j]
  BY <1>4, <1>5
<1>7. Below(n)
  BY <1>2, <1>6, BelowShifted
<1> QED
  BY <1>4, <1>5, <1>7

LEMMA TwoCalls ==
  ASSUME frames \in Seq(AsyncFrames), frames # << >>, NEW f \in AsyncFrames, NEW g \in AsyncFrames,
         frames' = <<g>> \o (<<f>> \o Tail(frames)) \/ frames' = <<g, f>> \o Tail(frames)
  PROVE  frames' \in Seq(AsyncFrames) /\ Below(2) /\ frames'[1] = g /\ frames'[2] = f
<1>1. PICK u : u = Tail(frames)
  OBVIOUS
<1>2. /\ u \in Seq(AsyncFrames) /\ Len(frames) \in Nat /\ Len(frames) >= 1 /\ Len(u) = Len(frames) - 1
      /\ \A j \in 1 .. Len(u) : u[j] = frames[j + 1]
  BY <1>1, TailOfCalls
<1>3. /\ frames' \in Seq(AsyncFrames) /\ Len(frames') = Len(u) + 2 /\ frames'[1] = g /\ frames'[2] = f
      /\ \A j \in 1 .. Len(u) : frames'[j + 2] = u[j]
  <2>1. CASE frames' = <<g>> \o (<<f>> \o Tail(frames))
    <3>1. PICK v : v = <<f>> \o u
      OBVIOUS
    <3>2. /\ v \in Seq(AsyncFrames) /\ Len(v) = Len(u) + 1 /\ v[1] = f
          /\ \A j \in 1 .. Len(u) : v[j + 1] = u[j]
      BY ONLY <3>1, <1>2, f \in AsyncFrames, SMTT(30)
    <3>3. frames' = <<g>> \o v
      BY <2>1, <3>1, <1>1
    <3>4. /\ frames' \in Seq(AsyncFrames) /\ Len(frames') = Len(v) + 1 /\ frames'[1] = g
          /\ \A j \in 1 .. Len(v) : frames'[j + 1] = v[j]
      BY ONLY <3>2, <3>3, g \in AsyncFrames, SMTT(30)
    <3>5. PICK k : k = Len(u)
      OBVIOUS
    <3>6. k \in Nat /\ 1 \in 1 .. k + 1 /\ \A j \in 1 .. k : j + 1 \in 1 .. k + 1 /\ (j + 1) + 1 = j + 2
      <4>1. k \in Nat
        BY <3>5, <1>2
      <4> QED
        BY ONLY <4>1
    <3>7. \A j \in 1 .. k : frames'[j + 2] = u[j]
      <4> SUFFICES ASSUME NEW j \in 1 .. k PROVE frames'[j + 2] = u[j]
        OBVIOUS
      <4>1. PICK i : i = j + 1
        OBVIOUS
      <4>2. i \in 1 .. Len(v) /\ i + 1 = j + 2
        BY <4>1, <3>2, <3>5, <3>6
      <4>3. frames'[i + 1] = v[i] /\ v[j + 1] = u[j]
        BY <4>2, <3>2, <3>4, <3>5
      <4> QED
        BY <4>1, <4>2, <4>3
    <3>8. frames'[2] = f
      <4>1. 1 \in 1 .. Len(v) /\ 1 + 1 = 2
        BY <3>2, <3>5, <3>6
      <4>2. frames'[1 + 1] = v[1]
        BY <4>1, <3>4
      <4> QED
        BY <4>1, <4>2, <3>2
    <3>9. Len(frames') = Len(u) + 2
      BY <3>2, <3>4, <3>5, <3>6
    <3> QED
      BY <3>4, <3>5, <3>7, <3>8, <3>9
  <2>2. CASE frames' = <<g, f>> \o Tail(frames)
    <3>1. PICK v : v = <<g, f>>
      OBVIOUS
    <3>2. v \in Seq(AsyncFrames) /\ Len(v) = 2 /\ v[1] = g /\ v[2] = f
      BY ONLY <3>1, f \in AsyncFrames, g \in AsyncFrames, SMTT(30)
    <3>3. frames' = v \o u
      BY <2>2, <3>1, <1>1
    <3>4. /\ frames' \in Seq(AsyncFrames) /\ Len(frames') = Len(v) + Len(u)
          /\ \A i \in 1 .. Len(frames') : frames'[i] = IF i <= Len(v) THEN v[i] ELSE u[i - Len(v)]
      <4>1. v \in Seq(AsyncFrames) /\ u \in Seq(AsyncFrames)
        BY <3>2, <1>2
      <4>2. frames' \in Seq(AsyncFrames) /\ Len(frames') = Len(v) + Len(u)
        BY ONLY <4>1, <3>3, SMTT(30)
      <4>3. \A i \in 1 .. Len(v) + Len(u) : (v \o u)[i] = IF i <= Len(v) THEN v[i] ELSE u[i - Len(v)]
        BY ONLY <4>1, SMTT(30)
      <4> QED
        BY <4>2, <4>3, <3>3
    <3>5. PICK k, l : k = Len(u) /\ l = Len(frames')
      OBVIOUS
    <3>6. k \in Nat /\ l = k + 2
      BY <3>2, <3>4, <3>5, <1>2
    <3>7. /\ 1 \in 1 .. l /\ 2 \in 1 .. l /\ 1 <= 2 /\ 2 <= 2
          /\ \A j \in 1 .. k : j + 2 \in 1 .. l /\ ~ (j + 2 <= 2) /\ (j + 2) - 2 = j
      BY ONLY <3>6
    <3>8. \A j \in 1 .. k : frames'[j + 2] = u[j]
      <4> SUFFICES ASSUME NEW j \in 1 .. k PROVE frames'[j + 2] = u[j]
        OBVIOUS
      <4>1. PICK i : i = j + 2
        OBVIOUS
      <4>2. i \in 1 .. Len(frames') /\ ~ (i <= Len(v)) /\ i - Len(v) = j
        BY <4>1, <3>2, <3>5, <3>7
      <4> QED
        BY <4>1, <4>2, <3>4
    <3>9. frames'[1] = g /\ frames'[2] = f
      BY <3>2, <3>4, <3>5, <3>7
    <3> QED
      BY <3>4, <3>5, <3>6, <3>8, <3>9
  <2> QED
    BY <2>1, <2>2
<1>4. PICK n : n = 2
  OBVIOUS
<1>5. n \in {0, 1, 2} /\ Len(frames') = Len(u) + n /\ \A j \in 1 .. Len(u) : frames'[j + n] = u[j]
  BY <1>3, <1>4
<1>6. Below(n)
  BY <1>2, <1>5, BelowShifted
<1> QED
  BY <1>3, <1>4, <1>6

\* The parts of Calling that one call has to satisfy.
FulfilledAt(f) ==
    f.fn = "asyncModuleFulfilled" =>
        /\ f.m \in done
        /\ f.i >= 1 => /\ ~ md[f.m].asyncEvaluating
                       /\ \A l \in 1 .. Len(Parents(f.m)) : f.i <= l => runs[Parents(f.m)[l]] = 0
RejectedAt(f) ==
    f.fn = "asyncModuleRejected" =>
        /\ f.m \notin done /\ running[f.m] = 0
        /\ f.i # 0 => md[f.m].error
SameLoop(f, g) ==
    /\ f.fn = "asyncModuleFulfilled" /\ f.i >= 1
    /\ g.fn = "asyncModuleFulfilled" /\ g.i >= 1
    /\ f.m = g.m
Reporting(f, x, l) == f.fn = "asyncModuleRejected" /\ f.m = x /\ f.i >= 1 /\ f.i <= l
AboutToTell(z) ==
    frames # << >> /\ frames[1].fn = "asyncModuleRejected" /\ frames[1].m = z /\ frames[1].i = 0
IsBelow(f) == \E j \in 2 .. Len(frames) : frames[j] = f

LEMMA CallingParts ==
  Calling <=>
    /\ \A j \in 1 .. Len(frames) : FulfilledAt(frames[j]) /\ RejectedAt(frames[j])
    /\ \A j \in 1 .. Len(frames) : frames[j].fn = "asyncModuleRejected" /\ frames[j].i = 0 => j = 1
    /\ \A j, k \in 1 .. Len(frames) : SameLoop(frames[j], frames[k]) => j = k
    /\ ~ escaped => \A x \in Module : md[x].error => \A l \in 1 .. Len(Parents(x)) :
          \/ md[Parents(x)[l]].error
          \/ \E j \in 1 .. Len(frames) : Reporting(frames[j], x, l)
          \/ AboutToTell(Parents(x)[l])
<1>1. Fulfilling <=>
        /\ \A j \in 1 .. Len(frames) : FulfilledAt(frames[j])
        /\ \A j, k \in 1 .. Len(frames) : SameLoop(frames[j], frames[k]) => j = k
  BY DEF Fulfilling, FulfilledAt, SameLoop
<1>2. Rejecting <=>
        /\ \A j \in 1 .. Len(frames) : RejectedAt(frames[j])
        /\ \A j \in 1 .. Len(frames) : frames[j].fn = "asyncModuleRejected" /\ frames[j].i = 0 => j = 1
  BY DEF Rejecting, RejectedAt
<1>3. Reported <=>
        (~ escaped => \A x \in Module : md[x].error => \A l \in 1 .. Len(Parents(x)) :
          \/ md[Parents(x)[l]].error
          \/ \E j \in 1 .. Len(frames) : Reporting(frames[j], x, l)
          \/ AboutToTell(Parents(x)[l]))
  BY Zenon DEF Reported, Reporting, AboutToTell
<1> QED
  BY <1>1, <1>2, <1>3 DEF Calling

LEMMA CallingPartsPrimed ==
  Calling' <=>
    /\ \A j \in 1 .. Len(frames') : FulfilledAt(frames[j])' /\ RejectedAt(frames[j])'
    /\ \A j \in 1 .. Len(frames') : frames'[j].fn = "asyncModuleRejected" /\ frames'[j].i = 0 => j = 1
    /\ \A j, k \in 1 .. Len(frames') : SameLoop(frames'[j], frames'[k]) => j = k
    /\ ~ escaped' => \A x \in Module : md'[x].error => \A l \in 1 .. Len(Parents(x)') :
          \/ md'[Parents(x)'[l]].error
          \/ \E j \in 1 .. Len(frames') : Reporting(frames'[j], x, l)
          \/ AboutToTell(Parents(x)[l])'
<1>1. Fulfilling' <=>
        /\ \A j \in 1 .. Len(frames') : FulfilledAt(frames[j])'
        /\ \A j, k \in 1 .. Len(frames') : SameLoop(frames'[j], frames'[k]) => j = k
  BY DEF Fulfilling, FulfilledAt, SameLoop
<1>2. Rejecting' <=>
        /\ \A j \in 1 .. Len(frames') : RejectedAt(frames[j])'
        /\ \A j \in 1 .. Len(frames') : frames'[j].fn = "asyncModuleRejected" /\ frames'[j].i = 0 => j = 1
  BY DEF Rejecting, RejectedAt
<1>3. Reported' <=>
        (~ escaped' => \A x \in Module : md'[x].error => \A l \in 1 .. Len(Parents(x)') :
          \/ md'[Parents(x)'[l]].error
          \/ \E j \in 1 .. Len(frames') : Reporting(frames'[j], x, l)
          \/ AboutToTell(Parents(x)[l])')
  BY Zenon DEF Reported, Reporting, AboutToTell
<1> QED
  BY <1>1, <1>2, <1>3 DEF Calling

\* What a step has to keep of the calls below the innermost one ...
KeepsBelow ==
    \A f \in AsyncFrames : IsBelow(f) =>
        (FulfilledAt(f) => FulfilledAt(f)') /\ (RejectedAt(f) => RejectedAt(f)')

\* ... what its n new calls have to satisfy ...
NewCalls(n) ==
    \A j \in 1 .. n :
        /\ FulfilledAt(frames[j])' /\ RejectedAt(frames[j])'
        /\ frames'[j].fn = "asyncModuleRejected" /\ frames'[j].i = 0 => j = 1
        /\ frames'[j].fn = "asyncModuleFulfilled" /\ frames'[j].i >= 1 =>
              j = n /\ \A k \in 2 .. Len(frames) : ~ SameLoop(frames'[j], frames[k])

\* ... and what a failed module has told its parents.
NewReports(n) ==
    ~ escaped' => \A x \in Module : md'[x].error => \A l \in 1 .. Len(Parents(x)') :
        \/ md'[Parents(x)'[l]].error
        \/ \E j \in 1 .. n : Reporting(frames'[j], x, l)
        \/ \E j \in 2 .. Len(frames) : Reporting(frames[j], x, l)
        \/ AboutToTell(Parents(x)[l])'

LEMMA CallingMoves ==
  ASSUME Calling, frames \in Seq(AsyncFrames), NEW n \in {0, 1, 2}, Below(n), KeepsBelow, NewCalls(n), NewReports(n)
  PROVE  Calling'
<1>1. /\ \A j \in 1 .. Len(frames) : FulfilledAt(frames[j]) /\ RejectedAt(frames[j])
      /\ \A j \in 1 .. Len(frames) : frames[j].fn = "asyncModuleRejected" /\ frames[j].i = 0 => j = 1
      /\ \A j, k \in 1 .. Len(frames) : SameLoop(frames[j], frames[k]) => j = k
  BY CallingParts
<1>2. PICK a, b : a = Len(frames) /\ b = Len(frames')
  OBVIOUS
<1>3. /\ a \in Nat /\ a >= 1 /\ b = (a - 1) + n
      /\ \A j \in 2 .. a : (j - 1) + n \in 1 .. b /\ frames'[(j - 1) + n] = frames[j]
      /\ \A j \in 1 .. b : j <= n \/ ((j - n) + 1 \in 2 .. a /\ frames'[j] = frames[(j - n) + 1])
  BY <1>2 DEF Below
<1>4. \A j \in 1 .. b : j \in 1 .. n \/ ((j - n) + 1 \in 2 .. a /\ frames'[j] = frames[(j - n) + 1])
  BY <1>3
<1>5. \A j \in 2 .. a : j \in 1 .. a /\ j # 1
  BY ONLY <1>3
<1>6. \A j \in 1 .. n : j \in 1 .. b
  BY <1>3
<1>7. ASSUME NEW j \in 2 .. a
      PROVE  /\ ~ (frames[j].fn = "asyncModuleRejected" /\ frames[j].i = 0)
             /\ \A f \in AsyncFrames : f = frames[j] => FulfilledAt(f)' /\ RejectedAt(f)'
             /\ frames[j] \in AsyncFrames
  BY <1>1, <1>2, <1>5 DEF KeepsBelow, IsBelow
<1>8. ASSUME NEW j \in 1 .. b
      PROVE  /\ FulfilledAt(frames[j])' /\ RejectedAt(frames[j])'
             /\ frames'[j].fn = "asyncModuleRejected" /\ frames'[j].i = 0 => j = 1
  <2>1. CASE j \in 1 .. n
    BY <2>1 DEF NewCalls
  <2>2. CASE (j - n) + 1 \in 2 .. a /\ frames'[j] = frames[(j - n) + 1]
    <3>1. PICK k, f : k = (j - n) + 1 /\ f = frames[k]
      OBVIOUS
    <3>2. k \in 2 .. a /\ frames'[j] = f
      BY <2>2, <3>1
    <3>3. FulfilledAt(f)' /\ RejectedAt(f)' /\ ~ (f.fn = "asyncModuleRejected" /\ f.i = 0)
      BY <3>1, <3>2, <1>7
    <3> QED
      BY <3>2, <3>3 DEF FulfilledAt, RejectedAt
  <2> QED
    BY <2>1, <2>2, <1>4
<1>9. ASSUME NEW j \in 1 .. b, NEW k \in 1 .. b, SameLoop(frames'[j], frames'[k])
      PROVE  j = k
  <2>1. SameLoop(frames'[k], frames'[j])
    BY <1>9 DEF SameLoop
  <2>2. CASE j \in 1 .. n /\ k \in 1 .. n
    <3>1. j = n /\ k = n
      BY <2>2, <1>9 DEF NewCalls, SameLoop
    <3> QED
      BY <3>1
  <2>3. ASSUME NEW x \in 1 .. n, NEW y \in 1 .. b, SameLoop(frames'[x], frames'[y]),
               (y - n) + 1 \in 2 .. a, frames'[y] = frames[(y - n) + 1]
        PROVE  FALSE
    BY <2>3, <1>2 DEF NewCalls, SameLoop
  <2>4. CASE /\ (j - n) + 1 \in 2 .. a /\ frames'[j] = frames[(j - n) + 1]
             /\ (k - n) + 1 \in 2 .. a /\ frames'[k] = frames[(k - n) + 1]
    <3>1. PICK x, y : x = (j - n) + 1 /\ y = (k - n) + 1
      OBVIOUS
    <3>2. x \in 1 .. Len(frames) /\ y \in 1 .. Len(frames) /\ SameLoop(frames[x], frames[y])
      BY <2>4, <3>1, <1>2, <1>5, <1>9
    <3>3. x = y
      BY <3>2, <1>1
    <3> QED
      BY ONLY <3>1, <3>3, <1>3, n \in {0, 1, 2}, j \in 1 .. b, k \in 1 .. b
  <2> QED
    BY <2>1, <2>2, <2>3, <2>4, <1>4, <1>9
<1>10. ~ escaped' => \A x \in Module : md'[x].error => \A l \in 1 .. Len(Parents(x)') :
          \/ md'[Parents(x)'[l]].error
          \/ \E j \in 1 .. Len(frames') : Reporting(frames'[j], x, l)
          \/ AboutToTell(Parents(x)[l])'
  <2> SUFFICES ASSUME ~ escaped', NEW x \in Module, md'[x].error, NEW l \in 1 .. Len(Parents(x)')
               PROVE  \/ md'[Parents(x)'[l]].error
                      \/ \E j \in 1 .. Len(frames') : Reporting(frames'[j], x, l)
                      \/ AboutToTell(Parents(x)[l])'
    OBVIOUS
  <2>1. \/ md'[Parents(x)'[l]].error
        \/ \E j \in 1 .. n : Reporting(frames'[j], x, l)
        \/ \E j \in 2 .. Len(frames) : Reporting(frames[j], x, l)
        \/ AboutToTell(Parents(x)[l])'
    BY DEF NewReports
  <2>2. ASSUME NEW j \in 1 .. n, Reporting(frames'[j], x, l)
        PROVE  \E k \in 1 .. Len(frames') : Reporting(frames'[k], x, l)
    BY <2>2, <1>2, <1>6
  <2>3. ASSUME NEW j \in 2 .. Len(frames), Reporting(frames[j], x, l)
        PROVE  \E k \in 1 .. Len(frames') : Reporting(frames'[k], x, l)
    <3>1. PICK k : k = (j - 1) + n
      OBVIOUS
    <3>2. k \in 1 .. Len(frames') /\ frames'[k] = frames[j]
      BY <3>1, <1>2, <1>3
    <3> QED
      BY <3>2, <2>3
  <2> QED
    BY <2>1, <2>2, <2>3
<1> QED
  BY <1>2, <1>8, <1>9, <1>10, CallingPartsPrimed

-----------------------------------------------------------------------------
(* Completion: the modules                                                  *)

\* A step while no walk is in progress: the cycles and who waits for whom stay.
Away ==
    /\ requests' = requests /\ deps' = deps /\ done \subseteq done' /\ frames' \in Seq(AsyncFrames)
    /\ \A x \in Module :
          /\ md'[x].status = md[x].status /\ md'[x].cycleRoot = md[x].cycleRoot
          /\ md'[x].dfsIndex = md[x].dfsIndex /\ md'[x].asyncParentModules = md[x].asyncParentModules
AwayKept ==
    /\ WalkWaits' /\ Found' /\ Starts' /\ Registered' /\ Rooted' = Rooted
    /\ \A x \in Module : Parents(x)' = Parents(x)

LEMMA AwayFacts ==
  ASSUME ModulesInv, RootsAgree, Waits, NoWalk, Away, \A x \in Module : runs'[x] > 0 => runs[x] > 0 \/ StartOf(x)
  PROVE  AwayKept
<1>t. Types /\ Registered /\ Found /\ Starts
  BY DEF ModulesInv, Waits, Bookkeeping, Findings
<1>a. /\ requests' = requests /\ deps' = deps /\ done \subseteq done' /\ frames' \in Seq(AsyncFrames)
      /\ \A x \in Module :
            /\ md'[x].status = md[x].status /\ md'[x].cycleRoot = md[x].cycleRoot
            /\ md'[x].dfsIndex = md[x].dfsIndex /\ md'[x].asyncParentModules = md[x].asyncParentModules
  BY DEF Away
<1>1. \A x \in Module : Parents(x)' = Parents(x)
  BY <1>a DEF Parents
<1>2. Rooted' = Rooted /\ \A x \in Rooted : x \in Module
  BY <1>a DEF Rooted, HasStatus
<1>3. HasStatus({"Evaluating"})' = {}
  <2>1. \A x \in Module : md[x].status # "Evaluating"
    BY DEF NoWalk, HasStatus
  <2> QED
    BY <2>1, <1>a DEF HasStatus
<1>4. \A x : ~ Executing(x)'
  <2>1. \A j \in 1 .. Len(frames') : frames'[j].fn # "innerModuleEvaluation"
    <3>1. \A j \in 1 .. Len(frames') : frames'[j] \in AsyncFrames
      BY <1>a
    <3> QED
      BY <3>1 DEF AsyncFrames
  <2> QED
    BY <2>1 DEF Executing
<1>5. WalkWaits'
  BY <1>3, <1>4 DEF WalkWaits, Walked, TreeWalk, RequestsWalk
<1>6. Registered'
  BY <1>1, <1>a, <1>t DEF Registered
<1>7. Grows
  BY <1>a, <1>2 DEF Grows, Parents
<1>8. \A x \in Module : runs'[x] > 0 => runs[x] > 0 \/ StartOf(x)'
  BY <1>a, <1>t, StartGrows
<1>9. Found' /\ Starts'
  BY <1>2, <1>7, <1>8, <1>t, FindingsGrow
<1> QED
  BY <1>1, <1>2, <1>5, <1>6, <1>9 DEF AwayKept

AwayImport ==
    /\ \A x \in Module :
          /\ md[x].error => md'[x].error
          /\ md'[x].topLevelCapability # "none" => md[x].topLevelCapability # "none"
          /\ ToSet(md'[x].asyncPendingPromises) \subseteq ToSet(md[x].asyncPendingPromises)
    /\ call' = call /\ Len(imports') = Len(imports)
    /\ \A p \in 1 .. Len(imports) :
          /\ imports'[p].m = imports[p].m
          /\ imports'[p].state = "fulfilled" =>
                \/ imports[p].state = "fulfilled"
                \/ md[imports[p].m].status = "Evaluated" /\ imports[p].m \in done
    /\ \A i \in 1 .. Len(jobs') : jobs'[i].fn = "importResolved" => \E k \in 1 .. Len(jobs) : jobs'[i] = jobs[k]

LEMMA AwayImports ==
  ASSUME Types, ImportsWait, NoWalk, Away, AwayImport
  PROVE  ImportsWait'
<1>a. /\ done \subseteq done' /\ frames' \in Seq(AsyncFrames)
      /\ \A x \in Module : md'[x].status = md[x].status
  BY DEF Away
<1>i. \A p \in 1 .. Len(imports) : imports[p].m \in Module
  <2>1. \A p \in 1 .. Len(imports) : imports[p] \in ImportSet
    BY DEF Types
  <2> QED
    BY <2>1 DEF ImportSet
<1>1. Capable'
  <2>1. \A x \in Module : md[x].topLevelCapability # "none" => md[x].status \in Started
    BY IdleCapable
  <2>2. frames' # << >> => frames'[1].fn # "moduleEvaluation"
    <3> SUFFICES ASSUME frames' # << >> PROVE frames'[1].fn # "moduleEvaluation"
      OBVIOUS
    <3>1. frames'[1] \in AsyncFrames
      BY <1>a
    <3> QED
      BY <3>1 DEF AsyncFrames
  <2> QED
    BY <2>1, <2>2, <1>a DEF Capable, AwayImport
<1>2. ImportsMove
  <2>1. /\ done \subseteq done'
        /\ \A x \in Module : /\ md[x].status = "Evaluated" => md'[x].status = "Evaluated"
                             /\ md[x].error => md'[x].error
                             /\ \A p \in ToSet(md'[x].asyncPendingPromises) : p \in ToSet(md[x].asyncPendingPromises)
    BY <1>a DEF AwayImport
  <2>2. \A p \in 1 .. Len(imports) : p \in 1 .. Len(imports') /\ imports'[p].m = imports[p].m
    BY DEF AwayImport
  <2>3. \A p \in 1 .. Len(imports') : imports'[p].state = "fulfilled" =>
          \/ p \in 1 .. Len(imports) /\ imports[p].state = "fulfilled"
          \/ md'[imports'[p].m].status = "Evaluated" /\ (md'[imports'[p].m].error \/ imports'[p].m \in done')
    BY <1>a, <1>i DEF AwayImport
  <2>4. /\ \A i \in 1 .. Len(jobs') : jobs'[i].fn = "importResolved" => \E k \in 1 .. Len(jobs) : jobs'[i] = jobs[k]
        /\ call' = call
    BY DEF AwayImport
  <2> QED
    BY <2>1, <2>2, <2>3, <2>4, <1>1 DEF ImportsMove
<1> QED
  BY <1>2, ImportsKept

LEMMA BodyEndsWaits ==
  ASSUME ModulesInv, RootsAgree, Waits, ImportsWait, NEW m \in Module, BodyEnds(m)
  PROVE  Waits' /\ ImportsWait'
<1>i. Types /\ NoWalk /\ frames = << >>
  BY IdleIsNoWalk DEF BodyEnds
<1>t. HistoryTypes /\ Fresh /\ Waiting /\ Bodies /\ Calling /\ Outcomes
  BY DEF Waits, Bookkeeping, Findings
<1>f. PICK fails \in BOOLEAN :
        /\ jobs' = Append(jobs, [fn |-> IF fails THEN "asyncModuleRejected" ELSE "asyncModuleFulfilled", m |-> m, p |-> 0])
        /\ done' = IF fails THEN done ELSE done \union {m}
  BY ModulesAssumption DEF BodyEnds, ModulesAssumption
<1>r. running[m] > 0 /\ running' = [running EXCEPT ![m] = @ - 1]
  BY DEF BodyEnds
<1>u. UNCHANGED <<requests, md, frames, call, imports, runs, deps, escaped>>
  BY DEF BodyEnds, env, scenario
<1>1. running[m] = 1 /\ runs[m] > 0 /\ m \notin done
  BY <1>r, <1>t DEF Bodies
<1>2. running' \in [Module -> Nat] /\ running'[m] = 0 /\ \A x \in Module : x # m => running'[x] = running[x]
  <2>1. running \in [Module -> Nat]
    BY <1>t DEF HistoryTypes
  <2>2. running' = [running EXCEPT ![m] = 0]
    BY <1>1, <1>r
  <2> QED
    BY <2>1, <2>2
<1>3. PICK j : j = [fn |-> IF fails THEN "asyncModuleRejected" ELSE "asyncModuleFulfilled", m |-> m, p |-> 0]
  OBVIOUS
<1>4. j \in JobSet /\ j.m = m /\ j.fn \in BodyJobs /\ (j.fn = "asyncModuleFulfilled" <=> ~ fails)
  BY <1>3 DEF JobSet, BodyJobs
<1>5. \A i \in 1 .. Len(jobs') : jobs'[i] = j \/ \E k \in 1 .. Len(jobs) : jobs'[i] = jobs[k]
  <2>1. jobs \in Seq(JobSet) /\ jobs' = Append(jobs, j)
    BY <1>i, <1>f, <1>3 DEF Types
  <2> QED
    BY <2>1, <1>4, JobQueued
<1>6. Away
  <2>1. frames' \in Seq(AsyncFrames)
    BY <1>i, <1>u
  <2> QED
    BY <2>1, <1>u, <1>f DEF Away
<1>7. AwayKept
  BY <1>6, <1>u, <1>i, AwayFacts
<1>8. Bookkeeping'
  <2>1. HistoryTypes'
    BY <1>t, <1>u, <1>2, <1>f DEF HistoryTypes
  <2>2. Fresh'
    BY <1>t, <1>u DEF Fresh, Parents
  <2>3. Waiting'
    BY <1>t, <1>u, <1>f DEF Waiting, Parents
  <2>4. Bodies'
    <3>1. \A x \in done' : runs'[x] > 0
      BY <1>t, <1>u, <1>f, <1>1 DEF Bodies
    <3>2. \A x \in Module : running'[x] > 0 => running'[x] = 1 /\ runs'[x] > 0 /\ x \notin done'
      BY <1>t, <1>u, <1>f, <1>2 DEF Bodies
    <3>3. ASSUME NEW i \in 1 .. Len(jobs'), jobs'[i].fn \in BodyJobs
          PROVE  /\ running'[jobs'[i].m] = 0 /\ runs'[jobs'[i].m] > 0
                 /\ jobs'[i].fn = "asyncModuleFulfilled" <=> jobs'[i].m \in done'
      <4>1. CASE jobs'[i] = j
        BY <4>1, <1>4, <1>1, <1>2, <1>u, <1>f
      <4>2. ASSUME NEW k \in 1 .. Len(jobs), jobs'[i] = jobs[k]
            PROVE  /\ running'[jobs'[i].m] = 0 /\ runs'[jobs'[i].m] > 0
                   /\ jobs'[i].fn = "asyncModuleFulfilled" <=> jobs'[i].m \in done'
        <5>1. jobs[k] \in JobSet
          BY <1>i DEF Types
        <5>2. jobs[k].m \in Module
          BY <5>1 DEF JobSet
        <5>3. /\ running[jobs[k].m] = 0 /\ runs[jobs[k].m] > 0
              /\ jobs[k].fn = "asyncModuleFulfilled" <=> jobs[k].m \in done
          BY <3>3, <4>2, <1>t DEF Bodies
        <5>4. jobs[k].m # m
          BY <5>3, <1>1
        <5> QED
          BY <5>2, <5>3, <5>4, <4>2, <1>2, <1>u, <1>f
      <4> QED
        BY <4>1, <4>2, <1>5
    <3> QED
      BY <3>1, <3>2, <3>3 DEF Bodies
  <2> QED
    BY <2>1, <2>2, <2>3, <2>4, <1>7 DEF Bookkeeping, AwayKept
<1>9. Calling'
  <2>1. Fulfilling' /\ Rejecting'
    BY <1>i, <1>u DEF Fulfilling, Rejecting
  <2>2. Reported'
    BY <1>t, <1>u DEF Calling, Reported, Parents
  <2> QED
    BY <2>1, <2>2 DEF Calling
<1>10. Outcomes'
  <2>1. \A x \in Rooted : x \in Module
    BY DEF Rooted, HasStatus
  <2>2. Rooted' = Rooted
    BY <1>7 DEF AwayKept
  <2>3. \A x \in Rooted : x \in done' \/ md'[x].asyncEvaluating \/ md'[x].error
    BY <1>t, <1>u, <1>f DEF Outcomes
  <2>4. \A x \in Rooted : md'[x].error => x \notin done' /\ running'[x] = 0
    BY <2>1, <1>t, <1>u, <1>f, <1>1, <1>2 DEF Outcomes
  <2> QED
    BY <2>2, <2>3, <2>4 DEF Outcomes
<1>11. AwayImport
  BY <1>u, <1>4, <1>5 DEF AwayImport, BodyJobs
<1> QED
  BY <1>6, <1>7, <1>8, <1>9, <1>10, <1>11, <1>i, AwayImports DEF Waits, Findings, AwayKept

LEMMA BodyJobWaits ==
  ASSUME ModulesInv, RootsAgree, Waits, ImportsWait, BodyJob
  PROVE  Waits' /\ ImportsWait'
<1>i. Types /\ NoWalk /\ frames = << >>
  BY IdleIsNoWalk DEF BodyJob
<1>t. HistoryTypes /\ Fresh /\ Waiting /\ Bodies /\ Calling /\ Outcomes
  BY DEF Waits, Bookkeeping, Findings
<1>u. UNCHANGED <<requests, md, call, imports, running, runs, done, deps, escaped>>
  BY DEF BodyJob, env, scenario, history
<1>j. PICK j : j = Head(jobs)
  OBVIOUS
<1>1. jobs # << >> /\ j.fn \in BodyJobs /\ frames' = <<Frame(j.fn, j.m, 0)>> /\ jobs' = Tail(jobs)
  BY <1>j DEF BodyJob, BodyJobs
<1>2. /\ j = jobs[1] /\ 1 \in 1 .. Len(jobs)
      /\ \A i \in 1 .. Len(jobs') : \E k \in 1 .. Len(jobs) : jobs'[i] = jobs[k]
  BY <1>1, <1>j, <1>i, JobTaken DEF Types
<1>3. j.m \in Module
  <2>1. jobs[1] \in JobSet
    BY <1>2, <1>i DEF Types
  <2> QED
    BY <2>1, <1>2 DEF JobSet
<1>4. running[j.m] = 0 /\ (j.fn = "asyncModuleFulfilled" <=> j.m \in done)
  BY <1>1, <1>2, <1>t DEF Bodies
<1>5. PICK f : f = Frame(j.fn, j.m, 0)
  OBVIOUS
<1>6. f \in AsyncFrames /\ f.fn = j.fn /\ f.m = j.m /\ f.i = 0
  BY <1>1, <1>3, <1>5 DEF Frame, AsyncFrames, FrameSet, BodyJobs
<1>7. frames' \in Seq(AsyncFrames) /\ Len(frames') = 1 /\ frames'[1] = f
  BY <1>1, <1>5, <1>6
<1>8. Away
  BY <1>7, <1>u DEF Away
<1>9. AwayKept
  BY <1>8, <1>u, <1>i, AwayFacts
<1>10. Bookkeeping'
  <2>1. HistoryTypes' /\ Fresh' /\ Waiting'
    BY <1>t, <1>u DEF HistoryTypes, Fresh, Waiting, Parents
  <2>2. Bodies'
    <3>1. ASSUME NEW i \in 1 .. Len(jobs'), jobs'[i].fn \in BodyJobs
          PROVE  /\ running'[jobs'[i].m] = 0 /\ runs'[jobs'[i].m] > 0
                 /\ jobs'[i].fn = "asyncModuleFulfilled" <=> jobs'[i].m \in done'
      <4>1. PICK k \in 1 .. Len(jobs) : jobs'[i] = jobs[k]
        BY <1>2
      <4> QED
        BY <4>1, <3>1, <1>t, <1>u DEF Bodies
    <3> QED
      BY <3>1, <1>t, <1>u DEF Bodies
  <2> QED
    BY <2>1, <2>2, <1>9 DEF Bookkeeping, AwayKept
<1>11. Calling'
  <2>1. \A k \in 1 .. Len(frames') : k = 1
    BY <1>7
  <2>2. Fulfilling' /\ Rejecting'
    BY <2>1, <1>1, <1>4, <1>6, <1>7, <1>u DEF Fulfilling, Rejecting
  <2>3. \A k \in 1 .. Len(frames) : FALSE
    BY <1>i
  <2>4. ~ escaped => \A x \in Module : md[x].error => \A l \in 1 .. Len(Parents(x)) : md[Parents(x)[l]].error
    BY <2>3, <1>i, <1>t DEF Calling, Reported
  <2>5. Reported'
    BY <2>4, <1>u DEF Reported, Parents
  <2> QED
    BY <2>2, <2>5 DEF Calling
<1>12. Outcomes'
  BY <1>t, <1>u, <1>9 DEF Outcomes, AwayKept
<1>13. AwayImport
  BY <1>u, <1>2 DEF AwayImport
<1> QED
  BY <1>8, <1>9, <1>10, <1>11, <1>12, <1>13, <1>i, AwayImports DEF Waits, Findings, AwayKept

\* A step of asyncModuleFulfilled or asyncModuleRejected that starts no body.
NoStart ==
    /\ Away /\ AwayImport /\ UNCHANGED <<jobs, running, runs, done>>
    /\ \A x \in Module :
          /\ md'[x].asyncEvaluating => md[x].asyncEvaluating
          /\ md[x].status \notin Started => /\ md'[x].pendingAsyncDependencies = md[x].pendingAsyncDependencies
                                            /\ md'[x].error = md[x].error
          /\ md[x].asyncEvaluating => md'[x].asyncEvaluating \/ x \in done \/ md'[x].error
          /\ md'[x].error => md[x].error \/ (x \notin done /\ running[x] = 0)

LEMMA NoStartWaits ==
  ASSUME ModulesInv, RootsAgree, Waits, ImportsWait, NoWalk, NoStart, Calling'
  PROVE  Waits' /\ ImportsWait'
<1>t. Types /\ HistoryTypes /\ Fresh /\ Waiting /\ Bodies /\ Outcomes
  BY DEF ModulesInv, Waits, Bookkeeping, Findings
<1>n. /\ Away /\ AwayImport /\ jobs' = jobs /\ running' = running /\ runs' = runs /\ done' = done
      /\ \A x \in Module :
          /\ md'[x].asyncEvaluating => md[x].asyncEvaluating
          /\ md[x].status \notin Started => /\ md'[x].pendingAsyncDependencies = md[x].pendingAsyncDependencies
                                            /\ md'[x].error = md[x].error
          /\ md[x].asyncEvaluating => md'[x].asyncEvaluating \/ x \in done \/ md'[x].error
          /\ md'[x].error => md[x].error \/ (x \notin done /\ running[x] = 0)
  BY DEF NoStart
<1>a. /\ deps' = deps
      /\ \A x \in Module : md'[x].status = md[x].status /\ md'[x].asyncParentModules = md[x].asyncParentModules
  BY <1>n DEF Away
<1>1. AwayKept
  BY <1>n, AwayFacts
<1>e. \A x \in Module : md[x].error => md'[x].error
  BY <1>n DEF AwayImport
<1>2. HistoryTypes' /\ Bodies'
  BY <1>t, <1>n, <1>a DEF HistoryTypes, Bodies
<1>3. Fresh'
  BY <1>t, <1>n, <1>a DEF Fresh, Parents
<1>4. Waiting'
  BY <1>t, <1>n, <1>a DEF Waiting, Parents
<1>5. Outcomes'
  <2>1. \A x \in Rooted : x \in Module
    BY DEF Rooted, HasStatus
  <2>2. \A x \in Rooted : x \in done' \/ md'[x].asyncEvaluating \/ md'[x].error
    BY <2>1, <1>t, <1>n, <1>e DEF Outcomes
  <2>3. \A x \in Rooted : md'[x].error => x \notin done' /\ running'[x] = 0
    BY <2>1, <1>t, <1>n DEF Outcomes
  <2> QED
    BY <2>2, <2>3, <1>1 DEF Outcomes, AwayKept
<1>6. ImportsWait'
  BY <1>t, <1>n, AwayImports
<1> QED
  BY <1>1, <1>2, <1>3, <1>4, <1>5, <1>6 DEF Waits, Bookkeeping, Findings, AwayKept

LEMMA NoStartBelow ==
  ASSUME frames \in Seq(AsyncFrames), NoStart
  PROVE  KeepsBelow
<1>1. /\ running' = running /\ runs' = runs /\ done' = done
      /\ \A x \in Module : /\ md'[x].asyncEvaluating => md[x].asyncEvaluating
                           /\ md[x].error => md'[x].error
                           /\ md'[x].asyncParentModules = md[x].asyncParentModules
  BY DEF NoStart, Away, AwayImport
<1> SUFFICES ASSUME NEW f \in AsyncFrames
             PROVE  (FulfilledAt(f) => FulfilledAt(f)') /\ (RejectedAt(f) => RejectedAt(f)')
  BY DEF KeepsBelow
<1>2. f.m \in Module
  BY DEF AsyncFrames, FrameSet
<1> QED
  BY <1>1, <1>2 DEF FulfilledAt, RejectedAt, Parents

\* The innermost call and the ones below it.
CallsNow(m) ==
    /\ Types /\ NoWalk /\ md \in [Module -> Records]
    /\ frames \in Seq(AsyncFrames) /\ frames # << >> /\ Top = frames[1] /\ frames[1] \in AsyncFrames
    /\ m = frames[1].m /\ m \in Module /\ frames[1].i \in Nat
    /\ FulfilledAt(frames[1]) /\ RejectedAt(frames[1])
    /\ \A k \in 2 .. Len(frames) :
          /\ frames[k].m \in Module /\ FulfilledAt(frames[k]) /\ RejectedAt(frames[k])
          /\ ~ (frames[k].fn = "asyncModuleRejected" /\ frames[k].i = 0)
          /\ ~ SameLoop(frames[1], frames[k])
    /\ \A x \in Module : Parents(x) \in Seq(Module)
    /\ ~ escaped => \A x \in Module : md[x].error => \A l \in 1 .. Len(Parents(x)) :
          \/ md[Parents(x)[l]].error
          \/ Reporting(frames[1], x, l)
          \/ \E j \in 2 .. Len(frames) : Reporting(frames[j], x, l)
          \/ AboutToTell(Parents(x)[l])

LEMMA CallsKnown ==
  ASSUME ModulesInv, RootsAgree, Waits, NEW f \in {"asyncModuleFulfilled", "asyncModuleRejected"}, In(f), NEW m, m = Top.m
  PROVE  CallsNow(m) /\ frames[1].fn = f
<1>1. /\ Types /\ NoWalk /\ frames \in Seq(AsyncFrames) /\ frames # << >> /\ Top.m \in Module /\ Top.i \in Nat
      /\ Top.fn = f
  BY AsyncCalls
<1>2. Top = frames[1]
  BY <1>1, TopIsFirst DEF Types
<1>3. PICK n : n = Len(frames)
  OBVIOUS
<1>4. n \in Nat /\ n >= 1
  BY <1>1, <1>3
<1>5. 1 \in 1 .. n /\ (\A k \in 2 .. n : k \in 1 .. n /\ k # 1) /\ \A k \in 1 .. n : k = 1 \/ k \in 2 .. n
  BY ONLY <1>4
<1>6. \A k \in 1 .. n : frames[k] \in AsyncFrames /\ frames[k].m \in Module
  <2>1. \A k \in 1 .. n : frames[k] \in AsyncFrames
    BY <1>1, <1>3
  <2> QED
    BY <2>1 DEF AsyncFrames, FrameSet
<1>7. /\ \A j \in 1 .. Len(frames) : FulfilledAt(frames[j]) /\ RejectedAt(frames[j])
      /\ \A j \in 1 .. Len(frames) : frames[j].fn = "asyncModuleRejected" /\ frames[j].i = 0 => j = 1
      /\ \A j, k \in 1 .. Len(frames) : SameLoop(frames[j], frames[k]) => j = k
      /\ ~ escaped => \A x \in Module : md[x].error => \A l \in 1 .. Len(Parents(x)) :
          \/ md[Parents(x)[l]].error
          \/ \E j \in 1 .. Len(frames) : Reporting(frames[j], x, l)
          \/ AboutToTell(Parents(x)[l])
  BY CallingParts DEF Waits
<1>8. \A x \in Module : Parents(x) \in Seq(Module)
  BY <1>1 DEF Types, Records, Parents
<1>9. md \in [Module -> Records]
  BY <1>1 DEF Types
<1>10. \A k \in 2 .. Len(frames) :
          /\ frames[k].m \in Module /\ FulfilledAt(frames[k]) /\ RejectedAt(frames[k])
          /\ ~ (frames[k].fn = "asyncModuleRejected" /\ frames[k].i = 0)
          /\ ~ SameLoop(frames[1], frames[k])
  BY <1>3, <1>5, <1>6, <1>7
<1>11. ~ escaped => \A x \in Module : md[x].error => \A l \in 1 .. Len(Parents(x)) :
          \/ md[Parents(x)[l]].error
          \/ Reporting(frames[1], x, l)
          \/ \E j \in 2 .. Len(frames) : Reporting(frames[j], x, l)
          \/ AboutToTell(Parents(x)[l])
  <2> SUFFICES ASSUME ~ escaped, NEW x \in Module, md[x].error, NEW l \in 1 .. Len(Parents(x))
               PROVE  \/ md[Parents(x)[l]].error
                      \/ Reporting(frames[1], x, l)
                      \/ \E j \in 2 .. Len(frames) : Reporting(frames[j], x, l)
                      \/ AboutToTell(Parents(x)[l])
    OBVIOUS
  <2>1. \/ md[Parents(x)[l]].error
        \/ \E j \in 1 .. Len(frames) : Reporting(frames[j], x, l)
        \/ AboutToTell(Parents(x)[l])
    BY <1>7
  <2> QED
    BY <2>1, <1>3, <1>5
<1>12. FulfilledAt(frames[1]) /\ RejectedAt(frames[1]) /\ frames[1] \in AsyncFrames
  BY <1>3, <1>5, <1>6, <1>7
<1> QED
  BY <1>1, <1>2, <1>8, <1>9, <1>10, <1>11, <1>12 DEF CallsNow

-----------------------------------------------------------------------------
(* Completion: the steps                                                    *)

\* The data of a module that such a step does not touch.
SameModule(e, b) ==
    /\ e.status = b.status /\ e.cycleRoot = b.cycleRoot /\ e.dfsIndex = b.dfsIndex
    /\ e.asyncParentModules = b.asyncParentModules

LEMMA OneChanged ==
  ASSUME md \in [Module -> Records], NEW m \in Module, NEW e \in Records, SameModule(e, md[m]),
         md' = [md EXCEPT ![m] = e], requests' = requests, deps' = deps, done \subseteq done', frames' \in Seq(AsyncFrames)
  PROVE  Away /\ md'[m] = e /\ \A x \in Module : x # m => md'[x] = md[x]
<1>1. md'[m] = e /\ \A x \in Module : x # m => md'[x] = md[x]
  OBVIOUS
<1> QED
  BY <1>1 DEF Away, SameModule

\* Nothing failed, and the innermost call was not about a failure.
LEMMA SameReports ==
  ASSUME NEW m, CallsNow(m), frames[1].fn = "asyncModuleFulfilled", NEW n \in {0, 1, 2}, escaped' = escaped, Away,
         \A x \in Module : md'[x].error = md[x].error
  PROVE  NewReports(n)
<1> SUFFICES ASSUME ~ escaped', NEW x \in Module, md'[x].error, NEW l \in 1 .. Len(Parents(x)')
             PROVE  md'[Parents(x)'[l]].error \/ \E j \in 2 .. Len(frames) : Reporting(frames[j], x, l)
  BY DEF NewReports
<1>1. Parents(x)' = Parents(x) /\ Parents(x) \in Seq(Module)
  BY DEF Away, Parents, CallsNow
<1>2. Parents(x)[l] \in Module
  BY <1>1
<1>3. \/ md[Parents(x)[l]].error
      \/ Reporting(frames[1], x, l)
      \/ \E j \in 2 .. Len(frames) : Reporting(frames[j], x, l)
      \/ AboutToTell(Parents(x)[l])
  BY <1>1 DEF CallsNow
<1>4. ~ Reporting(frames[1], x, l) /\ ~ AboutToTell(Parents(x)[l])
  BY DEF Reporting, AboutToTell
<1> QED
  BY <1>1, <1>2, <1>3, <1>4

LEMMA FulfilledBeginWaits ==
  ASSUME ModulesInv, RootsAgree, Waits, ImportsWait, FulfilledBegin
  PROVE  Waits' /\ ImportsWait'
<1>m. PICK m : m = Top.m
  OBVIOUS
<1>c. CallsNow(m) /\ frames[1].fn = "asyncModuleFulfilled"
  BY <1>m, CallsKnown DEF FulfilledBegin
<1>t. /\ Types /\ NoWalk /\ md \in [Module -> Records] /\ m \in Module /\ m = frames[1].m /\ Top = frames[1]
      /\ frames \in Seq(AsyncFrames) /\ frames # << >> /\ FulfilledAt(frames[1])
  BY <1>c DEF CallsNow
<1>w. Waiting /\ Calling
  BY DEF Waits, Bookkeeping
<1>u. UNCHANGED <<requests, call, jobs, imports, running, runs, done, deps, escaped>>
  BY DEF FulfilledBegin, env, scenario, history
<1>1. m \in done
  BY <1>c, <1>t DEF FulfilledAt
<1>2. CASE md[m].asyncEvaluating
  <2>1. /\ md' = [md EXCEPT ![m].asyncEvaluating = FALSE]
        /\ frames' = <<Frame(Top.fn, m, 1)>> \o Tail(frames)
    BY <1>2, <1>m DEF FulfilledBegin
  <2>2. PICK f : f = Frame(Top.fn, m, 1)
    OBVIOUS
  <2>3. f \in AsyncFrames /\ f.fn = "asyncModuleFulfilled" /\ f.m = m /\ f.i = 1
    BY <2>2, <1>c, <1>t DEF Frame, AsyncFrames, FrameSet
  <2>4. frames' \in Seq(AsyncFrames) /\ Below(1) /\ frames'[1] = f
    BY <2>1, <2>2, <2>3, <1>t, OneCall
  <2>5. PICK b, e : b = md[m] /\ e = [b EXCEPT !.asyncEvaluating = FALSE]
    OBVIOUS
  <2>6. b \in Records /\ FALSE \in BOOLEAN
    BY <2>5, <1>t, Zenon
  <2>7. e \in Records /\ SameModule(e, b) /\ ~ e.asyncEvaluating /\ e.error = b.error
        /\ e.pendingAsyncDependencies = b.pendingAsyncDependencies /\ SameImport(e, b)
    BY ONLY <2>5, <2>6 DEF Records, SameModule, SameImport
  <2>8. Away /\ md'[m] = e /\ \A x \in Module : x # m => md'[x] = md[x]
    <3>1. md' = [md EXCEPT ![m] = e] /\ SameModule(e, md[m])
      BY <2>1, <2>5, <2>7, <1>t
    <3> QED
      BY <3>1, <2>4, <2>7, <1>t, <1>u, OneChanged
  <2>9. NoStart
    <3>1. AwayImport
      BY <2>5, <2>7, <2>8, <1>u DEF AwayImport, SameImport
    <3> QED
      BY <3>1, <2>5, <2>7, <2>8, <1>1, <1>u DEF NoStart
  <2>10. NewCalls(1)
    <3>1. FulfilledAt(f)' /\ RejectedAt(f)'
      <4>1. \A l \in 1 .. Len(Parents(m)) : runs[Parents(m)[l]] = 0
        BY <1>2, <1>t, <1>w DEF Waiting
      <4>2. Parents(m)' = Parents(m)
        BY <2>8, <1>t DEF Away, Parents
      <4> QED
        BY <4>1, <4>2, <2>3, <2>7, <2>8, <1>1, <1>u DEF FulfilledAt, RejectedAt
    <3>2. \A k \in 2 .. Len(frames) : ~ SameLoop(f, frames[k])
      <4>1. \A k \in 2 .. Len(frames) : FulfilledAt(frames[k])
        BY <1>c DEF CallsNow
      <4> QED
        BY <4>1, <2>3, <1>2 DEF SameLoop, FulfilledAt
    <3>3. FulfilledAt(frames[1])' /\ RejectedAt(frames[1])'
      BY <3>1, <2>4 DEF FulfilledAt, RejectedAt
    <3> QED
      BY <3>2, <3>3, <2>3, <2>4 DEF NewCalls
  <2>11. \A x \in Module : md'[x].error = md[x].error
    BY <2>5, <2>7, <2>8
  <2>12. PICK n : n = 1
    OBVIOUS
  <2>13. n \in {0, 1, 2} /\ Below(n) /\ NewCalls(n)
    BY <2>4, <2>10, <2>12
  <2>14. NewReports(n)
    BY <2>8, <2>11, <2>13, <1>c, <1>u, SameReports
  <2>15. Calling'
    BY <2>9, <2>13, <2>14, <1>t, <1>w, CallingMoves, NoStartBelow
  <2> QED
    BY <2>9, <2>15, <1>t, NoStartWaits
<1>3. CASE ~ md[m].asyncEvaluating
  <2>1. md' = md /\ frames' = Tail(frames)
    BY <1>3, <1>m DEF FulfilledBegin
  <2>2. frames' \in Seq(AsyncFrames) /\ Below(0)
    BY <2>1, <1>t, NoneMore
  <2>3. Away
    BY <2>1, <2>2, <1>u DEF Away
  <2>4. NoStart
    BY <2>1, <2>3, <1>u DEF NoStart, AwayImport
  <2>5. PICK n : n = 0
    OBVIOUS
  <2>6. n \in {0, 1, 2} /\ Below(n) /\ NewCalls(n)
    BY <2>2, <2>5 DEF NewCalls
  <2>7. NewReports(n)
    BY <2>1, <2>3, <2>6, <1>c, <1>u, SameReports
  <2>8. Calling'
    BY <2>4, <2>6, <2>7, <1>t, <1>w, CallingMoves, NoStartBelow
  <2> QED
    BY <2>4, <2>8, <1>t, NoStartWaits
<1> QED
  BY <1>2, <1>3

LEMMA FulfilledEndWaits ==
  ASSUME ModulesInv, RootsAgree, Waits, ImportsWait, FulfilledEnd
  PROVE  Waits' /\ ImportsWait'
<1>m. PICK m : m = Top.m
  OBVIOUS
<1>c. CallsNow(m) /\ frames[1].fn = "asyncModuleFulfilled"
  BY <1>m, CallsKnown DEF FulfilledEnd
<1>t. /\ Types /\ NoWalk /\ md \in [Module -> Records] /\ m \in Module /\ m = frames[1].m /\ Top = frames[1]
      /\ frames \in Seq(AsyncFrames) /\ frames # << >> /\ FulfilledAt(frames[1])
  BY <1>c DEF CallsNow
<1>w. Calling /\ Bodies /\ Fresh
  BY DEF Waits, Bookkeeping
<1>u. UNCHANGED <<requests, call, jobs, running, runs, done, deps, escaped>>
  BY DEF FulfilledEnd, env, scenario, history
<1>1. m \in done
  BY <1>c, <1>t DEF FulfilledAt
<1>2. md[m].status = "Evaluated"
  <2>1. md[m].status \in Started
    BY <1>1, <1>t, <1>w DEF Bodies, Fresh
  <2> QED
    BY <2>1, <1>t DEF Started, NoWalk, HasStatus
<1>3. /\ imports' = Settled(ToSet(md[m].asyncPendingPromises), "fulfilled")
      /\ md' = [md EXCEPT ![m].asyncPendingPromises = << >>]
      /\ frames' = Tail(frames)
  BY <1>m DEF FulfilledEnd
<1>4. frames' \in Seq(AsyncFrames) /\ Below(0)
  BY <1>3, <1>t, NoneMore
<1>o. PICK none : none = << >>
  OBVIOUS
<1>5. PICK b, e : b = md[m] /\ e = [b EXCEPT !.asyncPendingPromises = none]
  OBVIOUS
<1>6. b \in Records /\ none \in Seq(Nat)
  BY <1>5, <1>t, <1>o
<1>7. e \in Records /\ SameModule(e, b) /\ e.asyncEvaluating = b.asyncEvaluating /\ e.error = b.error
      /\ e.pendingAsyncDependencies = b.pendingAsyncDependencies
      /\ e.asyncPendingPromises = none /\ e.topLevelCapability = b.topLevelCapability
  BY ONLY <1>5, <1>6 DEF Records, SameModule
<1>8. Away /\ md'[m] = e /\ \A x \in Module : x # m => md'[x] = md[x]
  <2>1. md' = [md EXCEPT ![m] = e] /\ SameModule(e, md[m])
    BY <1>3, <1>5, <1>7, <1>t, <1>o
  <2> QED
    BY <2>1, <1>4, <1>7, <1>t, <1>u, OneChanged
<1>9. AwayImport
  <2>1. PICK ps, s : ps = ToSet(md[m].asyncPendingPromises) /\ s = Settled(ps, "fulfilled")
    OBVIOUS
  <2>2. /\ Len(s) = Len(imports)
        /\ \A p \in 1 .. Len(imports) : /\ s[p].m = imports[p].m
                                        /\ s[p].state = IF p \in ps THEN "fulfilled" ELSE imports[p].state
    <3>1. imports \in Seq(ImportSet)
      BY <1>t DEF Types
    <3> QED
      BY ONLY <3>1, <2>1, SettledFacts
  <2>3. imports' = s
    BY <2>1, <1>3
  <2>4. \A p \in ps : imports[p].m = m
    BY <2>1, <1>t, ImportsParts DEF PromisesWait, Waited
  <2>5. ToSet(md'[m].asyncPendingPromises) = {}
    BY <1>7, <1>8, <1>o DEF ToSet
  <2>6. \A x \in Module :
          /\ md[x].error => md'[x].error
          /\ md'[x].topLevelCapability # "none" => md[x].topLevelCapability # "none"
          /\ ToSet(md'[x].asyncPendingPromises) \subseteq ToSet(md[x].asyncPendingPromises)
    BY <2>5, <1>5, <1>7, <1>8
  <2>7. \A p \in 1 .. Len(imports) : imports'[p].state = "fulfilled" =>
                \/ imports[p].state = "fulfilled"
                \/ md[imports[p].m].status = "Evaluated" /\ imports[p].m \in done
    BY <2>2, <2>3, <2>4, <1>1, <1>2
  <2> QED
    BY <2>2, <2>3, <2>6, <2>7, <1>u DEF AwayImport
<1>10. NoStart
  BY <1>5, <1>7, <1>8, <1>9, <1>u DEF NoStart
<1>11. PICK n : n = 0
  OBVIOUS
<1>12. n \in {0, 1, 2} /\ Below(n) /\ NewCalls(n)
  BY <1>4, <1>11 DEF NewCalls
<1>13. \A x \in Module : md'[x].error = md[x].error
  BY <1>5, <1>7, <1>8
<1>14. NewReports(n)
  BY <1>8, <1>12, <1>13, <1>c, <1>u, SameReports
<1>15. Calling'
  BY <1>10, <1>12, <1>14, <1>t, <1>w, CallingMoves, NoStartBelow
<1> QED
  BY <1>10, <1>15, <1>t, NoStartWaits

LEMMA RejectedBeginWaits ==
  ASSUME ModulesInv, RootsAgree, Waits, ImportsWait, RejectedBegin
  PROVE  Waits' /\ ImportsWait'
<1>m. PICK m : m = Top.m
  OBVIOUS
<1>c. CallsNow(m) /\ frames[1].fn = "asyncModuleRejected"
  BY <1>m, CallsKnown DEF RejectedBegin
<1>t. /\ Types /\ NoWalk /\ md \in [Module -> Records] /\ m \in Module /\ m = frames[1].m /\ Top = frames[1]
      /\ frames \in Seq(AsyncFrames) /\ frames # << >> /\ RejectedAt(frames[1])
      /\ \A x \in Module : Parents(x) \in Seq(Module)
  BY <1>c DEF CallsNow
<1>w. Calling /\ Fresh /\ Registered /\ Outcomes
  BY DEF Waits, Bookkeeping, Findings
<1>u. UNCHANGED <<requests, call, jobs, imports, running, runs, done, deps, escaped>>
  BY DEF RejectedBegin, env, scenario, history
<1>1. m \notin done /\ running[m] = 0 /\ frames[1].i = 0
  BY <1>c, <1>t DEF RejectedAt, RejectedBegin
<1>2. CASE md[m].asyncEvaluating
  <2>1. /\ md' = [md EXCEPT ![m].error = TRUE, ![m].asyncEvaluating = FALSE]
        /\ frames' = <<Frame(Top.fn, m, 1)>> \o Tail(frames)
    BY <1>2, <1>m DEF RejectedBegin
  <2>2. PICK f : f = Frame(Top.fn, m, 1)
    OBVIOUS
  <2>3. f \in AsyncFrames /\ f.fn = "asyncModuleRejected" /\ f.m = m /\ f.i = 1
    BY <2>2, <1>c, <1>t DEF Frame, AsyncFrames, FrameSet
  <2>4. frames' \in Seq(AsyncFrames) /\ Below(1) /\ frames'[1] = f
    BY <2>1, <2>2, <2>3, <1>t, OneCall
  <2>5. PICK b, e : b = md[m] /\ e = [b EXCEPT !.error = TRUE, !.asyncEvaluating = FALSE]
    OBVIOUS
  <2>6. b \in Records /\ FALSE \in BOOLEAN /\ TRUE \in BOOLEAN
    <3>1. FALSE \in BOOLEAN /\ TRUE \in BOOLEAN
      BY Zenon
    <3> QED
      BY <3>1, <2>5, <1>t
  <2>7. e \in Records /\ SameModule(e, b) /\ ~ e.asyncEvaluating /\ e.error
        /\ e.pendingAsyncDependencies = b.pendingAsyncDependencies /\ SameImport(e, b)
    BY ONLY <2>5, <2>6 DEF Records, SameModule, SameImport
  <2>8. Away /\ md'[m] = e /\ \A x \in Module : x # m => md'[x] = md[x]
    <3>1. md' = [md EXCEPT ![m] = e] /\ SameModule(e, md[m])
      BY <2>1, <2>5, <2>7, <1>t
    <3> QED
      BY <3>1, <2>4, <2>7, <1>t, <1>u, OneChanged
  <2>s. md[m].status \in Started
    BY <1>2, <1>t, <1>w DEF Fresh
  <2>9. NoStart
    <3>1. AwayImport
      BY <2>5, <2>7, <2>8, <1>u DEF AwayImport, SameImport
    <3> QED
      BY <3>1, <2>s, <2>7, <2>8, <1>1, <1>u DEF NoStart
  <2>10. NewCalls(1)
    <3>1. FulfilledAt(f)' /\ RejectedAt(f)'
      BY <2>3, <2>7, <2>8, <1>1, <1>u DEF FulfilledAt, RejectedAt
    <3>2. FulfilledAt(frames[1])' /\ RejectedAt(frames[1])'
      BY <3>1, <2>4 DEF FulfilledAt, RejectedAt
    <3> QED
      BY <3>2, <2>3, <2>4 DEF NewCalls
  <2>11. PICK n : n = 1
    OBVIOUS
  <2>12. n \in {0, 1, 2} /\ Below(n) /\ NewCalls(n)
    BY <2>4, <2>10, <2>11
  <2>13. NewReports(n)
    <3> SUFFICES ASSUME ~ escaped', NEW x \in Module, md'[x].error, NEW l \in 1 .. Len(Parents(x)')
                 PROVE  \/ md'[Parents(x)'[l]].error
                        \/ \E j \in 1 .. n : Reporting(frames'[j], x, l)
                        \/ \E j \in 2 .. Len(frames) : Reporting(frames[j], x, l)
      BY DEF NewReports
    <3>1. Parents(x)' = Parents(x) /\ Parents(x) \in Seq(Module)
      BY <2>8, <1>t DEF Away, Parents
    <3>2. Parents(x)[l] \in Module
      BY <3>1
    <3>3. CASE x = m
      <4>1. Reporting(frames'[1], x, l) /\ 1 \in 1 .. n
        BY <3>3, <2>3, <2>4, <2>11 DEF Reporting
      <4> QED
        BY <4>1
    <3>4. CASE x # m
      <4>1. \/ md[Parents(x)[l]].error
            \/ Reporting(frames[1], x, l)
            \/ \E j \in 2 .. Len(frames) : Reporting(frames[j], x, l)
            \/ AboutToTell(Parents(x)[l])
        BY <3>1, <3>4, <2>8, <1>c, <1>u DEF CallsNow
      <4>2. ~ Reporting(frames[1], x, l)
        BY <1>1 DEF Reporting
      <4>3. AboutToTell(Parents(x)[l]) => md'[Parents(x)[l]].error
        BY <2>7, <2>8, <1>t DEF AboutToTell
      <4>4. md[Parents(x)[l]].error => md'[Parents(x)[l]].error
        BY <3>2, <2>7, <2>8
      <4> QED
        BY <4>1, <4>2, <4>3, <4>4, <3>1
    <3> QED
      BY <3>3, <3>4
  <2>14. Calling'
    BY <2>9, <2>12, <2>13, <1>t, <1>w, CallingMoves, NoStartBelow
  <2> QED
    BY <2>9, <2>14, <1>t, NoStartWaits
<1>3. CASE ~ md[m].asyncEvaluating
  <2>1. md' = md /\ frames' = Tail(frames)
    BY <1>3, <1>m DEF RejectedBegin
  <2>2. frames' \in Seq(AsyncFrames) /\ Below(0)
    BY <2>1, <1>t, NoneMore
  <2>3. Away
    BY <2>1, <2>2, <1>u DEF Away
  <2>4. NoStart
    BY <2>1, <2>3, <1>u DEF NoStart, AwayImport
  <2>5. PICK n : n = 0
    OBVIOUS
  <2>6. n \in {0, 1, 2} /\ Below(n) /\ NewCalls(n)
    BY <2>2, <2>5 DEF NewCalls
  <2>7. NewReports(n)
    <3> SUFFICES ASSUME ~ escaped', NEW x \in Module, md'[x].error, NEW l \in 1 .. Len(Parents(x)')
                 PROVE  \/ md'[Parents(x)'[l]].error
                        \/ \E j \in 2 .. Len(frames) : Reporting(frames[j], x, l)
      BY DEF NewReports
    <3>1. Parents(x)' = Parents(x) /\ Parents(x) \in Seq(Module)
      BY <2>1, <1>t DEF Parents
    <3>2. \/ md[Parents(x)[l]].error
          \/ Reporting(frames[1], x, l)
          \/ \E j \in 2 .. Len(frames) : Reporting(frames[j], x, l)
          \/ AboutToTell(Parents(x)[l])
      BY <3>1, <2>1, <1>c, <1>u DEF CallsNow
    <3>3. ~ Reporting(frames[1], x, l)
      BY <1>1 DEF Reporting
    <3>4. ASSUME Parents(x)[l] = m PROVE md[m].error
      <4>1. deps[m] > 0
        BY <3>1, <3>4, <1>w DEF Registered
      <4>2. md[m].status = "Evaluated"
        <5>1. md[m].status \in Started
          BY <4>1, <1>t, <1>w DEF Fresh
        <5> QED
          BY <5>1, <1>t DEF Started, NoWalk, HasStatus
      <4>3. ~ md[m].error => m \in Rooted
        BY <4>2, <1>t DEF ModulesInv, RootsAgree, Rooted, HasStatus
      <4> QED
        BY <4>3, <1>1, <1>3, <1>w DEF Outcomes
    <3>5. AboutToTell(Parents(x)[l]) => md[Parents(x)[l]].error
      BY <3>4, <1>t DEF AboutToTell
    <3> QED
      BY <3>1, <3>2, <3>3, <3>5, <2>1
  <2>8. Calling'
    BY <2>4, <2>6, <2>7, <1>t, <1>w, CallingMoves, NoStartBelow
  <2> QED
    BY <2>4, <2>8, <1>t, NoStartWaits
<1> QED
  BY <1>2, <1>3

LEMMA RejectedParentWaits ==
  ASSUME ModulesInv, RootsAgree, Waits, ImportsWait, RejectedParent
  PROVE  Waits' /\ ImportsWait'
<1>m. PICK m : m = Top.m
  OBVIOUS
<1>c. CallsNow(m) /\ frames[1].fn = "asyncModuleRejected"
  BY <1>m, CallsKnown DEF RejectedParent
<1>t. /\ Types /\ NoWalk /\ m \in Module /\ m = frames[1].m /\ Top = frames[1] /\ frames[1].i \in Nat
      /\ frames \in Seq(AsyncFrames) /\ frames # << >> /\ RejectedAt(frames[1])
      /\ \A x \in Module : Parents(x) \in Seq(Module)
  BY <1>c DEF CallsNow
<1>w. Calling /\ Waiting /\ Bodies /\ HistoryTypes
  BY DEF Waits, Bookkeeping
<1>u. UNCHANGED <<requests, md, call, jobs, imports, running, runs, done, deps, escaped>>
  BY DEF RejectedParent, env, scenario, history
<1>i. PICK i : i = frames[1].i
  OBVIOUS
<1>z. PICK z : z = Parents(m)[i]
  OBVIOUS
<1>1. i \in 1 .. Len(Parents(m)) /\ i \in Nat /\ i >= 1
      /\ frames' = <<Frame(Top.fn, z, 0), Frame(Top.fn, m, i + 1)>> \o Tail(frames)
  BY <1>m, <1>i, <1>z, <1>t DEF RejectedParent, Parents
<1>2. m \notin done /\ running[m] = 0 /\ md[m].error
  BY <1>c, <1>t, <1>i, <1>1 DEF RejectedAt
<1>3. z \in Module /\ z \notin done /\ running[z] = 0
  <2>1. z \in Module /\ runs[z] = 0
    BY <1>1, <1>2, <1>z, <1>t, <1>w DEF Waiting
  <2>2. running[z] \in Nat
    BY <2>1, <1>w DEF HistoryTypes
  <2> QED
    BY <2>1, <2>2, <1>w DEF Bodies
<1>4. PICK f, g : f = Frame(Top.fn, m, i + 1) /\ g = Frame(Top.fn, z, 0)
  OBVIOUS
<1>5. /\ f \in AsyncFrames /\ f.fn = "asyncModuleRejected" /\ f.m = m /\ f.i = i + 1
      /\ g \in AsyncFrames /\ g.fn = "asyncModuleRejected" /\ g.m = z /\ g.i = 0
  BY <1>4, <1>1, <1>3, <1>c, <1>t DEF Frame, AsyncFrames, FrameSet
<1>6. frames' \in Seq(AsyncFrames) /\ Below(2) /\ frames'[1] = g /\ frames'[2] = f
  <2>1. frames' = <<g, f>> \o Tail(frames)
    BY <1>1, <1>4
  <2> QED
    BY <2>1, <1>5, <1>t, TwoCalls
<1>7. Away
  BY <1>6, <1>u DEF Away
<1>8. NoStart
  BY <1>7, <1>u DEF NoStart, AwayImport
<1>9. PICK n : n = 2
  OBVIOUS
<1>10. n \in {0, 1, 2} /\ Below(n) /\ \A j \in 1 .. n : j = 1 \/ j = 2
  BY <1>6, <1>9
<1>11. NewCalls(n)
  <2>1. FulfilledAt(f)' /\ RejectedAt(f)' /\ FulfilledAt(g)' /\ RejectedAt(g)'
    BY <1>2, <1>3, <1>5, <1>u DEF FulfilledAt, RejectedAt
  <2>2. FulfilledAt(frames[1])' /\ RejectedAt(frames[1])' /\ FulfilledAt(frames[2])' /\ RejectedAt(frames[2])'
    BY <2>1, <1>6 DEF FulfilledAt, RejectedAt
  <2>3. i + 1 # 0
    BY <1>1
  <2> QED
    BY <2>2, <2>3, <1>5, <1>6, <1>10 DEF NewCalls
<1>12. NewReports(n)
  <2> SUFFICES ASSUME ~ escaped', NEW x \in Module, md'[x].error, NEW l \in 1 .. Len(Parents(x)')
               PROVE  \/ md'[Parents(x)'[l]].error
                      \/ \E j \in 1 .. n : Reporting(frames'[j], x, l)
                      \/ \E j \in 2 .. Len(frames) : Reporting(frames[j], x, l)
                      \/ AboutToTell(Parents(x)[l])'
    BY DEF NewReports
  <2>1. Parents(x)' = Parents(x) /\ Parents(x) \in Seq(Module)
    BY <1>u, <1>t DEF Parents
  <2>2. \/ md[Parents(x)[l]].error
        \/ Reporting(frames[1], x, l)
        \/ \E j \in 2 .. Len(frames) : Reporting(frames[j], x, l)
        \/ AboutToTell(Parents(x)[l])
    BY <2>1, <1>c, <1>u DEF CallsNow
  <2>3. ~ AboutToTell(Parents(x)[l])
    BY <1>1, <1>i DEF AboutToTell
  <2>4. CASE Reporting(frames[1], x, l)
    <3>1. x = m /\ i <= l /\ l \in Nat
      BY <2>4, <1>i, <1>t DEF Reporting
    <3>2. CASE l = i
      <4>1. frames' # << >>
        <5>1. CASE frames' = << >>
          <6>1. Len(frames') = 0
            BY ONLY <5>1
          <6>2. PICK k : k = Len(frames)
            OBVIOUS
          <6>3. Len(frames') = (k - 1) + 2 /\ k \in Nat /\ k >= 1
            BY <6>2, <1>6 DEF Below
          <6>4. 0 = (k - 1) + 2
            BY <6>1, <6>3
          <6>5. FALSE
            BY ONLY <6>3, <6>4
          <6> QED
            BY <6>5
        <5> QED
          BY <5>1
      <4>2. Parents(x)'[l] = z
        BY <3>1, <3>2, <2>1, <1>z
      <4>3. AboutToTell(Parents(x)[l])'
        BY <4>1, <4>2, <1>5, <1>6 DEF AboutToTell
      <4> QED
        BY <4>3
    <3>3. CASE l # i
      <4>1. i + 1 <= l /\ i + 1 >= 1
        BY <3>1, <3>3, <1>1
      <4>2. Reporting(frames'[2], x, l) /\ 2 \in 1 .. n
        BY <4>1, <3>1, <1>5, <1>6, <1>9 DEF Reporting
      <4> QED
        BY <4>2
    <3> QED
      BY <3>2, <3>3
  <2> QED
    BY <2>1, <2>2, <2>3, <2>4, <1>u
<1>13. Calling'
  BY <1>8, <1>10, <1>11, <1>12, <1>t, <1>w, CallingMoves, NoStartBelow
<1> QED
  BY <1>8, <1>13, <1>t, NoStartWaits

LEMMA RejectedEndWaits ==
  ASSUME ModulesInv, RootsAgree, Waits, ImportsWait, RejectedEnd
  PROVE  Waits' /\ ImportsWait'
<1>m. PICK m : m = Top.m
  OBVIOUS
<1>c. CallsNow(m) /\ frames[1].fn = "asyncModuleRejected"
  BY <1>m, CallsKnown DEF RejectedEnd
<1>t. /\ Types /\ NoWalk /\ md \in [Module -> Records] /\ m \in Module /\ m = frames[1].m /\ Top = frames[1]
      /\ frames[1].i \in Nat /\ frames \in Seq(AsyncFrames) /\ frames # << >>
      /\ \A x \in Module : Parents(x) \in Seq(Module)
  BY <1>c DEF CallsNow
<1>w. Calling
  BY DEF Waits
<1>u. UNCHANGED <<requests, call, jobs, running, runs, done, deps>>
  BY DEF RejectedEnd, env, scenario, history
<1>p. PICK waiting : waiting = ToSet(md[m].asyncPendingPromises)
  OBVIOUS
<1>o. PICK none, cap : none = << >> /\ cap = IF md[m].topLevelCapability = "pending" THEN "rejected" ELSE md[m].topLevelCapability
  OBVIOUS
<1>3. /\ imports' = Settled(waiting, "rejected")
      /\ md' = [md EXCEPT ![m].asyncPendingPromises = << >>,
                          ![m].topLevelCapability = IF @ = "pending" THEN "rejected" ELSE @]
      /\ frames' = IF waiting = {} THEN << >> ELSE Tail(frames)
      /\ escaped' = (escaped \/ waiting = {})
      /\ frames[1].i > Len(Parents(m))
  BY <1>m, <1>p, <1>t, Zenon DEF RejectedEnd, Parents
<1>4. frames' \in Seq(AsyncFrames) /\ (waiting # {} => Below(0) /\ (escaped => escaped')) /\ (waiting = {} => frames' = << >> /\ escaped')
  <2>e. (escaped => escaped') /\ (waiting = {} => escaped')
    BY ONLY <1>3, Zenon
  <2>1. CASE waiting = {}
    <3>1. frames' = << >>
      BY ONLY <2>1, <1>3
    <3>2. frames' \in Seq(AsyncFrames)
      BY ONLY <3>1
    <3> QED
      BY <2>1, <2>e, <3>1, <3>2
  <2>2. CASE waiting # {}
    <3>1. frames' = Tail(frames)
      BY ONLY <2>2, <1>3
    <3>2. frames' \in Seq(AsyncFrames) /\ Below(0)
      BY <3>1, <1>t, NoneMore
    <3> QED
      BY <2>2, <2>e, <3>2
  <2> QED
    BY <2>1, <2>2
<1>5. PICK b, e : b = md[m] /\ e = [b EXCEPT !.asyncPendingPromises = none, !.topLevelCapability = cap]
  OBVIOUS
<1>6. b \in Records /\ none \in Seq(Nat) /\ cap \in {"none", "pending", "resolved", "rejected"}
      /\ (cap # "none" => b.topLevelCapability # "none")
  BY <1>5, <1>t, <1>o DEF Records
<1>7. e \in Records /\ SameModule(e, b) /\ e.asyncEvaluating = b.asyncEvaluating /\ e.error = b.error
      /\ e.pendingAsyncDependencies = b.pendingAsyncDependencies
      /\ e.asyncPendingPromises = none /\ e.topLevelCapability = cap
  BY ONLY <1>5, <1>6 DEF Records, SameModule
<1>8. Away /\ md'[m] = e /\ \A x \in Module : x # m => md'[x] = md[x]
  <2>1. md' = [md EXCEPT ![m] = e] /\ SameModule(e, md[m])
    BY <1>3, <1>5, <1>7, <1>t, <1>o
  <2> QED
    BY <2>1, <1>4, <1>7, <1>t, <1>u, OneChanged
<1>9. AwayImport
  <2>1. PICK s : s = Settled(waiting, "rejected")
    OBVIOUS
  <2>2. /\ Len(s) = Len(imports)
        /\ \A p \in 1 .. Len(imports) : /\ s[p].m = imports[p].m
                                        /\ s[p].state = IF p \in waiting THEN "rejected" ELSE imports[p].state
    BY <2>1, <1>t, SettledFacts DEF Types
  <2>3. imports' = s
    BY <2>1, <1>3
  <2>5. ToSet(md'[m].asyncPendingPromises) = {}
    BY <1>7, <1>8, <1>o DEF ToSet
  <2>6. \A x \in Module :
          /\ md[x].error => md'[x].error
          /\ md'[x].topLevelCapability # "none" => md[x].topLevelCapability # "none"
          /\ ToSet(md'[x].asyncPendingPromises) \subseteq ToSet(md[x].asyncPendingPromises)
    BY <2>5, <1>5, <1>6, <1>7, <1>8
  <2>7. \A p \in 1 .. Len(imports) : imports'[p].state = "fulfilled" => imports[p].state = "fulfilled"
    BY <2>2, <2>3
  <2> QED
    BY <2>2, <2>3, <2>6, <2>7, <1>u DEF AwayImport
<1>10. NoStart
  BY <1>5, <1>7, <1>8, <1>9, <1>u DEF NoStart
<1>11. Calling'
  <2>1. CASE waiting = {}
    <3>1. frames' = << >> /\ escaped'
      BY <2>1, <1>4
    <3> QED
      BY <3>1 DEF Calling, Fulfilling, Rejecting, Reported
  <2>2. CASE waiting # {}
    <3>1. PICK n : n = 0
      OBVIOUS
    <3>2. n \in {0, 1, 2} /\ Below(n) /\ NewCalls(n) /\ (escaped => escaped')
      BY <2>2, <3>1, <1>4 DEF NewCalls
    <3>3. NewReports(n)
      <4> SUFFICES ASSUME ~ escaped', NEW x \in Module, md'[x].error, NEW l \in 1 .. Len(Parents(x)')
                   PROVE  \/ md'[Parents(x)'[l]].error
                          \/ \E j \in 2 .. Len(frames) : Reporting(frames[j], x, l)
        BY DEF NewReports
      <4>1. Parents(x)' = Parents(x) /\ Parents(x) \in Seq(Module) /\ md[x].error /\ ~ escaped
        BY <3>2, <1>5, <1>7, <1>8, <1>t DEF Away, Parents
      <4>2. \/ md[Parents(x)[l]].error
            \/ Reporting(frames[1], x, l)
            \/ \E j \in 2 .. Len(frames) : Reporting(frames[j], x, l)
            \/ AboutToTell(Parents(x)[l])
        BY <4>1, <1>c DEF CallsNow
      <4>3. PICK k, i : k = Len(Parents(m)) /\ i = frames[1].i
        OBVIOUS
      <4>4. k \in Nat /\ i \in Nat /\ i > k
        BY <4>3, <1>t, <1>3
      <4>5. ~ AboutToTell(Parents(x)[l])
        BY <4>3, <4>4 DEF AboutToTell
      <4>6. ~ Reporting(frames[1], x, l)
        <5>1. x = m => l \in 1 .. k
          BY <4>1, <4>3
        <5>2. x = m => ~ (i <= l)
          BY <5>1, <4>4
        <5> QED
          BY <5>2, <4>3, <1>t DEF Reporting
      <4>7. Parents(x)[l] \in Module
        BY <4>1
      <4>8. md[Parents(x)[l]].error => md'[Parents(x)[l]].error
        BY <4>7, <1>5, <1>7, <1>8
      <4> QED
        BY <4>1, <4>2, <4>5, <4>6, <4>8
    <3> QED
      BY <3>2, <3>3, <1>10, <1>t, <1>w, CallingMoves, NoStartBelow
  <2> QED
    BY <2>1, <2>2
<1> QED
  BY <1>10, <1>11, <1>t, NoStartWaits

-----------------------------------------------------------------------------
(* Completion: a parent of a module that came to its end                    *)

\* Call i of the loop over the parents of m is about q, which has not run.
ParentNow(m, i, q) ==
    /\ CallsNow(m) /\ frames[1].fn = "asyncModuleFulfilled" /\ frames[1].i = i /\ i \in Nat /\ i >= 1
    /\ m \in done /\ ~ md[m].asyncEvaluating
    /\ i \in 1 .. Len(Parents(m)) /\ q = Parents(m)[i]
    /\ \A l \in 1 .. Len(Parents(m)) : i <= l => runs[Parents(m)[l]] = 0
    /\ q \in Module /\ runs[q] = 0 /\ running[q] = 0 /\ q \notin done /\ md[q].status = "Evaluated"
    /\ ~ md[q].error => q \in Rooted /\ md[q].asyncEvaluating /\ StartOf(q)
    /\ \A x \in Module : \A l \in 1 .. Len(Parents(x)) : Parents(x)[l] = q => x = m /\ l = i

LEMMA ParentKnown ==
  ASSUME ModulesInv, RootsAgree, Waits, In("asyncModuleFulfilled"), NEW m, NEW i, NEW q, m = Top.m, i = Top.i,
         i \in 1 .. Len(md[m].asyncParentModules), q = md[m].asyncParentModules[i]
  PROVE  ParentNow(m, i, q)
<1>c. CallsNow(m) /\ frames[1].fn = "asyncModuleFulfilled"
  BY CallsKnown
<1>t. /\ Types /\ NoWalk /\ m \in Module /\ m = frames[1].m /\ Top = frames[1] /\ i = frames[1].i /\ i \in Nat
      /\ FulfilledAt(frames[1]) /\ \A x \in Module : Parents(x) \in Seq(Module)
  BY <1>c DEF CallsNow
<1>w. /\ HistoryTypes /\ Fresh /\ Registered /\ Bodies /\ Outcomes /\ Found /\ Starts /\ Bookkeeping /\ RootsAgree
  BY DEF ModulesInv, Waits, Bookkeeping, Findings
<1>1. i \in 1 .. Len(Parents(m)) /\ q = Parents(m)[i] /\ i >= 1 /\ q \in Module
  <2>1. i \in 1 .. Len(Parents(m)) /\ q = Parents(m)[i] /\ Parents(m) \in Seq(Module)
    BY <1>t DEF Parents
  <2> QED
    BY <2>1
<1>2. m \in done /\ ~ md[m].asyncEvaluating /\ \A l \in 1 .. Len(Parents(m)) : i <= l => runs[Parents(m)[l]] = 0
  BY <1>c, <1>t, <1>1 DEF FulfilledAt
<1>3. runs[q] = 0
  <2>1. i <= i
    BY <1>t
  <2> QED
    BY ONLY <2>1, <1>1, <1>2
<1>4. running[q] = 0 /\ q \notin done
  <2>1. running[q] \in Nat
    BY <1>1, <1>w DEF HistoryTypes
  <2> QED
    BY <2>1, <1>1, <1>3, <1>w DEF Bodies
<1>5. md[q].status = "Evaluated"
  <2>1. deps[q] > 0
    BY <1>1, <1>t, <1>w DEF Registered
  <2>2. md[q].status \in Started
    BY <2>1, <1>1, <1>w DEF Fresh
  <2> QED
    BY <2>2, <1>1, <1>t DEF Started, NoWalk, HasStatus
<1>6. \A x \in Module : \A l \in 1 .. Len(Parents(x)) : Parents(x)[l] = q => x = m /\ l = i
  BY <1>1, <1>t, <1>w DEF Registered
<1>7. ASSUME ~ md[q].error
      PROVE  q \in Rooted /\ md[q].asyncEvaluating /\ StartOf(q)
  <2>1. q \in Rooted
    BY <1>7, <1>5, <1>1, <1>w DEF RootsAgree, Rooted, HasStatus
  <2>2. md[q].asyncEvaluating
    BY <2>1, <1>7, <1>4, <1>w DEF Outcomes
  <2>3. ASSUME NEW k \in 1 .. Len(requests[q])
        PROVE  SameCycle(q, requests[q][k]) \/ AllDone(requests[q][k])
    <3>1. PICK r, z : r = requests[q][k] /\ z = md[r].cycleRoot
      OBVIOUS
    <3>2. r \in Rooted
      BY <3>1, <2>1, <1>w DEF RootsAgree
    <3>3. /\ r \in Module /\ z \in Module /\ z \in Rooted /\ md[z].cycleRoot = z /\ Reaches(z, r)
      BY <3>1, <3>2, RootIsComplete
    <3>4. z = md[q].cycleRoot \/ AllDone(r) \/ q \in ToSet(Parents(z))
      BY <3>1, <2>1, <1>w DEF Found, RequestsOf
    <3>5. CASE z = md[q].cycleRoot
      <4>1. SameCycle(q, r)
        BY <3>1, <3>2, <3>5, <2>1, SameRootSameCycle
      <4> QED
        BY <4>1, <3>1
    <3>6. CASE q \in ToSet(Parents(z))
      <4>0. Parents(z) \in Seq(Module)
        BY <3>3, <1>t
      <4>1. PICK l \in 1 .. Len(Parents(z)) : Parents(z)[l] = q
        BY ONLY <4>0, <3>6 DEF ToSet
      <4>2. z = m
        BY <4>1, <3>3, <1>6
      <4>3. AllDone(z)
        BY <4>2, <3>3, <1>2, <1>w, RootDone
      <4>4. AllDone(r)
        BY <4>3, <3>3, AllDoneOn
      <4> QED
        BY <4>4, <3>1
    <3> QED
      BY <3>1, <3>4, <3>5, <3>6
  <2> QED
    BY <2>1, <2>2, <2>3 DEF StartOf
<1> QED
  BY <1>c, <1>t, <1>1, <1>2, <1>3, <1>4, <1>5, <1>6, <1>7 DEF ParentNow

\* What the steps for a parent q have in common: only q changes.
OnlyParent(q) ==
    /\ UNCHANGED <<requests, call, jobs, imports, deps, escaped>> /\ frames' \in Seq(AsyncFrames)
    /\ done \subseteq done' /\ done' \subseteq done \union {q}
    /\ \A x \in Module : /\ x # q => md'[x] = md[x] /\ runs'[x] = runs[x] /\ running'[x] = running[x]
                         /\ SameModule(md'[x], md[x]) /\ SameImport(md'[x], md[x]) /\ md'[x].error = md[x].error
                         /\ md'[x].asyncEvaluating <=> md[x].asyncEvaluating

\* Its body is started, and a body without top-level await has ended or thrown.
BodyStarted(q) ==
    /\ runs' \in [Module -> Nat] /\ running' \in [Module -> Nat] /\ runs'[q] = 1
    /\ running'[q] = 0 \/ (running'[q] = 1 /\ q \notin done')

LEMMA OnlyParentAway ==
  ASSUME NEW q, OnlyParent(q)
  PROVE  Away /\ AwayImport /\ \A x \in Module : Parents(x)' = Parents(x)
<1>1. Away /\ \A x \in Module : Parents(x)' = Parents(x)
  BY DEF OnlyParent, Away, SameModule, Parents
<1>2. AwayImport
  BY DEF OnlyParent, AwayImport, SameImport
<1> QED
  BY <1>1, <1>2

LEMMA BodyStartedBelow ==
  ASSUME NEW m, NEW i, NEW q, ParentNow(m, i, q), OnlyParent(q), BodyStarted(q), ~ md[q].error
  PROVE  KeepsBelow
<1>p. /\ m \in Module /\ m = frames[1].m /\ frames[1].fn = "asyncModuleFulfilled" /\ frames[1].i >= 1
      /\ \A k \in 2 .. Len(frames) : /\ ~ (frames[k].fn = "asyncModuleRejected" /\ frames[k].i = 0)
                                     /\ ~ SameLoop(frames[1], frames[k])
      /\ \A x \in Module : Parents(x) \in Seq(Module)
      /\ \A x \in Module : \A l \in 1 .. Len(Parents(x)) : Parents(x)[l] = q => x = m
  BY DEF ParentNow, CallsNow
<1>o. /\ done \subseteq done' /\ done' \subseteq done \union {q}
      /\ \A x \in Module : /\ x # q => runs'[x] = runs[x] /\ running'[x] = running[x]
                           /\ md'[x].error = md[x].error
                           /\ md'[x].asyncEvaluating <=> md[x].asyncEvaluating
                           /\ Parents(x)' = Parents(x)
  BY OnlyParentAway DEF OnlyParent
<1> SUFFICES ASSUME NEW f \in AsyncFrames, IsBelow(f)
             PROVE  (FulfilledAt(f) => FulfilledAt(f)') /\ (RejectedAt(f) => RejectedAt(f)')
  BY DEF KeepsBelow
<1>1. f.m \in Module
  BY DEF AsyncFrames, FrameSet
<1>2. ~ (f.fn = "asyncModuleRejected" /\ f.i = 0) /\ ~ SameLoop(frames[1], f)
  BY <1>p DEF IsBelow
<1>3. ASSUME FulfilledAt(f), f.fn = "asyncModuleFulfilled", f.i >= 1, NEW l \in 1 .. Len(Parents(f.m)), f.i <= l
      PROVE  runs'[Parents(f.m)[l]] = 0
  <2>1. runs[Parents(f.m)[l]] = 0 /\ Parents(f.m)[l] \in Module
    BY <1>3, <1>1, <1>p DEF FulfilledAt
  <2>2. Parents(f.m)[l] # q
    BY <1>1, <1>2, <1>3, <1>p DEF SameLoop
  <2> QED
    BY <2>1, <2>2, <1>o
<1>4. FulfilledAt(f) => FulfilledAt(f)'
  BY <1>1, <1>3, <1>o DEF FulfilledAt
<1>5. RejectedAt(f) => RejectedAt(f)'
  BY <1>1, <1>2, <1>o DEF RejectedAt
<1> QED
  BY <1>4, <1>5

\* The frame that goes on with the next parent.
LEMMA NextParent ==
  ASSUME NEW m, NEW i, NEW q, ParentNow(m, i, q), OnlyParent(q), runs'[q] = 0 \/ BodyStarted(q),
         NEW f, f = Frame(Top.fn, m, i + 1)
  PROVE  /\ f \in AsyncFrames /\ f.fn = "asyncModuleFulfilled" /\ f.i >= 1
         /\ FulfilledAt(f)' /\ RejectedAt(f)' /\ \A k \in 2 .. Len(frames) : ~ SameLoop(f, frames[k])
<1>p. /\ m \in Module /\ m = frames[1].m /\ Top = frames[1] /\ frames[1].fn = "asyncModuleFulfilled"
      /\ frames[1].i = i /\ i \in Nat /\ i >= 1 /\ m \in done /\ ~ md[m].asyncEvaluating
      /\ \A k \in 2 .. Len(frames) : ~ SameLoop(frames[1], frames[k])
      /\ Parents(m) \in Seq(Module)
      /\ \A l \in 1 .. Len(Parents(m)) : i <= l => runs[Parents(m)[l]] = 0
      /\ \A l \in 1 .. Len(Parents(m)) : Parents(m)[l] = q => l = i
  BY DEF ParentNow, CallsNow
<1>o. /\ done \subseteq done' /\ Parents(m)' = Parents(m) /\ (md'[m].asyncEvaluating <=> md[m].asyncEvaluating)
      /\ \A x \in Module : x # q => runs'[x] = runs[x]
  <2>1. \A x \in Module : Parents(x)' = Parents(x)
    BY OnlyParentAway
  <2> QED
    BY <2>1, <1>p DEF OnlyParent
<1>1. i + 1 \in Nat /\ i + 1 >= 1 /\ \A l \in Nat : i + 1 <= l => i <= l /\ l # i
  BY ONLY <1>p
<1>2. f \in AsyncFrames /\ f.fn = "asyncModuleFulfilled" /\ f.m = m /\ f.i = i + 1
  BY <1>1, <1>p DEF Frame, AsyncFrames, FrameSet
<1>3. ASSUME NEW l \in 1 .. Len(Parents(m)), i + 1 <= l
      PROVE  runs'[Parents(m)[l]] = 0
  <2>1. l \in Nat /\ Parents(m)[l] \in Module
    BY <1>p
  <2>2. i <= l /\ l # i
    BY <2>1, <1>1, <1>3
  <2> QED
    BY <2>1, <2>2, <1>p, <1>o
<1>4. FulfilledAt(f)' /\ RejectedAt(f)'
  BY <1>2, <1>3, <1>p, <1>o DEF FulfilledAt, RejectedAt
<1>5. \A k \in 2 .. Len(frames) : ~ SameLoop(f, frames[k])
  BY <1>2, <1>p DEF SameLoop
<1> QED
  BY <1>1, <1>2, <1>4, <1>5

LEMMA BodyStartedWaits ==
  ASSUME ModulesInv, RootsAgree, Waits, ImportsWait, NEW m, NEW i, NEW q, ParentNow(m, i, q), OnlyParent(q), BodyStarted(q),
         ~ md[q].error, Calling'
  PROVE  Waits' /\ ImportsWait'
<1>t. Types /\ NoWalk /\ HistoryTypes /\ Fresh /\ Waiting /\ Bodies /\ Outcomes
  BY DEF Waits, Bookkeeping, Findings, ParentNow, CallsNow
<1>p. /\ m \in done /\ ~ md[m].asyncEvaluating /\ q \in Module /\ runs[q] = 0 /\ q \notin done /\ StartOf(q)
      /\ md[q].status = "Evaluated" /\ \A x \in Module : Parents(x) \in Seq(Module)
      /\ \A x \in Module : \A l \in 1 .. Len(Parents(x)) : Parents(x)[l] = q => x = m
  BY DEF ParentNow, CallsNow
<1>a. Away /\ AwayImport /\ \A x \in Module : Parents(x)' = Parents(x)
  BY OnlyParentAway
<1>o. /\ jobs' = jobs /\ deps' = deps /\ done \subseteq done' /\ done' \subseteq done \union {q}
      /\ \A x \in Module : /\ x # q => md'[x] = md[x] /\ runs'[x] = runs[x] /\ running'[x] = running[x]
                           /\ md'[x].status = md[x].status /\ md'[x].error = md[x].error
                           /\ md'[x].asyncEvaluating <=> md[x].asyncEvaluating
  BY DEF OnlyParent, SameModule
<1>b. /\ runs' \in [Module -> Nat] /\ running' \in [Module -> Nat] /\ runs'[q] = 1
      /\ running'[q] = 0 \/ (running'[q] = 1 /\ q \notin done')
  BY DEF BodyStarted
<1>1. AwayKept
  <2>1. \A x \in Module : runs'[x] > 0 => runs[x] > 0 \/ StartOf(x)
    BY <1>o, <1>p
  <2> QED
    BY <2>1, <1>a, <1>t, AwayFacts
<1>2. HistoryTypes'
  BY <1>b, <1>o, <1>t, <1>p DEF HistoryTypes
<1>3. Bodies'
  <2>1. \A x \in done' : runs'[x] > 0
    <3> SUFFICES ASSUME NEW x \in done' PROVE runs'[x] > 0
      OBVIOUS
    <3>1. CASE x = q
      BY <3>1, <1>b
    <3>2. CASE x # q
      <4>1. x \in done /\ x \in Module
        BY <3>2, <1>o, <1>t DEF HistoryTypes
      <4>2. runs[x] > 0 /\ runs'[x] = runs[x]
        BY <4>1, <3>2, <1>o, <1>t DEF Bodies
      <4> QED
        BY <4>2
    <3> QED
      BY <3>1, <3>2
  <2>2. \A x \in Module : running'[x] > 0 => running'[x] = 1 /\ runs'[x] > 0 /\ x \notin done'
    <3> SUFFICES ASSUME NEW x \in Module, running'[x] > 0
                 PROVE  running'[x] = 1 /\ runs'[x] > 0 /\ x \notin done'
      OBVIOUS
    <3>1. CASE x = q
      BY <3>1, <1>b
    <3>2. CASE x # q
      <4>1. running'[x] = running[x] /\ runs'[x] = runs[x] /\ (x \in done' => x \in done)
        BY <3>2, <1>o
      <4>2. running[x] = 1 /\ runs[x] > 0 /\ x \notin done
        BY <4>1, <1>t DEF Bodies
      <4> QED
        BY <4>1, <4>2
    <3> QED
      BY <3>1, <3>2
  <2>3. ASSUME NEW k \in 1 .. Len(jobs'), jobs'[k].fn \in BodyJobs
        PROVE  /\ running'[jobs'[k].m] = 0 /\ runs'[jobs'[k].m] > 0
               /\ jobs'[k].fn = "asyncModuleFulfilled" <=> jobs'[k].m \in done'
    <3>1. jobs[k] \in JobSet
      BY <1>o, <1>t DEF Types
    <3>2. jobs[k].m \in Module
      BY <3>1 DEF JobSet
    <3>3. /\ running[jobs[k].m] = 0 /\ runs[jobs[k].m] > 0
          /\ jobs[k].fn = "asyncModuleFulfilled" <=> jobs[k].m \in done
      BY <2>3, <1>o, <1>t DEF Bodies
    <3>4. jobs[k].m # q
      BY <3>3, <1>p
    <3> QED
      BY <3>2, <3>3, <3>4, <1>o
  <2> QED
    BY <2>1, <2>2, <2>3 DEF Bodies
<1>4. Fresh'
  <2>1. \A x \in Module : md'[x].status \notin Started => x # q
    BY <1>o, <1>p DEF Started
  <2> QED
    BY <2>1, <1>a, <1>o, <1>t DEF Fresh
<1>5. Waiting'
  <2> SUFFICES ASSUME NEW x \in Module, x \notin done' \/ md'[x].asyncEvaluating, NEW l \in 1 .. Len(Parents(x)')
               PROVE  runs'[Parents(x)'[l]] = 0
    BY DEF Waiting
  <2>1. x \notin done \/ md[x].asyncEvaluating
    BY <1>o
  <2>2. Parents(x)' = Parents(x) /\ Parents(x) \in Seq(Module)
    BY <1>a, <1>p
  <2>3. runs[Parents(x)[l]] = 0 /\ Parents(x)[l] \in Module
    BY <2>1, <2>2, <1>t DEF Waiting
  <2>4. Parents(x)[l] # q
    BY <2>1, <2>2, <1>p
  <2> QED
    BY <2>2, <2>3, <2>4, <1>o
<1>6. Outcomes'
  <2>1. \A x \in Rooted : x \in Module
    BY DEF Rooted, HasStatus
  <2>2. \A x \in Rooted : x \in done' \/ md'[x].asyncEvaluating \/ md'[x].error
    BY <2>1, <1>t, <1>o DEF Outcomes
  <2>3. \A x \in Rooted : md'[x].error => x \notin done' /\ running'[x] = 0
    BY <2>1, <1>t, <1>o DEF Outcomes
  <2> QED
    BY <2>2, <2>3, <1>1 DEF Outcomes, AwayKept
<1>7. ImportsWait'
  BY <1>a, <1>t, AwayImports
<1> QED
  BY <1>1, <1>2, <1>3, <1>4, <1>5, <1>6, <1>7 DEF Waits, Bookkeeping, Findings, AwayKept

\* The data differ in the count of q.
CountedDown(q, data) ==
    /\ data \in [Module -> Records]
    /\ \A x \in Module : /\ x # q => data[x] = md[x]
                         /\ SameModule(data[x], md[x]) /\ SameImport(data[x], md[x]) /\ data[x].error = md[x].error
                         /\ data[x].asyncEvaluating <=> md[x].asyncEvaluating

LEMMA CountDown ==
  ASSUME md \in [Module -> Records], NEW q \in Module, NEW data,
         data = [md EXCEPT ![q].pendingAsyncDependencies = @ - 1]
  PROVE  CountedDown(q, data)
<1>1. PICK b, c : b = md[q] /\ c = b.pendingAsyncDependencies - 1
  OBVIOUS
<1>2. b \in Records /\ c \in Int
  BY <1>1 DEF Records
<1>3. PICK e : e = [b EXCEPT !.pendingAsyncDependencies = c]
  OBVIOUS
<1>4. e \in Records /\ SameModule(e, b) /\ SameImport(e, b) /\ e.error = b.error /\ e.asyncEvaluating = b.asyncEvaluating
  BY ONLY <1>2, <1>3 DEF Records, SameModule, SameImport
<1>5. data = [md EXCEPT ![q] = e]
  BY <1>1, <1>3
<1>6. data \in [Module -> Records] /\ data[q] = e /\ \A x \in Module : x # q => data[x] = md[x]
  BY <1>4, <1>5
<1>7. \A x \in Module : SameModule(md[x], md[x]) /\ SameImport(md[x], md[x])
  BY DEF SameModule, SameImport
<1> QED
  BY <1>1, <1>4, <1>6, <1>7 DEF CountedDown

\* The count of a parent that waits in vain goes down, nothing else.
LEMMA ParentPassed ==
  ASSUME ModulesInv, RootsAgree, Waits, ImportsWait, NEW m, NEW i, NEW q, ParentNow(m, i, q), OnlyParent(q),
         UNCHANGED <<running, runs, done>>,
         \/ frames' = <<Frame(Top.fn, m, i + 1)>> \o Tail(frames)
         \/ frames' = Tail(frames)
  PROVE  Waits' /\ ImportsWait'
<1>c. /\ CallsNow(m) /\ frames[1].fn = "asyncModuleFulfilled" /\ NoWalk /\ runs[q] = 0
      /\ frames \in Seq(AsyncFrames) /\ frames # << >> /\ q \in Module /\ md[q].status = "Evaluated"
  BY DEF ParentNow, CallsNow
<1>1. Away /\ AwayImport
  BY OnlyParentAway
<1>2. NoStart
  BY <1>1, <1>c DEF NoStart, OnlyParent, Started
<1>3. KeepsBelow
  BY <1>2, <1>c, NoStartBelow
<1>4. escaped' = escaped /\ \A x \in Module : md'[x].error = md[x].error
  BY DEF OnlyParent
<1>w. Calling
  BY DEF Waits
<1>5. CASE frames' = <<Frame(Top.fn, m, i + 1)>> \o Tail(frames)
  <2>1. PICK f : f = Frame(Top.fn, m, i + 1)
    OBVIOUS
  <2>2. runs'[q] = 0
    BY <1>c
  <2>3. /\ f \in AsyncFrames /\ f.fn = "asyncModuleFulfilled" /\ f.i >= 1
        /\ FulfilledAt(f)' /\ RejectedAt(f)' /\ \A k \in 2 .. Len(frames) : ~ SameLoop(f, frames[k])
    BY <2>1, <2>2, NextParent
  <2>4. frames' \in Seq(AsyncFrames) /\ Below(1) /\ frames'[1] = f
    BY <2>1, <2>3, <1>5, <1>c, OneCall
  <2>5. FulfilledAt(frames[1])' /\ RejectedAt(frames[1])'
    BY <2>3, <2>4 DEF FulfilledAt, RejectedAt
  <2>6. NewCalls(1)
    BY <2>3, <2>4, <2>5 DEF NewCalls
  <2>7. PICK n : n = 1
    OBVIOUS
  <2>8. n \in {0, 1, 2} /\ Below(n) /\ NewCalls(n)
    BY <2>4, <2>6, <2>7
  <2>9. NewReports(n)
    BY <2>8, <1>1, <1>4, <1>c, SameReports
  <2>10. Calling'
    BY <2>8, <2>9, <1>3, <1>c, <1>w, CallingMoves
  <2> QED
    BY <2>10, <1>2, <1>c, NoStartWaits
<1>6. CASE frames' = Tail(frames)
  <2>1. Below(0)
    BY <1>6, <1>c, NoneMore
  <2>2. PICK n : n = 0
    OBVIOUS
  <2>3. n \in {0, 1, 2} /\ Below(n) /\ NewCalls(n)
    BY <2>1, <2>2 DEF NewCalls
  <2>4. NewReports(n)
    BY <2>3, <1>1, <1>4, <1>c, SameReports
  <2>5. Calling'
    BY <2>3, <2>4, <1>3, <1>c, <1>w, CallingMoves
  <2> QED
    BY <2>5, <1>2, <1>c, NoStartWaits
<1> QED
  BY <1>5, <1>6

\* The body of a parent is started: it awaits, or its outcome is taken over at once.
LEMMA ParentStarted ==
  ASSUME ModulesInv, RootsAgree, Waits, ImportsWait, NEW m, NEW i, NEW q, ParentNow(m, i, q), OnlyParent(q), BodyStarted(q),
         ~ md[q].error, NEW rest, rest = <<Frame(Top.fn, m, i + 1)>> \o Tail(frames),
         \/ frames' = rest
         \/ /\ running'[q] = 0
            /\ \/ q \in done' /\ frames' = <<Frame("asyncModuleFulfilled", q, 0)>> \o rest
               \/ q \notin done' /\ frames' = <<Frame("asyncModuleRejected", q, 0)>> \o rest
  PROVE  Waits' /\ ImportsWait'
<1>c. /\ CallsNow(m) /\ frames[1].fn = "asyncModuleFulfilled" /\ q \in Module
      /\ frames \in Seq(AsyncFrames) /\ frames # << >>
  BY DEF ParentNow, CallsNow
<1>1. Away
  BY OnlyParentAway
<1>3. KeepsBelow
  BY BodyStartedBelow
<1>4. escaped' = escaped /\ \A x \in Module : md'[x].error = md[x].error
  BY DEF OnlyParent
<1>w. Calling
  BY DEF Waits
<1>f. PICK f : f = Frame(Top.fn, m, i + 1)
  OBVIOUS
<1>5. /\ f \in AsyncFrames /\ f.fn = "asyncModuleFulfilled" /\ f.i >= 1
      /\ FulfilledAt(f)' /\ RejectedAt(f)' /\ \A k \in 2 .. Len(frames) : ~ SameLoop(f, frames[k])
  BY <1>f, NextParent
<1>6. CASE frames' = rest
  <2>1. frames' = <<f>> \o Tail(frames)
    BY <1>6, <1>f
  <2>4. frames' \in Seq(AsyncFrames) /\ Below(1) /\ frames'[1] = f
    BY <2>1, <1>5, <1>c, OneCall
  <2>5. FulfilledAt(frames[1])' /\ RejectedAt(frames[1])'
    BY <2>4, <1>5 DEF FulfilledAt, RejectedAt
  <2>6. NewCalls(1)
    <3>1. \A j \in 1 .. 1 : j = 1
      OBVIOUS
    <3>2. frames'[1].fn = "asyncModuleFulfilled" /\ \A k \in 2 .. Len(frames) : ~ SameLoop(frames'[1], frames[k])
      BY <2>4, <1>5
    <3> QED
      BY ONLY <3>1, <3>2, <2>5 DEF NewCalls
  <2>7. PICK n : n = 1
    OBVIOUS
  <2>8. n \in {0, 1, 2} /\ Below(n) /\ NewCalls(n)
    BY <2>4, <2>6, <2>7
  <2>9. NewReports(n)
    BY <2>8, <1>1, <1>4, <1>c, SameReports
  <2>10. Calling'
    BY <2>8, <2>9, <1>3, <1>c, <1>w, CallingMoves
  <2> QED
    BY <2>10, BodyStartedWaits
<1>7. ASSUME NEW g, running'[q] = 0, frames' = <<g>> \o rest,
             \/ q \in done' /\ g = Frame("asyncModuleFulfilled", q, 0)
             \/ q \notin done' /\ g = Frame("asyncModuleRejected", q, 0)
      PROVE  Waits' /\ ImportsWait'
  <2>1. frames' = <<g>> \o (<<f>> \o Tail(frames))
    BY <1>7, <1>f
  <2>2. /\ g \in AsyncFrames /\ g.i = 0 /\ g.m = q
        /\ \/ q \in done' /\ g.fn = "asyncModuleFulfilled"
           \/ q \notin done' /\ g.fn = "asyncModuleRejected"
    <3>1. 0 \in Nat
      OBVIOUS
    <3> QED
      BY ONLY <3>1, <1>7, <1>c DEF Frame, AsyncFrames, FrameSet
  <2>3. frames' \in Seq(AsyncFrames) /\ Below(2) /\ frames'[1] = g /\ frames'[2] = f
    BY <2>1, <2>2, <1>5, <1>c, TwoCalls
  <2>4. FulfilledAt(g)' /\ RejectedAt(g)'
    BY <2>2, <1>7 DEF FulfilledAt, RejectedAt
  <2>5. FulfilledAt(frames[1])' /\ RejectedAt(frames[1])' /\ FulfilledAt(frames[2])' /\ RejectedAt(frames[2])'
    BY <2>3, <2>4, <1>5 DEF FulfilledAt, RejectedAt
  <2>6. PICK n : n = 2
    OBVIOUS
  <2>7. n \in {0, 1, 2} /\ Below(n) /\ \A j \in 1 .. n : j = 1 \/ j = 2
    BY <2>3, <2>6
  <2>8. NewCalls(n)
    BY <2>2, <2>3, <2>5, <2>6, <2>7, <1>5 DEF NewCalls
  <2>9. NewReports(n)
    BY <2>7, <1>1, <1>4, <1>c, SameReports
  <2>10. Calling'
    BY <2>7, <2>8, <2>9, <1>3, <1>c, <1>w, CallingMoves
  <2> QED
    BY <2>10, BodyStartedWaits
<1> QED
  BY <1>6, <1>7

LEMMA FulfilledParentWaits ==
  ASSUME ModulesInv, RootsAgree, Waits, ImportsWait, FulfilledParent
  PROVE  Waits' /\ ImportsWait'
<1>1. PICK m, i, q, data, rest :
        /\ m = Top.m /\ i = Top.i /\ q = md[m].asyncParentModules[i]
        /\ data = [md EXCEPT ![q].pendingAsyncDependencies = @ - 1]
        /\ rest = <<Frame(Top.fn, m, i + 1)>> \o Tail(frames)
  OBVIOUS
<1>2. In("asyncModuleFulfilled") /\ i \in 1 .. Len(md[m].asyncParentModules)
  BY <1>1 DEF FulfilledParent
<1>3. ParentNow(m, i, q)
  BY <1>1, <1>2, ParentKnown
<1>4. /\ md \in [Module -> Records] /\ q \in Module /\ runs[q] = 0 /\ running[q] = 0 /\ q \notin done
      /\ (~ md[q].error => q \in Rooted)
  BY <1>3 DEF ParentNow, CallsNow
<1>5. CountedDown(q, data)
  BY <1>1, <1>4, CountDown
<1>6. data[q].error = md[q].error /\ data[q].cycleRoot = md[q].cycleRoot /\ data \in [Module -> Records]
  BY <1>4, <1>5 DEF CountedDown, SameModule
<1>u. UNCHANGED <<requests, call, jobs, imports, deps, escaped>>
  BY DEF FulfilledParent, env, scenario
<1>h. runs \in [Module -> Nat] /\ running \in [Module -> Nat]
  BY DEF Waits, Bookkeeping, HistoryTypes
<1>7. \/ /\ ~ ReadyToRun(data, q) /\ md' = data /\ frames' = rest /\ UNCHANGED <<running, runs, done>>
      \/ ReadyToRun(data, q) /\ data[q].cycleRoot = None
      \/ md' = data /\ frames' = Tail(frames) /\ UNCHANGED <<running, runs, done>>
      \/ /\ ReadyToRun(data, q) /\ runs' = [runs EXCEPT ![q] = @ + 1]
         /\ \/ /\ md' = [data EXCEPT ![q].asyncEvaluating = TRUE]
               /\ running' = [running EXCEPT ![q] = @ + 1]
               /\ frames' = rest /\ UNCHANGED done
            \/ /\ md' = data /\ UNCHANGED running
               /\ \E fails \in {FALSE, BodiesThrow} :
                     /\ frames' = <<Frame(IF fails THEN "asyncModuleRejected"
                                                   ELSE "asyncModuleFulfilled", q, 0)>> \o rest
                     /\ done' = IF fails THEN done ELSE done \union {q}
  BY <1>1, Zenon DEF FulfilledParent
<1>8. PICK f : f = Frame(Top.fn, m, i + 1)
  OBVIOUS
<1>9. frames \in Seq(AsyncFrames) /\ frames # << >> /\ f \in AsyncFrames
  <2>1. /\ frames \in Seq(AsyncFrames) /\ frames # << >> /\ Top = frames[1] /\ m \in Module
        /\ frames[1].fn = "asyncModuleFulfilled" /\ i \in Nat
    BY <1>3 DEF ParentNow, CallsNow
  <2> QED
    BY <2>1, <1>8 DEF Frame, AsyncFrames, FrameSet
<1>10. CASE md' = data /\ UNCHANGED <<running, runs, done>> /\ (frames' = rest \/ frames' = Tail(frames))
  <2>1. frames' \in Seq(AsyncFrames)
    BY <1>1, <1>8, <1>9, <1>10, OneCall, NoneMore
  <2>2. OnlyParent(q)
    BY <2>1, <1>5, <1>10, <1>u DEF OnlyParent, CountedDown
  <2> QED
    BY <2>2, <1>1, <1>3, <1>10, ParentPassed
<1>11. ReadyToRun(data, q) => ~ md[q].error /\ data[q].cycleRoot # None
  BY <1>4, <1>6 DEF ReadyToRun, Rooted
<1>12. ASSUME runs' = [runs EXCEPT ![q] = @ + 1]
       PROVE  runs' \in [Module -> Nat] /\ runs'[q] = 1 /\ \A x \in Module : x # q => runs'[x] = runs[x]
  BY <1>12, <1>4, <1>h
<1>13. CASE /\ ReadyToRun(data, q) /\ runs' = [runs EXCEPT ![q] = @ + 1]
            /\ md' = [data EXCEPT ![q].asyncEvaluating = TRUE]
            /\ running' = [running EXCEPT ![q] = @ + 1]
            /\ frames' = rest /\ UNCHANGED done
  <2>1. frames' \in Seq(AsyncFrames)
    BY <1>1, <1>8, <1>9, <1>13, OneCall
  <2>2. running' \in [Module -> Nat] /\ running'[q] = 1 /\ \A x \in Module : x # q => running'[x] = running[x]
    BY <1>13, <1>4, <1>h
  <2>3. PICK d, e, yes : d = data[q] /\ yes = TRUE /\ e = [d EXCEPT !.asyncEvaluating = yes]
    OBVIOUS
  <2>4. d \in Records /\ yes \in BOOLEAN
    <3>1. yes \in BOOLEAN
      BY <2>3, Zenon
    <3> QED
      BY <3>1, <2>3, <1>4, <1>6
  <2>5. SameModule(e, d) /\ SameImport(e, d) /\ e.error = d.error /\ e.asyncEvaluating = yes
    BY ONLY <2>3, <2>4 DEF Records, SameModule, SameImport
  <2>6. md'[q] = e /\ \A x \in Module : x # q => md'[x] = data[x]
    BY <2>3, <1>4, <1>6, <1>13
  <2>7. SameModule(md'[q], md[q]) /\ SameImport(md'[q], md[q]) /\ md'[q].error = md[q].error
    BY <2>3, <2>5, <2>6, <1>4, <1>5 DEF CountedDown, SameModule, SameImport
  <2>8. md'[q].asyncEvaluating <=> md[q].asyncEvaluating
    <3>1. md[q].asyncEvaluating
      BY <1>3, <1>11, <1>13 DEF ParentNow
    <3>2. md'[q].asyncEvaluating
      BY <2>3, <2>5, <2>6
    <3> QED
      BY <3>1, <3>2
  <2>9. OnlyParent(q)
    <3>1. \A x \in Module : /\ x # q => md'[x] = md[x]
                            /\ SameModule(md'[x], md[x]) /\ SameImport(md'[x], md[x]) /\ md'[x].error = md[x].error
                            /\ md'[x].asyncEvaluating <=> md[x].asyncEvaluating
      <4> SUFFICES ASSUME NEW x \in Module
                   PROVE  /\ x # q => md'[x] = md[x]
                          /\ SameModule(md'[x], md[x]) /\ SameImport(md'[x], md[x]) /\ md'[x].error = md[x].error
                          /\ md'[x].asyncEvaluating <=> md[x].asyncEvaluating
        OBVIOUS
      <4>1. CASE x = q
        BY <4>1, <2>7, <2>8
      <4>2. CASE x # q
        BY <4>2, <2>6, <1>5 DEF CountedDown
      <4> QED
        BY <4>1, <4>2
    <3> QED
      BY <3>1, <2>1, <2>2, <1>12, <1>13, <1>u DEF OnlyParent
  <2>10. BodyStarted(q)
    BY <2>2, <1>4, <1>12, <1>13 DEF BodyStarted
  <2> QED
    BY <2>9, <2>10, <1>1, <1>3, <1>11, <1>13, ParentStarted
<1>14. ASSUME ReadyToRun(data, q), runs' = [runs EXCEPT ![q] = @ + 1], md' = data, UNCHANGED running,
              NEW fails \in {FALSE, BodiesThrow},
              frames' = <<Frame(IF fails THEN "asyncModuleRejected" ELSE "asyncModuleFulfilled", q, 0)>> \o rest,
              done' = IF fails THEN done ELSE done \union {q}
       PROVE  Waits' /\ ImportsWait'
  <2>b. fails \in BOOLEAN
    BY ModulesAssumption, Zenon
  <2>1. PICK g : g = Frame(IF fails THEN "asyncModuleRejected" ELSE "asyncModuleFulfilled", q, 0)
    OBVIOUS
  <2>2. \/ q \in done' /\ g = Frame("asyncModuleFulfilled", q, 0)
        \/ q \notin done' /\ g = Frame("asyncModuleRejected", q, 0)
    BY <2>b, <2>1, <1>4, <1>14
  <2>3. g \in AsyncFrames
    <3>1. 0 \in Nat
      OBVIOUS
    <3> QED
      BY ONLY <3>1, <2>2, <1>4 DEF Frame, AsyncFrames, FrameSet
  <2>4. frames' = <<g>> \o (<<f>> \o Tail(frames))
    BY <2>1, <1>1, <1>8, <1>14
  <2>5. frames' \in Seq(AsyncFrames)
    BY <2>3, <2>4, <1>9, TwoCalls
  <2>6. done \subseteq done' /\ done' \subseteq done \union {q}
    BY <1>14
  <2>7. OnlyParent(q)
    BY <2>5, <2>6, <1>5, <1>12, <1>14, <1>u DEF OnlyParent, CountedDown
  <2>8. BodyStarted(q)
    BY <1>4, <1>h, <1>12, <1>14 DEF BodyStarted
  <2>9. /\ running'[q] = 0
        /\ \/ q \in done' /\ frames' = <<Frame("asyncModuleFulfilled", q, 0)>> \o rest
           \/ q \notin done' /\ frames' = <<Frame("asyncModuleRejected", q, 0)>> \o rest
    BY <2>1, <2>2, <1>4, <1>14
  <2> QED
    BY <2>7, <2>8, <2>9, <1>1, <1>3, <1>11, <1>14, ParentStarted
<1> QED
  BY <1>7, <1>10, <1>11, <1>13, <1>14

-----------------------------------------------------------------------------
(* The results: what waits for what                                         *)

LEMMA InitWaits ==
  ASSUME Init
  PROVE  Waits /\ ImportsWait
<1>m. ModulesInv
  BY InitModules
<1>t. Types
  BY <1>m DEF ModulesInv
<1>0. /\ md = [m \in Module |-> ModuleData(kind[m], m)]
      /\ frames = << >> /\ call = NoCall /\ jobs = << >> /\ imports = << >>
      /\ running = [m \in Module |-> 0] /\ runs = [m \in Module |-> 0] /\ done = {} /\ deps = [m \in Module |-> 0]
  BY DEF Init
<1>1. \A m \in Module : /\ runs[m] = 0 /\ deps[m] = 0 /\ running[m] = 0
  BY <1>0
<1>2. \A m \in Module : /\ md[m].status \in {"Unlinked", "Linked"} /\ ~ md[m].error /\ ~ md[m].asyncEvaluating
                        /\ md[m].pendingAsyncDependencies = 0 /\ md[m].asyncParentModules = << >>
                        /\ md[m].topLevelCapability = "none" /\ md[m].asyncPendingPromises = << >>
  BY <1>0 DEF ModuleData
<1>3. \A k \in 1 .. Len(frames) : FALSE
  BY <1>0
<1>4. \A x \in Module : \A k \in 1 .. Len(Parents(x)) : FALSE
  BY <1>2 DEF Parents
<1>5. HistoryTypes
  BY <1>0 DEF HistoryTypes
<1>6. Fresh /\ Registered /\ Waiting
  BY <1>1, <1>2, <1>4 DEF Fresh, Registered, Waiting, Parents
<1>7. Bodies
  BY <1>0, <1>1 DEF Bodies
<1>8. Calling
  BY <1>2, <1>3 DEF Calling, Fulfilling, Rejecting, Reported
<1>9. HasStatus({"Evaluating"}) = {} /\ Rooted = {}
  BY <1>2 DEF HasStatus, Rooted
<1>10. WalkWaits
  <2>1. \A x \in Module : ~ Executing(x)
    BY <1>3 DEF Executing
  <2> QED
    BY <2>1, <1>9 DEF WalkWaits, Walked, TreeWalk, RequestsWalk
<1>11. Findings
  BY <1>1, <1>9 DEF Findings, Outcomes, Found, Starts
<1>12. ImportsWait
  <2>1. \A x \in Module : ToSet(md[x].asyncPendingPromises) = {}
    BY <1>2 DEF ToSet
  <2>2. (\A i \in 1 .. Len(jobs) : FALSE) /\ (\A i \in 1 .. Len(imports) : FALSE) /\ call.op # "import"
    BY <1>0 DEF NoCall
  <2> QED
    BY <2>1, <2>2, <1>2 DEF ImportsWait
<1> QED
  BY <1>5, <1>6, <1>7, <1>8, <1>10, <1>11, <1>12 DEF Waits, Bookkeeping

LEMMA NextWaits ==
  ASSUME ModulesInv, RootsAgree, Waits, ImportsWait, Loadable, OneDependencyEach',
         Rerooted = {}, Rerooted' = {}, Next
  PROVE  Waits' /\ ImportsWait'
<1>1. ASSUME NEW m \in Module, Import(m) \/ BodyEnds(m) PROVE Waits' /\ ImportsWait'
  BY <1>1, ImportWaits, BodyEndsWaits
<1>2. ASSUME NEW op \in HostCalls, NEW m \in Module, HostCall(op, m) \/ HostCallDies(op, m)
      PROVE  Waits' /\ ImportsWait'
  BY <1>2, HostCallWaits, HostCallDiesWaits
<1>3. CASE Job
  BY <1>3, ImportRejectedWaits, ImportResolvedWaits, BodyJobWaits DEF Job
<1>4. CASE Walk
  <2>1. CASE LinkCall \/ LinkRequest \/ LinkEnd
    BY <2>1, LinkCallWaits, LinkRequestWaits, LinkEndWaits
  <2>2. CASE EvaluateCall \/ EvaluateReturns \/ EvaluateRequest
    BY <2>2, EvaluateCallWaits, EvaluateReturnsWaits, EvaluateRequestWaits
  <2>3. CASE EvaluateSynthetic \/ EvaluateDeferred \/ EvaluateAsync \/ EvaluateSync
    BY <2>3, EvaluateSyntheticWaits, EvaluateAsyncWaits, EvaluateSyncWaits
  <2>4. CASE FulfilledBegin \/ FulfilledParent \/ FulfilledEnd
    BY <2>4, FulfilledBeginWaits, FulfilledParentWaits, FulfilledEndWaits
  <2>5. CASE RejectedBegin \/ RejectedParent \/ RejectedEnd
    BY <2>5, RejectedBeginWaits, RejectedParentWaits, RejectedEndWaits
  <2> QED
    BY <2>1, <2>2, <2>3, <2>4, <2>5, <1>4 DEF Walk
<1> QED
  BY <1>1, <1>2, <1>3, <1>4 DEF Next

\* The roots that a step leaves alone.
RootsSame == \A x \in Module : md'[x].cycleRoot = md[x].cycleRoot

LEMMA OneKeepsRoots ==
  ASSUME md \in [Module -> Records], NEW m, NEW e, md' = [md EXCEPT ![m] = e],
         m \in Module => e.cycleRoot = md[m].cycleRoot
  PROVE  RootsSame
  BY DEF RootsSame

LEMMA EnterKeepsRoots ==
  ASSUME md \in [Module -> Records], NEW f, NEW m, NEW st, Enter(f, m, st)
  PROVE  RootsSame
<1>1. PICK e : e = [md[m] EXCEPT !.status = st, !.dfsIndex = index, !.dfsAncestorIndex = index]
  OBVIOUS
<1>2. md' = [md EXCEPT ![m] = e]
  BY <1>1 DEF Enter
<1>3. m \in Module => e.cycleRoot = md[m].cycleRoot
  BY <1>1 DEF Records
<1> QED
  BY <1>2, <1>3, OneKeepsRoots

LEMMA ReturnKeepsRoots ==
  ASSUME NEW data \in [Module -> Records], NEW m, NEW p, ImportReturns(m, p, data) \/ md' = data
  PROVE  \A x \in Module : md'[x].cycleRoot = data[x].cycleRoot
<1>1. CASE md' = data
  BY <1>1
<1>2. CASE md' = [data EXCEPT ![m].asyncPendingPromises = Append(@, p)]
  <2>1. PICK e : e = [data[m] EXCEPT !.asyncPendingPromises = Append(@, p)]
    OBVIOUS
  <2>2. md' = [data EXCEPT ![m] = e]
    BY <2>1, <1>2
  <2>3. m \in Module => e.cycleRoot = data[m].cycleRoot
    BY <2>1 DEF Records
  <2> QED
    BY <2>2, <2>3
<1> QED
  BY <1>1, <1>2 DEF ImportReturns

LEMMA FailKeepsRoots ==
  ASSUME md \in [Module -> Records], FailWalk
  PROVE  RootsSame
<1>1. md' = [m \in Module |->
        [md[m] EXCEPT !.status = IF m \in ToSet(stack) THEN "Evaluated" ELSE @,
                      !.error = @ \/ m \in ToSet(stack),
                      !.topLevelCapability = IF m = call.m THEN "rejected" ELSE @]]
  BY DEF FailWalk, CallThrows
<1>2. ASSUME NEW x \in Module PROVE md'[x].cycleRoot = md[x].cycleRoot
  <2>1. PICK e, s, b, c : e = md[x] /\ md'[x] = [e EXCEPT !.status = s, !.error = b, !.topLevelCapability = c]
    BY <1>1
  <2> QED
    BY <2>1 DEF Records
<1> QED
  BY <1>2 DEF RootsSame

\* A cycle that is popped is not an evaluated one.
LEMMA PopKeepsRoots ==
  ASSUME ModulesInv, AtEvaluateEnd, NEW data \in [Module -> Records],
         \A x \in Module : data[x].cycleRoot = md[x].cycleRoot, PopCycle(Top.m, data)
  PROVE  \A x \in Module : md[x].status = "Evaluated" =>
            found'[x] = found[x] /\ md'[x].cycleRoot = md[x].cycleRoot
<1>t. Types /\ In("innerModuleEvaluation")
  BY DEF ModulesInv, AtEvaluateEnd
<1>s. InEvaluation /\ Len(frames) > 1
  BY <1>t, StageOf DEF ModulesInv
<1>w. PICK out : Walking("moduleEvaluation", "innerModuleEvaluation", "Evaluating", out)
  BY <1>s DEF InEvaluation
<1>m. PICK m : m = Top.m
  OBVIOUS
<1>1. Top = frames[1] /\ m \in Module
  BY <1>w, <1>s, <1>t, <1>m, InnerCall
<1>2. Len(requests[m]) < frames[1].i
  <2>1. Top.i > Len(requests[Top.m]) /\ Top.i \in Nat /\ Len(requests[Top.m]) \in Nat
    BY <1>w, <1>s, <1>t, InnerCall DEF AtEvaluateEnd
  <2> QED
    BY <2>1, <1>1, <1>m
<1>3. CASE ~ IsCycleRoot(m)
  BY <1>3, <1>m DEF PopCycle
<1>4. CASE IsCycleRoot(m)
  <2>1. ToSet(Popped(m)) \subseteq ToSet(stack)
    BY <1>4, <1>1, <1>2, <1>m, <1>s, <1>t, <1>w, PoppedIsCycle DEF IsCycleRoot
  <2>2. \A x \in Module : md[x].status = "Evaluated" => x \notin ToSet(Popped(m))
    BY <2>1, <1>w DEF Walking, HasStatus
  <2>3. /\ md' = [x \in Module |-> IF x \in ToSet(Popped(m))
                    THEN [data[x] EXCEPT !.status = "Evaluated", !.cycleRoot = m] ELSE data[x]]
        /\ found' = [x \in Module |-> IF x \in ToSet(Popped(m)) THEN m ELSE found[x]]
    BY <1>4, <1>m DEF PopCycle
  <2> QED
    BY <2>2, <2>3
<1> QED
  BY <1>3, <1>4

\* A root that moduleEvaluate has overwritten stays: only evaluated modules have one, and
\* no walk enters them again.
RootMoves ==
    \A x \in Module : md[x].status = "Evaluated" =>
        found'[x] = found[x] /\ md'[x].cycleRoot \in {md[x].cycleRoot, x}

LEMMA LinkMovesRoots ==
  ASSUME ModulesInv, LinkCall \/ LinkRequest \/ LinkEnd
  PROVE  RootMoves
<1>y. md \in [Module -> Records]
  BY DEF ModulesInv, Types
<1>f. found' = found
  BY DEF LinkCall, LinkRequest, LinkEnd, history
<1>1. CASE LinkCall
  <2>1. \/ Enter("innerModuleLinking", Top.m, "Linking")
        \/ CallReturns(md)
        \/ md' = md
    BY <1>1 DEF LinkCall
  <2>2. CallReturns(md) => ImportReturns(call.m, call.p, md) \/ md' = md
    BY DEF CallReturns
  <2>3. RootsSame
    BY <2>1, <2>2, <1>y, EnterKeepsRoots, ReturnKeepsRoots DEF RootsSame
  <2> QED
    BY <2>3, <1>f DEF RootMoves, RootsSame
<1>2. CASE LinkRequest
  <2>1. PICK m, r : m = Top.m /\ r = requests[m][Top.i]
    OBVIOUS
  <2>2. \/ md' = md
        \/ Enter("innerModuleLinking", r, "Linking")
        \/ md' = [md EXCEPT ![m].dfsAncestorIndex = md[r].dfsAncestorIndex]
    BY <2>1, <1>2 DEF LinkRequest, CallThrows
  <2>3. CASE md' = [md EXCEPT ![m].dfsAncestorIndex = md[r].dfsAncestorIndex]
    <3>1. PICK e : e = [md[m] EXCEPT !.dfsAncestorIndex = md[r].dfsAncestorIndex]
      OBVIOUS
    <3>2. md' = [md EXCEPT ![m] = e] /\ (m \in Module => e.cycleRoot = md[m].cycleRoot)
      BY <3>1, <2>3, <1>y DEF Records
    <3>3. RootsSame
      BY <3>2, <1>y, OneKeepsRoots
    <3> QED
      BY <3>3, <1>f DEF RootMoves, RootsSame
  <2>4. CASE md' = md \/ Enter("innerModuleLinking", r, "Linking")
    <3>1. RootsSame
      BY <2>4, <1>y, EnterKeepsRoots DEF RootsSame
    <3> QED
      BY <3>1, <1>f DEF RootMoves, RootsSame
  <2> QED
    BY <2>2, <2>3, <2>4
<1>3. CASE LinkEnd
  <2>1. PICK m, made : m = Top.m /\ made = [md EXCEPT ![m].record = TRUE]
    OBVIOUS
  <2>2. made \in [Module -> Records] /\ \A x \in Module : made[x].cycleRoot = md[x].cycleRoot
    <3>1. PICK e : e = [md[m] EXCEPT !.record = TRUE]
      OBVIOUS
    <3>2. TRUE \in BOOLEAN
      BY Zenon
    <3>3. m \in Module => e \in Records /\ e.cycleRoot = md[m].cycleRoot
      BY <3>1, <3>2, <1>y DEF Records
    <3>4. made = [md EXCEPT ![m] = e]
      BY <3>1, <2>1
    <3> QED
      BY <3>3, <3>4, <1>y
  <2>3. \/ md' = Unlink(md) \/ md' = md \/ md' = made
        \/ md' = [x \in Module |-> IF x \in ToSet(Popped(m)) THEN [made[x] EXCEPT !.status = "Linked"] ELSE made[x]]
    BY <2>1, <1>3 DEF LinkEnd, CallThrows
  <2>4. CASE md' = Unlink(md)
    <3>1. ASSUME NEW x \in Module PROVE md'[x].cycleRoot = md[x].cycleRoot
      <4>1. PICK e : e = md[x]
        OBVIOUS
      <4>2. e \in Records /\ (\/ md'[x] = e
                              \/ md'[x] = [e EXCEPT !.status = "Unlinked", !.record = FALSE,
                                                    !.dfsIndex = 0, !.dfsAncestorIndex = 0])
        BY <4>1, <2>4, <1>y DEF Unlink
      <4>3. md'[x].cycleRoot = e.cycleRoot
        BY ONLY <4>2 DEF Records
      <4> QED
        BY <4>1, <4>3
    <3> QED
      BY <3>1, <1>f DEF RootMoves
  <2>5. CASE md' = md \/ md' = made
    BY <2>5, <2>2, <1>f DEF RootMoves
  <2>6. CASE md' = [x \in Module |-> IF x \in ToSet(Popped(m)) THEN [made[x] EXCEPT !.status = "Linked"] ELSE made[x]]
    <3>1. ASSUME NEW x \in Module PROVE md'[x].cycleRoot = made[x].cycleRoot
      <4>1. PICK e : e = made[x]
        OBVIOUS
      <4>2. e \in Records /\ (md'[x] = e \/ md'[x] = [e EXCEPT !.status = "Linked"])
        BY <4>1, <2>2, <2>6
      <4>3. md'[x].cycleRoot = e.cycleRoot
        BY ONLY <4>2 DEF Records
      <4> QED
        BY <4>1, <4>3
    <3> QED
      BY <3>1, <2>2, <1>f DEF RootMoves
  <2> QED
    BY <2>3, <2>4, <2>5, <2>6
<1> QED
  BY <1>1, <1>2, <1>3

LEMMA EvaluateMovesRoots ==
  ASSUME ModulesInv, EvaluateCall \/ EvaluateReturns \/ EvaluateRequest
  PROVE  RootMoves
<1>y. md \in [Module -> Records]
  BY DEF ModulesInv, Types
<1>f. found' = found
  BY Zenon DEF EvaluateCall, EvaluateReturns, EvaluateRequest, history
<1>s. RootsSame => RootMoves
  BY <1>f DEF RootsSame, RootMoves
<1>1. CASE EvaluateCall
  BY <1>1, <1>f, EvaluateCallRoots DEF RootMoves
<1>2. CASE EvaluateReturns
  <2>1. PICK m, data : m = Top.m /\ data = IF md[m].asyncEvaluating THEN md ELSE [md EXCEPT ![m].topLevelCapability = "resolved"]
    OBVIOUS
  <2>2. Enter("innerModuleEvaluation", m, "Evaluating") \/ FailWalk \/ CallReturns(data)
    BY <2>1, <1>2 DEF EvaluateReturns
  <2>3. CASE CallReturns(data)
    <3>1. data \in [Module -> Records] /\ \A x \in Module : data[x].cycleRoot = md[x].cycleRoot
      <4>1. PICK e : e = [md[m] EXCEPT !.topLevelCapability = "resolved"]
        OBVIOUS
      <4>2. m \in Module => e \in Records /\ e.cycleRoot = md[m].cycleRoot
        BY <4>1, <1>y DEF Records
      <4>3. data = md \/ data = [md EXCEPT ![m] = e]
        BY <4>1, <2>1
      <4> QED
        BY <4>2, <4>3, <1>y
    <3>2. ImportReturns(call.m, call.p, data) \/ md' = data
      BY <2>3 DEF CallReturns
    <3>3. RootsSame
      BY <3>1, <3>2, ReturnKeepsRoots DEF RootsSame
    <3> QED
      BY <3>3, <1>s
  <2> QED
    BY <2>2, <2>3, <1>s, <1>y, EnterKeepsRoots, FailKeepsRoots
<1>3. CASE EvaluateRequest
  <2>1. PICK m, r, q : m = Top.m /\ r = requests[m][Top.i] /\ q = StandsFor(r)
    OBVIOUS
  <2>2. PICK anc : anc = IF q = r /\ md[r].status = "Evaluating" /\ md[r].dfsAncestorIndex < md[m].dfsAncestorIndex
                         THEN md[r].dfsAncestorIndex ELSE md[m].dfsAncestorIndex
    OBVIOUS
  <2>3. \/ CallThrows(md) \/ Enter("innerModuleEvaluation", r, "Evaluating") \/ FailWalk
        \/ md' = [md EXCEPT ![m].dfsAncestorIndex = anc,
                            ![m].pendingAsyncDependencies = @ + IF md[q].asyncEvaluating THEN 1 ELSE 0,
                            ![q].asyncParentModules = IF md[q].asyncEvaluating THEN Append(@, m) ELSE @]
    BY <2>1, <2>2, <1>3, Zenon DEF EvaluateRequest
  <2>4. CASE CallThrows(md)
    BY <2>4, <1>s DEF CallThrows, RootsSame
  <2>5. CASE md' = [md EXCEPT ![m].dfsAncestorIndex = anc,
                              ![m].pendingAsyncDependencies = @ + IF md[q].asyncEvaluating THEN 1 ELSE 0,
                              ![q].asyncParentModules = IF md[q].asyncEvaluating THEN Append(@, m) ELSE @]
    <3>1. PICK e, one : /\ e = [md[m] EXCEPT !.dfsAncestorIndex = anc,
                                             !.pendingAsyncDependencies = @ + IF md[q].asyncEvaluating THEN 1 ELSE 0]
                        /\ one = [md EXCEPT ![m] = e]
      OBVIOUS
    <3>2. PICK d : d = [one[q] EXCEPT !.asyncParentModules = IF md[q].asyncEvaluating THEN Append(@, m) ELSE @]
      OBVIOUS
    <3>3. md' = [one EXCEPT ![q] = d]
      BY <2>5, <3>1, <3>2
    <3>4. ASSUME NEW b, "cycleRoot" \in DOMAIN b, NEW u, NEW v, NEW w
          PROVE  /\ [b EXCEPT !.dfsAncestorIndex = u, !.pendingAsyncDependencies = v].cycleRoot = b.cycleRoot
                 /\ "cycleRoot" \in DOMAIN [b EXCEPT !.dfsAncestorIndex = u, !.pendingAsyncDependencies = v]
                 /\ [b EXCEPT !.asyncParentModules = w].cycleRoot = b.cycleRoot
      BY <3>4
    <3>5. \A x \in Module : "cycleRoot" \in DOMAIN md[x]
      BY <1>y DEF Records
    <3>6. m \in Module => e.cycleRoot = md[m].cycleRoot /\ "cycleRoot" \in DOMAIN e
      BY <3>1, <3>4, <3>5
    <3>7. \A x \in Module : one[x].cycleRoot = md[x].cycleRoot /\ "cycleRoot" \in DOMAIN one[x]
      BY <3>1, <3>5, <3>6, <1>y
    <3>8. q \in Module => d.cycleRoot = one[q].cycleRoot
      BY <3>2, <3>4, <3>7
    <3>9. DOMAIN one = Module
      BY <3>1, <1>y
    <3> QED
      BY <3>3, <3>7, <3>8, <3>9, <1>s DEF RootsSame
  <2> QED
    BY <2>3, <2>4, <2>5, <1>s, <1>y, EnterKeepsRoots, FailKeepsRoots
<1> QED
  BY <1>1, <1>2, <1>3

LEMMA EndMovesRoots ==
  ASSUME ModulesInv, EvaluateSynthetic \/ EvaluateDeferred \/ EvaluateAsync \/ EvaluateSync
  PROVE  RootMoves
<1>y. md \in [Module -> Records]
  BY DEF ModulesInv, Types
<1>e. AtEvaluateEnd
  BY DEF EvaluateSynthetic, EvaluateDeferred, EvaluateAsync, EvaluateSync
<1>m. PICK m : m = Top.m
  OBVIOUS
<1>0. m \in Module
  BY <1>e, <1>m, TopIsFirst DEF AtEvaluateEnd, In, ModulesInv, Types
<1>p. ASSUME NEW data, PopCycle(m, data), data \in [Module -> Records],
             \A x \in Module : data[x].cycleRoot = md[x].cycleRoot
      PROVE  RootMoves
  BY <1>p, <1>e, <1>m, PopKeepsRoots DEF RootMoves
<1>r. md[m] \in Records
  BY <1>0, <1>y
<1>1. CASE EvaluateSynthetic
  <2>1. PICK fails \in {FALSE, BodiesThrow} : PopCycle(m, [md EXCEPT ![m].error = @ \/ fails])
    BY <1>1, <1>m DEF EvaluateSynthetic
  <2>2. PICK b, e, data : /\ b = (md[m].error \/ fails) /\ e = md[m]
                          /\ data = [md EXCEPT ![m].error = @ \/ fails]
    OBVIOUS
  <2>3. b \in BOOLEAN
    BY <2>2, Zenon
  <2>4. PICK d : d = [e EXCEPT !.error = b]
    OBVIOUS
  <2>5. e \in Records
    BY <2>2, <1>r
  <2>6. d \in Records /\ d.cycleRoot = e.cycleRoot
    BY ONLY <2>3, <2>4, <2>5 DEF Records
  <2>7. data = [md EXCEPT ![m] = d]
    BY <2>2, <2>4
  <2>8. data \in [Module -> Records] /\ \A x \in Module : data[x].cycleRoot = md[x].cycleRoot
    BY <2>2, <2>6, <2>7, <1>0, <1>y
  <2> QED
    BY <2>1, <2>2, <2>8, <1>p
<1>2. CASE EvaluateDeferred \/ EvaluateAsync
  <2>1. PopCycle(m, [md EXCEPT ![m].asyncEvaluating = TRUE])
    BY <1>2, <1>m DEF EvaluateDeferred, EvaluateAsync
  <2>2. PICK e, d, data : /\ e = md[m] /\ d = [e EXCEPT !.asyncEvaluating = TRUE]
                          /\ data = [md EXCEPT ![m].asyncEvaluating = TRUE]
    OBVIOUS
  <2>3. TRUE \in BOOLEAN
    BY Zenon
  <2>4. e \in Records /\ d = [e EXCEPT !.asyncEvaluating = TRUE]
    BY <2>2, <1>r
  <2>5. d \in Records /\ d.cycleRoot = e.cycleRoot
    BY ONLY <2>3, <2>4 DEF Records
  <2>6. data = [md EXCEPT ![m] = d]
    BY <2>2
  <2>7. data \in [Module -> Records] /\ \A x \in Module : data[x].cycleRoot = md[x].cycleRoot
    BY <2>2, <2>5, <2>6, <1>0, <1>y
  <2> QED
    BY <2>1, <2>2, <2>7, <1>p
<1>3. CASE EvaluateSync
  <2>1. PopCycle(m, md) \/ (FailWalk /\ found' = found)
    BY <1>3, <1>m DEF EvaluateSync
  <2>2. CASE PopCycle(m, md)
    BY <2>2, <1>p, <1>y
  <2>3. CASE FailWalk /\ found' = found
    BY <2>3, <1>y, FailKeepsRoots DEF RootsSame, RootMoves
  <2> QED
    BY <2>1, <2>2, <2>3
<1> QED
  BY <1>1, <1>2, <1>3

LEMMA AsyncMovesRoots ==
  ASSUME ModulesInv, \/ FulfilledBegin \/ FulfilledParent \/ FulfilledEnd
                     \/ RejectedBegin \/ RejectedParent \/ RejectedEnd
  PROVE  RootMoves
<1>y. md \in [Module -> Records]
  BY DEF ModulesInv, Types
<1>f. found' = found
  BY Zenon DEF FulfilledBegin, FulfilledParent, FulfilledEnd, RejectedBegin, RejectedParent, RejectedEnd, history
<1>r. \A x \in Module : "cycleRoot" \in DOMAIN md[x]
  BY <1>y DEF Records
<1>s. RootsSame => RootMoves
  BY <1>f DEF RootsSame, RootMoves
<1>1. ASSUME NEW m, NEW e, md' = [md EXCEPT ![m] = e], m \in Module => e.cycleRoot = md[m].cycleRoot PROVE RootMoves
  BY <1>1, <1>s, <1>y, OneKeepsRoots
<1>2. ASSUME NEW b, "cycleRoot" \in DOMAIN b, NEW u, NEW v
      PROVE  /\ [b EXCEPT !.asyncEvaluating = u].cycleRoot = b.cycleRoot
             /\ [b EXCEPT !.error = v, !.asyncEvaluating = u].cycleRoot = b.cycleRoot
             /\ [b EXCEPT !.pendingAsyncDependencies = u].cycleRoot = b.cycleRoot
             /\ [b EXCEPT !.pendingAsyncDependencies = u, !.asyncEvaluating = v].cycleRoot = b.cycleRoot
             /\ [b EXCEPT !.asyncPendingPromises = u].cycleRoot = b.cycleRoot
             /\ [b EXCEPT !.asyncPendingPromises = u, !.topLevelCapability = v].cycleRoot = b.cycleRoot
  BY <1>2
<1>m. PICK m : m = Top.m
  OBVIOUS
<1>3. CASE md' = md
  BY <1>3, <1>s DEF RootsSame
<1>4. CASE FulfilledBegin
  <2>1. PICK e : e = [md[m] EXCEPT !.asyncEvaluating = FALSE]
    OBVIOUS
  <2>2. md' = md \/ md' = [md EXCEPT ![m] = e]
    BY <2>1, <1>4, <1>m DEF FulfilledBegin
  <2>3. m \in Module => e.cycleRoot = md[m].cycleRoot
    BY <2>1, <1>2, <1>r
  <2> QED
    BY <2>2, <2>3, <1>1, <1>3
<1>5. CASE RejectedBegin
  <2>1. PICK e : e = [md[m] EXCEPT !.error = TRUE, !.asyncEvaluating = FALSE]
    OBVIOUS
  <2>2. md' = md \/ md' = [md EXCEPT ![m] = e]
    BY <2>1, <1>5, <1>m DEF RejectedBegin
  <2>3. m \in Module => e.cycleRoot = md[m].cycleRoot
    BY <2>1, <1>2, <1>r
  <2> QED
    BY <2>2, <2>3, <1>1, <1>3
<1>6. CASE FulfilledEnd
  <2>1. PICK e : e = [md[m] EXCEPT !.asyncPendingPromises = << >>]
    OBVIOUS
  <2>2. md' = [md EXCEPT ![m] = e]
    BY <2>1, <1>6, <1>m DEF FulfilledEnd
  <2>3. m \in Module => e.cycleRoot = md[m].cycleRoot
    BY <2>1, <1>2, <1>r
  <2> QED
    BY <2>2, <2>3, <1>1
<1>7. CASE RejectedEnd
  <2>1. PICK c : c = IF md[m].topLevelCapability = "pending" THEN "rejected" ELSE md[m].topLevelCapability
    OBVIOUS
  <2>2. PICK e : e = [md[m] EXCEPT !.asyncPendingPromises = << >>, !.topLevelCapability = c]
    OBVIOUS
  <2>3. md' = [md EXCEPT ![m] = e]
    BY <2>1, <2>2, <1>7, <1>m, <1>y DEF RejectedEnd, Records
  <2> QED
    BY <2>2, <2>3, <1>1, <1>2, <1>r
<1>8. CASE FulfilledParent
  <2>1. PICK q, n : q = md[m].asyncParentModules[Top.i] /\ n = md[q].pendingAsyncDependencies - 1
    OBVIOUS
  <2>2. PICK e, d : /\ e = [md[q] EXCEPT !.pendingAsyncDependencies = n]
                    /\ d = [md[q] EXCEPT !.pendingAsyncDependencies = n, !.asyncEvaluating = TRUE]
    OBVIOUS
  <2>3. PICK data : data = [md EXCEPT ![q].pendingAsyncDependencies = @ - 1]
    OBVIOUS
  <2>4. md' = md \/ md' = data \/ md' = [data EXCEPT ![q].asyncEvaluating = TRUE]
    BY <2>1, <2>3, <1>8, <1>m, Zenon DEF FulfilledParent
  <2>5. data = [md EXCEPT ![q] = e]
    BY <2>1, <2>2, <2>3
  <2>6. [data EXCEPT ![q].asyncEvaluating = TRUE] = [md EXCEPT ![q] = d]
    BY <2>2, <2>5, <1>y
  <2> QED
    BY <2>2, <2>4, <2>5, <2>6, <1>1, <1>2, <1>3, <1>r
<1> QED
  BY <1>3, <1>4, <1>5, <1>6, <1>7, <1>8 DEF RejectedParent

LEMMA RerootedStays ==
  ASSUME ModulesInv, Next
  PROVE  Rerooted \subseteq Rerooted'
<1>1. RootMoves
  <2>1. CASE \/ \E m \in Module : Import(m) \/ BodyEnds(m)
             \/ \E op \in HostCalls, m \in Module : HostCall(op, m) \/ HostCallDies(op, m)
             \/ ImportRejected \/ BodyJob
    <3>1. md' = md /\ found' = found
      BY <2>1, Zenon DEF Import, BodyEnds, HostCall, HostCallDies, ImportRejected, BodyJob, history
    <3> QED
      BY <3>1 DEF RootMoves
  <2>2. CASE ImportResolved
    <3>1. (md' = md \/ ImportReturns(Head(jobs).m, Head(jobs).p, md)) /\ found' = found
      BY <2>2 DEF ImportResolved, history
    <3>2. md \in [Module -> Records]
      BY DEF ModulesInv, Types
    <3>3. \A x \in Module : md'[x].cycleRoot = md[x].cycleRoot
      BY <3>1, <3>2, ReturnKeepsRoots
    <3> QED
      BY <3>1, <3>3 DEF RootMoves
  <2>3. CASE Walk
    BY <2>3, LinkMovesRoots, EvaluateMovesRoots, EndMovesRoots, AsyncMovesRoots DEF Walk
  <2> QED
    BY <2>1, <2>2, <2>3 DEF Next, Job
<1>2. RootsKnown
  BY DEF ModulesInv, RootsFound
<1> QED
  BY <1>1, <1>2 DEF RootMoves, RootsKnown, Rerooted

\* While no root was overwritten, the roots are the ones that the walks found.
LEMMA RootsDoAgree ==
  ASSUME ModulesInv, Rerooted = {}
  PROVE  RootsAgree
<1>1. RootsFound
  BY DEF ModulesInv
<1>2. \A x \in Module : found[x] = md[x].cycleRoot
  BY DEF Rerooted
<1>3. Rooted = Complete
  BY <1>2 DEF Rooted, Complete, HasStatus
<1>4. Rooted \subseteq Module
  BY DEF Rooted, HasStatus
<1> QED
  BY <1>1, <1>2, <1>3, <1>4 DEF RootsFound, RootsAgree

\* A dependency that was registered stays registered.
CountedDeps == deps \in [Module -> Nat]

LEMMA DepsGrow ==
  ASSUME CountedDeps, [Next]_vars
  PROVE  CountedDeps' /\ (OneDependencyEach' => OneDependencyEach)
<1>1. \/ deps' = deps
      \/ \E m : \E n \in {0, 1} : deps' = [deps EXCEPT ![m] = @ + n]
  <2>1. CASE EvaluateRequest
    <3>1. deps' = deps \/ deps' = [deps EXCEPT ![Top.m] = @ + IF md[StandsFor(requests[Top.m][Top.i])].asyncEvaluating THEN 1 ELSE 0]
      BY <2>1, Zenon DEF EvaluateRequest
    <3>2. PICK m, n : m = Top.m /\ n = IF md[StandsFor(requests[Top.m][Top.i])].asyncEvaluating THEN 1 ELSE 0
      OBVIOUS
    <3>3. n \in {0, 1} /\ (deps' = deps \/ deps' = [deps EXCEPT ![m] = @ + n])
      BY <3>1, <3>2
    <3> QED
      BY <3>3
  <2>2. CASE UNCHANGED vars
    BY <2>2 DEF vars
  <2>3. CASE Next /\ ~ EvaluateRequest
    <3>1. deps' = deps
      BY <2>3, Zenon DEF Next, Job, Walk, Import, BodyEnds, HostCall, HostCallDies, ImportRejected, ImportResolved,
             BodyJob,              LinkCall, LinkRequest, LinkEnd, EvaluateCall, EvaluateReturns,
             EvaluateSynthetic, EvaluateDeferred, EvaluateAsync, EvaluateSync, history,
             FulfilledBegin, FulfilledParent, FulfilledEnd, RejectedBegin, RejectedParent, RejectedEnd
    <3> QED
      BY <3>1
  <2> QED
    BY <2>1, <2>2, <2>3
<1>2. CASE deps' = deps
  BY <1>2 DEF CountedDeps, OneDependencyEach
<1>3. ASSUME NEW m, NEW n \in {0, 1}, deps' = [deps EXCEPT ![m] = @ + n]
      PROVE  CountedDeps' /\ (OneDependencyEach' => OneDependencyEach)
  <2>1. deps' \in [Module -> Nat] /\ \A x \in Module : deps[x] <= deps'[x]
    <3>0. deps \in [Module -> Nat]
      BY DEF CountedDeps
    <3>1. CASE m \in Module
      <4>1. PICK c : c = deps[m] + n
        OBVIOUS
      <4>2. c \in Nat /\ deps[m] <= c /\ deps' = [deps EXCEPT ![m] = c]
        BY <3>0, <3>1, <4>1, <1>3
      <4>3. deps' \in [Module -> Nat] /\ deps'[m] = c /\ \A x \in Module : x # m => deps'[x] = deps[x]
        BY <3>0, <3>1, <4>2
      <4>4. \A x \in Module : deps[x] <= deps[x]
        BY <3>0
      <4> QED
        BY <4>2, <4>3, <4>4
    <3>2. CASE m \notin Module
      <4>1. deps' = deps
        BY <3>0, <3>2, <1>3
      <4> QED
        BY <3>0, <4>1
    <3> QED
      BY <3>1, <3>2
  <2>2. \A x \in Module : deps[x] \in Nat /\ deps'[x] \in Nat
    BY <2>1 DEF CountedDeps
  <2> QED
    BY <2>1, <2>2 DEF CountedDeps, OneDependencyEach
<1> QED
  BY <1>1, <1>2, <1>3

\* While no module waits for two async dependencies and no root was overwritten, what a
\* module waits for is registered with it, is told when it fails and is behind it when it
\* starts.
THEOREM EvaluationWaits ==
  Spec => [](Loadable => /\ ModulesInv
                         /\ OneDependencyEach /\ Rerooted = {} => EvaluationInv)
<1> DEFINE I == /\ CountedDeps
                /\ Loadable => ModulesInv
                /\ Loadable /\ OneDependencyEach /\ Rerooted = {} => Waits /\ ImportsWait
<1>1. Init => I
  <2> SUFFICES ASSUME Init PROVE I
    OBVIOUS
  <2>1. ModulesInv /\ Waits /\ ImportsWait
    BY InitModules, InitWaits
  <2>2. CountedDeps
    BY DEF CountedDeps, Init
  <2> QED
    BY <2>1, <2>2
<1>2. I /\ [Next]_vars => I'
  <2> SUFFICES ASSUME I, [Next]_vars PROVE I'
    OBVIOUS
  <2>1. CountedDeps' /\ (OneDependencyEach' => OneDependencyEach)
    BY DepsGrow
  <2>2. ASSUME Loadable' PROVE Loadable /\ ModulesInv /\ ModulesInv'
    <3>1. Loadable
      BY <2>2, LoadableStays DEF Loadable, vars
    <3> QED
      BY <3>1, NextKeeps, StutterKeeps
  <2>3. ASSUME Loadable', OneDependencyEach', Rerooted' = {} PROVE Waits' /\ ImportsWait'
    <3>1. CASE Next
      <4>1. Loadable /\ ModulesInv /\ OneDependencyEach
        BY <2>1, <2>2, <2>3
      <4>2. Rerooted = {}
        BY <4>1, <2>3, <3>1, RerootedStays
      <4>3. RootsAgree /\ Waits /\ ImportsWait
        BY <4>1, <4>2, RootsDoAgree
      <4> QED
        BY <4>1, <4>2, <4>3, <2>3, <3>1, NextWaits
    <3>2. CASE UNCHANGED vars
      <4>1. Loadable /\ ModulesInv /\ OneDependencyEach
        BY <2>1, <2>2, <2>3
      <4>2. Rerooted = {}
        BY <2>3, <3>2 DEF Rerooted, vars
      <4>3. Waits /\ ImportsWait
        BY <4>1, <4>2
      <4> QED
        BY <4>3, <3>2, StutterWaits DEF vars
    <3> QED
      BY <3>1, <3>2
  <2> QED
    BY <2>1, <2>2, <2>3
<1>3. I => (Loadable => ModulesInv /\ (OneDependencyEach /\ Rerooted = {} => EvaluationInv))
  BY DEF EvaluationInv, Waits
<1> QED
  BY <1>1, <1>2, <1>3, PTL DEF Spec

\* The promise of an import() that was fulfilled is for a module that came to its end.
LEMMA WaitedImports ==
  ASSUME ModulesInv, RootsAgree, EvaluationInv
  PROVE  FulfilledImportsComplete
<1>t. Types /\ Bookkeeping /\ Found /\ Starts /\ ImportsWait
  BY DEF ModulesInv, EvaluationInv, Findings
<1> SUFFICES ASSUME NEW p \in DOMAIN imports, NEW m, m = imports[p].m, imports[p].state = "fulfilled",
                    ~ md[m].error, md[m].cycleRoot = m
             PROVE  AllDone(m)
  BY DEF FulfilledImportsComplete, AllDone
<1>1. p \in 1 .. Len(imports) /\ imports[p] \in ImportSet
  BY <1>t DEF Types
<1>2. m \in Module
  BY <1>1 DEF ImportSet
<1>3. md[m].status = "Evaluated" /\ m \in done
  BY <1>1, <1>t DEF ImportsWait
<1>4. m \in Rooted
  BY <1>2, <1>3, ModulesAssumption DEF Rooted, HasStatus
<1> QED
  BY <1>3, <1>4, <1>t, RootDone

\* A failed module of a cycle that was found has failed the root.
LEMMA RootTold ==
  ASSUME ModulesInv, RootsAgree, EvaluationInv, frames = << >>, ~ escaped, NEW r \in Rooted, md[r].error
  PROVE  md[md[r].cycleRoot].error
<1>t. Types /\ Reported /\ Outcomes /\ Found
  BY DEF ModulesInv, EvaluationInv, Calling, Findings
<1>1. Rooted \subseteq Module
  BY DEF Rooted, HasStatus
<1>q. PICK q : q = md[r].cycleRoot
  OBVIOUS
<1> SUFFICES ASSUME ~ md[q].error PROVE FALSE
  BY <1>q
<1>c. PICK C : C = {x \in Rooted : md[x].cycleRoot = q /\ md[x].error}
  OBVIOUS
<1>2. r \in C /\ C \subseteq Module
  BY <1>c, <1>q, <1>1
<1>3. ASSUME NEW y \in C
      PROVE  \E z \in C : md[z].dfsIndex < md[y].dfsIndex
  <2>1. y \in Rooted /\ md[y].cycleRoot = q /\ md[y].error /\ TreeOf(y) /\ y \notin done /\ y \in Module
    BY <1>c, <1>t, <1>1 DEF Found, Outcomes
  <2>2. y # q
    BY <2>1
  <2>3. PICK z \in ToSet(Parents(y)) :
            z \in Rooted /\ md[z].cycleRoot = q /\ md[z].dfsIndex < md[y].dfsIndex
    BY <2>1, <2>2 DEF TreeOf
  <2>4. Parents(y) \in Seq(Module)
    BY <2>1, <1>t DEF Types, Records, Parents
  <2>5. PICK l \in 1 .. Len(Parents(y)) : Parents(y)[l] = z
    BY <2>3, <2>4 DEF ToSet
  <2>6. \A j \in 1 .. Len(frames) : FALSE
    OBVIOUS
  <2>7. md[z].error
    BY <2>1, <2>5, <2>6, <1>t DEF Reported
  <2> QED
    BY <2>3, <2>7, <1>c
<1>4. PICK T : T = {md[y].dfsIndex : y \in C}
  OBVIOUS
<1>5. T \subseteq Nat /\ T # {}
  BY <1>4, <1>2, <1>t DEF Types, Records
<1>6. PICK n \in T : \A k \in T : n <= k
  BY ONLY <1>5, LeastElement
<1>7. PICK y \in C : md[y].dfsIndex = n
  BY <1>4, <1>6
<1>8. PICK z \in C : md[z].dfsIndex < md[y].dfsIndex
  BY <1>3
<1>9. md[z].dfsIndex \in T /\ md[z].dfsIndex \in Nat /\ n \in Nat
  BY <1>4, <1>5, <1>6, <1>8
<1> QED
  BY <1>6, <1>7, <1>8, <1>9

\* The modules whose root has not failed request none whose root has.
LEMMA AllTold ==
  ASSUME ModulesInv, RootsAgree, EvaluationInv
  PROVE  ErrorsReachParents
<1>t. Types /\ Reported /\ Outcomes /\ Found /\ RootsAgree
  BY DEF ModulesInv, EvaluationInv, Calling, Findings
<1> SUFFICES ASSUME Idle, ~ escaped, NEW m \in Module, NEW r \in Module,
                    md[m].status = "Evaluated", md[m].cycleRoot # None, Reaches(m, r), md[r].error,
                    ~ md[md[m].cycleRoot].error
             PROVE  FALSE
  BY DEF ErrorsReachParents
<1>0. frames = << >> /\ Rooted \subseteq Module /\ m \in Rooted
  BY DEF Idle, Rooted, HasStatus
<1>s. PICK S : S = {w \in Rooted : ~ md[md[w].cycleRoot].error}
  OBVIOUS
<1>1. Closed(requests, S)
  <2> SUFFICES ASSUME NEW w \in S, NEW x \in ToSet(requests[w]) PROVE x \in S
    BY DEF Closed
  <2>1. w \in Rooted /\ w \in Module /\ ~ md[md[w].cycleRoot].error
    BY <1>s, <1>0
  <2>2. requests[w] \in Seq(Module)
    BY <2>1, <1>t DEF Types
  <2>3. PICK k \in 1 .. Len(requests[w]) : requests[w][k] = x
    BY <2>2 DEF ToSet
  <2>4. x \in Rooted
    BY <2>1, <2>3, <1>t DEF RootsAgree
  <2>q. PICK q : q = md[x].cycleRoot
    OBVIOUS
  <2>5. q \in Module /\ q \in Rooted /\ Reaches(x, q)
    BY <2>4, <2>q, RootIsComplete
  <2> SUFFICES ASSUME md[q].error PROVE FALSE
    BY <2>4, <2>q, <1>s
  <2>6. q = md[w].cycleRoot \/ AllDone(x) \/ w \in ToSet(Parents(q))
    BY <2>1, <2>3, <2>q, <1>t DEF Found, RequestsOf
  <2>7. q # md[w].cycleRoot
    BY <2>1
  <2>8. ~ AllDone(x)
    BY <2>5, <1>t DEF AllDone, Outcomes
  <2>9. w \notin ToSet(Parents(q))
    <3> SUFFICES ASSUME w \in ToSet(Parents(q)) PROVE FALSE
      OBVIOUS
    <3>1. Parents(q) \in Seq(Module)
      BY <2>5, <1>t DEF Types, Records, Parents
    <3>2. PICK l \in 1 .. Len(Parents(q)) : Parents(q)[l] = w
      BY <3>1 DEF ToSet
    <3>3. \A j \in 1 .. Len(frames) : FALSE
      BY <1>0
    <3>4. md[w].error
      BY <3>2, <3>3, <2>5, <1>0, <1>t DEF Reported
    <3> QED
      BY <3>4, <2>1, <1>0, RootTold
  <2> QED
    BY <2>6, <2>7, <2>8, <2>9
<1>2. r \in S
  <2>1. PICK g : g = requests
    OBVIOUS
  <2>2. S \in SUBSET Module /\ Closed(g, S) /\ m \in S /\ ReachesIn(g, m, r)
    BY <2>1, <1>0, <1>1, <1>s DEF Reaches
  <2> QED
    BY ONLY <2>2, ReachesWithin
<1> QED
  BY <1>0, <1>2, <1>s, RootTold

\* A body that starts was not started before, and what it requests is behind it.
LEMMA StartedInOrder ==
  ASSUME ModulesInv, RootsAgree, Waits, Next, NEW x \in Module, runs'[x] > runs[x]
  PROVE  runs[x] = 0 /\ StartOf(x)
<1>h. runs \in [Module -> Nat]
  BY DEF Waits, Bookkeeping, HistoryTypes
<1>1. ASSUME NEW m, runs' = [runs EXCEPT ![m] = @ + 1] PROVE x = m
  BY <1>1, <1>h
<1>2. CASE EvaluateSynthetic \/ EvaluateAsync \/ EvaluateSync
  <2>1. PICK m : m = Top.m
    OBVIOUS
  <2>2. AtEvaluateEnd /\ runs' = [runs EXCEPT ![m] = @ + 1] /\ (kind[m] = "json" \/ md[m].pendingAsyncDependencies = 0)
    BY <2>1, <1>2 DEF EvaluateSynthetic, EvaluateAsync, EvaluateSync
  <2>3. runs[m] = 0 /\ StartOf(m)
    BY <2>1, <2>2, AtEnd
  <2> QED
    BY <2>2, <2>3, <1>1
<1>3. CASE FulfilledParent
  <2>1. PICK m, i, q, data : /\ m = Top.m /\ i = Top.i /\ q = md[m].asyncParentModules[i]
                             /\ data = [md EXCEPT ![q].pendingAsyncDependencies = @ - 1]
    OBVIOUS
  <2>2. In("asyncModuleFulfilled") /\ i \in 1 .. Len(md[m].asyncParentModules)
    BY <2>1, <1>3 DEF FulfilledParent
  <2>3. ParentNow(m, i, q)
    BY <2>1, <2>2, ParentKnown
  <2>4. /\ md \in [Module -> Records] /\ q \in Module /\ runs[q] = 0
        /\ (~ md[q].error => StartOf(q))
    BY <2>3 DEF ParentNow, CallsNow
  <2>5. data[q].error = md[q].error
    <3>1. CountedDown(q, data)
      BY <2>1, <2>4, CountDown
    <3> QED
      BY <3>1, <2>4 DEF CountedDown
  <2>6. runs' = runs \/ (ReadyToRun(data, q) /\ runs' = [runs EXCEPT ![q] = @ + 1])
    BY <2>1, <1>3, Zenon DEF FulfilledParent
  <2>7. runs' # runs
    BY <1>h
  <2>8. x = q /\ ReadyToRun(data, q)
    BY <2>6, <2>7, <1>1
  <2> QED
    BY <2>4, <2>5, <2>8 DEF ReadyToRun
<1>4. CASE ~ (EvaluateSynthetic \/ EvaluateAsync \/ EvaluateSync \/ FulfilledParent)
  <2>1. runs' = runs
    BY <1>4, Zenon DEF Next, Job, Walk, Import, BodyEnds, HostCall, HostCallDies, ImportRejected, ImportResolved,
             BodyJob,            LinkCall, LinkRequest, LinkEnd, EvaluateCall, EvaluateReturns, EvaluateRequest, EvaluateDeferred, history,
           FulfilledBegin, FulfilledEnd, RejectedBegin, RejectedParent, RejectedEnd
  <2> QED
    BY <2>1, <1>h
<1> QED
  BY <1>2, <1>3, <1>4

\* The promise of an import() is fulfilled when all that the imported module reaches has
\* come to its end, whatever the graph and the order in which the async bodies end
\* (callDynamicImportResolved, asyncModuleFulfilled).
THEOREM ImportsAreComplete == Spec => [](Loadable => FulfilledImportsComplete)
<1>1. (Loadable => ModulesInv /\ (OneDependencyEach /\ Rerooted = {} => EvaluationInv)) => (Loadable => FulfilledImportsComplete)
  BY WaitedImports, RootsDoAgree DEF FulfilledImportsComplete
<1> QED
  BY <1>1, EvaluationWaits, PTL

\* A module that failed has failed the root of every cycle that reaches it, unless an
\* exception left asyncModuleRejected (innerModuleEvaluation, asyncModuleRejected).
THEOREM FailuresReachParents == Spec => [](Loadable => ErrorsReachParents)
<1>1. (Loadable => ModulesInv /\ (OneDependencyEach /\ Rerooted = {} => EvaluationInv)) => (Loadable => ErrorsReachParents)
  BY AllTold, RootsDoAgree DEF ErrorsReachParents
<1> QED
  BY <1>1, EvaluationWaits, PTL

\* A body starts once, and when it does all that it requests outside its cycle has come to
\* its end: the walk of innerModuleEvaluation and the loop of asyncModuleFulfilled, which
\* starts a parent without looking at its count, agree on that for every graph.
THEOREM BodiesStartInOrder == Spec /\ []Loadable => DependenciesFirst
<1>1. ASSUME Loadable, Loadable => ModulesInv /\ (OneDependencyEach /\ Rerooted = {} => EvaluationInv), [Next]_vars
      PROVE  [\A m \in Module : (runs'[m] > runs[m] /\ OneDependencyEach /\ Rerooted = {}) =>
                 runs[m] = 0 /\ DependenciesDone(m)]_vars
  <2>1. CASE UNCHANGED vars
    BY <2>1
  <2>2. ASSUME Next, NEW m \in Module, runs'[m] > runs[m], OneDependencyEach, Rerooted = {}
        PROVE  runs[m] = 0 /\ DependenciesDone(m)
    <3>1. ModulesInv /\ RootsAgree /\ Waits
      BY <1>1, <2>2, RootsDoAgree DEF EvaluationInv, Waits
    <3>2. runs[m] = 0 /\ StartOf(m)
      BY <2>2, <3>1, StartedInOrder
    <3>3. requests[m] \in Seq(Module)
      BY <3>1 DEF ModulesInv, Types
    <3>4. \A r \in ToSet(requests[m]) : SameCycle(m, r) \/ AllDone(r)
      BY <3>2, <3>3 DEF StartOf, ToSet
    <3> QED
      BY <3>2, <3>4 DEF DependenciesDone, AllDone
  <2> QED
    BY <1>1, <2>1, <2>2
<1> QED
  BY <1>1, EvaluationWaits, PTL DEF Spec, DependenciesFirst

=============================================================================
