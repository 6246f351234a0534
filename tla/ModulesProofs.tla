---------------------------- MODULE ModulesProofs ---------------------------
(***************************************************************************)
(* Module linking and evaluation, for any import graph: the two walks find  *)
(* the cycles of the graph, leave nothing half way and link a module        *)
(* together with all that it requests.                                      *)
(***************************************************************************)
EXTENDS Modules, SequenceLemmas

-----------------------------------------------------------------------------
(* The walk                                                                 *)

FrameSet == [fn : {"moduleLinking", "innerModuleLinking", "moduleEvaluation", "innerModuleEvaluation",
                   "asyncModuleFulfilled", "asyncModuleRejected"},
             m : Module, i : Nat]

\* The calls of a walk: the function that started it is the last one.
Inner(F) == 1 .. Len(F) - 1

\* A walk over the requests g: its calls F, the set K of the modules on its stack,
\* the index d and the ancestor index a of every module, the next index n, and the
\* modules out that the walk has nothing to do with any more.
WalkTypes(g, F, K, d, a, n, out) ==
    /\ g \in [Module -> Seq(Module)]
    /\ F \in Seq(FrameSet) /\ F # << >>
    /\ K \subseteq Module /\ out \subseteq Module
    /\ d \in [Module -> Nat] /\ a \in [Module -> Nat] /\ n \in Nat

\* The modules of the calls are on the stack, inner ones higher; no two modules on the
\* stack have the same index.
Indices(F, K, d, a, n) ==
    /\ \A j \in Inner(F) : F[j].m \in K /\ F[j].i >= 1
    /\ \A i, j \in Inner(F) : i < j => d[F[j].m] < d[F[i].m]
    /\ \A x, y \in K : d[x] = d[y] => x = y
    /\ \A x \in K : d[x] < n /\ a[x] <= d[x]

\* A call was made for the request its caller is at.
Calls(g, F) ==
    \A j \in Inner(F) : j + 1 \in Inner(F) =>
        F[j + 1].i <= Len(g[F[j + 1].m]) /\ g[F[j + 1].m][F[j + 1].i] = F[j].m

\* The first call is for the entry module, which is the lowest one.
Bottom(F, K, d, a) ==
    IF Len(F) = 1 THEN K = {}
    ELSE /\ F[Len(F) - 1].m = F[Len(F)].m
         /\ \A x \in K : d[F[Len(F)].m] <= d[x] /\ d[F[Len(F)].m] <= a[x]

\* Request k of x has been looked at: x is not in a call, or the call is past it.
Visited(F, x, k) == \A j \in Inner(F) : F[j].m = x => k < F[j].i

\* What was looked at is out, or on the stack not below the ancestor.
Looked(g, F, K, d, a, out) ==
    \A x \in K : \A k \in 1 .. Len(g[x]) : Visited(F, x, k) =>
        g[x][k] \in out \/ (g[x][k] \in K /\ a[x] <= d[g[x][k]])

\* The ancestor index of a call covers the modules above it up to the next call; that
\* of the innermost one is brought up to date by the second look at a request.
Lowest(g, F, K, d, a) ==
    /\ \A j \in Inner(F) : j + 1 \in Inner(F) =>
          \A x \in K : d[F[j + 1].m] <= d[x] /\ d[x] < d[F[j].m] => a[F[j + 1].m] <= a[x]
    /\ 1 \in Inner(F) => \A x \in K : d[F[1].m] <= d[x] =>
          \/ a[F[1].m] <= a[x]
          \/ /\ F[1].i <= Len(g[F[1].m])
             /\ g[F[1].m][F[1].i] \in K
             /\ a[g[F[1].m][F[1].i]] <= a[x]

\* A module that stays on the stack after its call is not the root of a cycle.
Left(F, K, d, a) == \A x \in K : (\A j \in Inner(F) : F[j].m # x) => a[x] < d[x]

\* A call reaches what is above it, a module the one its ancestor index names.
Paths(g, F, K, d, a) ==
    /\ \A j \in Inner(F) : \A x \in K : d[F[j].m] <= d[x] => ReachesIn(g, F[j].m, x)
    /\ \A x \in K : \E y \in K : d[y] = a[x] /\ ReachesIn(g, x, y)

Tarjan(g, F, K, d, a, n, out) ==
    /\ WalkTypes(g, F, K, d, a, n, out)
    /\ Indices(F, K, d, a, n) /\ Calls(g, F) /\ Bottom(F, K, d, a)
    /\ Looked(g, F, K, d, a, out) /\ Lowest(g, F, K, d, a)
    /\ Left(F, K, d, a) /\ Paths(g, F, K, d, a)

-----------------------------------------------------------------------------
(* Reachability                                                             *)

LEMMA ReachesItself ==
  ASSUME NEW g, NEW m \in Module
  PROVE  ReachesIn(g, m, m)
  BY DEF ReachesIn

LEMMA ReachesOn ==
  ASSUME NEW g, NEW m \in Module, NEW r \in Module, NEW x \in Module,
         ReachesIn(g, m, r), ReachesIn(g, r, x)
  PROVE  ReachesIn(g, m, x)
  BY DEF ReachesIn

LEMMA ReachesRequest ==
  ASSUME NEW g \in [Module -> Seq(Module)], NEW m \in Module, NEW k \in 1 .. Len(g[m])
  PROVE  g[m][k] \in Module /\ ReachesIn(g, m, g[m][k])
<1>1. g[m] \in Seq(Module)
  OBVIOUS
<1>2. g[m][k] \in Module /\ g[m][k] \in ToSet(g[m])
  BY <1>1 DEF ToSet
<1> QED
  BY <1>2 DEF ReachesIn, Closed

\* A closed set keeps what its members reach.
LEMMA ReachesWithin ==
  ASSUME NEW g, NEW S \in SUBSET Module, Closed(g, S), NEW m \in S, NEW r, ReachesIn(g, m, r)
  PROVE  r \in S
  BY DEF ReachesIn

-----------------------------------------------------------------------------
(* The steps of a walk                                                      *)

\* A module is entered: the entry module, or the request the innermost call is at.
EntersModule(g, F, K, d, a, n, r, F1, K1, d1, a1) ==
    /\ r \in Module /\ r \notin K
    /\ \/ Len(F) = 1 /\ F[1].m = r
       \/ Len(F) > 1 /\ F[1].i <= Len(g[F[1].m]) /\ g[F[1].m][F[1].i] = r
    /\ F1 \in Seq(FrameSet) /\ Len(F1) = Len(F) + 1
    /\ F1[1].m = r /\ F1[1].i = 1
    /\ \A j \in 1 .. Len(F) : F1[j + 1] = F[j]
    /\ K1 = K \union {r}
    /\ d1 \in [Module -> Nat] /\ a1 \in [Module -> Nat]
    /\ d1[r] = n /\ a1[r] = n
    /\ \A x \in Module \ {r} : d1[x] = d[x] /\ a1[x] = a[x]

LEMMA WalkEnters ==
  ASSUME NEW g, NEW F, NEW K, NEW d, NEW a, NEW n, NEW out, Tarjan(g, F, K, d, a, n, out),
         NEW r, NEW F1, NEW K1, NEW d1, NEW a1,
         EntersModule(g, F, K, d, a, n, r, F1, K1, d1, a1)
  PROVE  Tarjan(g, F1, K1, d1, a1, n + 1, out)
<1>e. /\ r \in Module /\ r \notin K
      /\ (Len(F) = 1 /\ F[1].m = r) \/ (Len(F) > 1 /\ F[1].i <= Len(g[F[1].m]) /\ g[F[1].m][F[1].i] = r)
      /\ F1 \in Seq(FrameSet) /\ Len(F1) = Len(F) + 1 /\ F1[1].m = r /\ F1[1].i = 1
      /\ \A j \in 1 .. Len(F) : F1[j + 1] = F[j]
  BY DEF EntersModule
<1>d. /\ K1 = K \union {r} /\ d1 \in [Module -> Nat] /\ a1 \in [Module -> Nat]
      /\ d1[r] = n /\ a1[r] = n /\ \A x \in Module \ {r} : d1[x] = d[x] /\ a1[x] = a[x]
  BY DEF EntersModule
<1>0. WalkTypes(g, F, K, d, a, n, out) /\ Indices(F, K, d, a, n)
  BY DEF Tarjan
<1>t. /\ g \in [Module -> Seq(Module)] /\ F \in Seq(FrameSet) /\ F # << >>
      /\ K \subseteq Module /\ out \subseteq Module
      /\ d \in [Module -> Nat] /\ a \in [Module -> Nat] /\ n \in Nat
      /\ Len(F) \in Nat /\ Len(F) >= 1
  BY <1>0 DEF WalkTypes
<1>f. \A j \in 1 .. Len(F) : F[j].m \in Module /\ F[j].i \in Nat
  <2>1. \A j \in 1 .. Len(F) : F[j] \in FrameSet
    BY <1>t
  <2> QED
    BY <2>1 DEF FrameSet
<1>j. /\ 1 \in Inner(F1) /\ Inner(F) \subseteq Nat \ {0} /\ Inner(F1) \subseteq Nat \ {0}
      /\ \A j \in Inner(F1) : j = 1 \/ (j - 1 \in Inner(F) /\ F1[j] = F[j - 1])
      /\ \A j \in Inner(F) : j + 1 \in Inner(F1) /\ F1[j + 1] = F[j] /\ j \in 1 .. Len(F)
  <2>1. \A j \in Inner(F1) : j = 1 \/ (j - 1 \in Inner(F) /\ j - 1 \in 1 .. Len(F) /\ (j - 1) + 1 = j)
    BY <1>t, <1>e DEF Inner
  <2>2. \A j \in Inner(F) : j + 1 \in Inner(F1) /\ j \in 1 .. Len(F)
    BY <1>t, <1>e DEF Inner
  <2>3. 1 \in Inner(F1) /\ Inner(F) \subseteq Nat \ {0} /\ Inner(F1) \subseteq Nat \ {0}
    BY <1>t, <1>e DEF Inner
  <2> QED
    BY <2>1, <2>2, <2>3, <1>e
<1>k. /\ \A x \in K : x \in Module /\ x # r /\ d1[x] = d[x] /\ a1[x] = a[x] /\ x \in K1
      /\ \A x \in K1 : x \in K \/ x = r
  BY <1>t, <1>e, <1>d
<1>in. \A j \in Inner(F) : F[j].m \in K /\ F[j].i >= 1 /\ d[F[j].m] < n
  BY <1>0 DEF Indices
<1>1. WalkTypes(g, F1, K1, d1, a1, n + 1, out)
  BY <1>t, <1>d, <1>e DEF WalkTypes
<1>2. Indices(F1, K1, d1, a1, n + 1)
  <2>1. \A j \in Inner(F1) : F1[j].m \in K1 /\ F1[j].i >= 1
    BY <1>j, <1>k, <1>in, <1>d, <1>e
  <2>2. \A i, j \in Inner(F1) : i < j => d1[F1[j].m] < d1[F1[i].m]
    <3> SUFFICES ASSUME NEW i \in Inner(F1), NEW j \in Inner(F1), i < j
                 PROVE  d1[F1[j].m] < d1[F1[i].m]
      OBVIOUS
    <3>1. i \in Nat /\ j \in Nat /\ i >= 1 /\ j # 1
      BY <1>t, <1>d, <1>e DEF Inner
    <3>2. j - 1 \in Inner(F) /\ F1[j] = F[j - 1]
      BY <1>j, <3>1
    <3>3. CASE i = 1
      <4>1. F[j - 1].m \in K /\ d[F[j - 1].m] < n
        BY <3>2, <1>in
      <4> QED
        BY <4>1, <3>2, <3>3, <1>k, <1>d, <1>e
    <3>4. CASE i # 1
      <4>1. i - 1 \in Inner(F) /\ F1[i] = F[i - 1] /\ i - 1 < j - 1
        BY <1>j, <3>1, <3>4
      <4>2. d[F[j - 1].m] < d[F[i - 1].m]
        BY <4>1, <3>2, <1>0 DEF Indices
      <4> QED
        BY <4>1, <4>2, <3>2, <1>k, <1>in
    <3> QED
      BY <3>3, <3>4
  <2>3. \A x, y \in K1 : d1[x] = d1[y] => x = y
    BY <1>0, <1>k, <1>t, <1>d, <1>e DEF Indices
  <2>4. \A x \in K1 : d1[x] < n + 1 /\ a1[x] <= d1[x]
    BY <1>0, <1>k, <1>t, <1>d, <1>e DEF Indices
  <2> QED
    BY <2>1, <2>2, <2>3, <2>4 DEF Indices
<1>3. Calls(g, F1)
  <2> SUFFICES ASSUME NEW j \in Inner(F1), j + 1 \in Inner(F1)
               PROVE  F1[j + 1].i <= Len(g[F1[j + 1].m]) /\ g[F1[j + 1].m][F1[j + 1].i] = F1[j].m
    BY DEF Calls
  <2>1. j \in Nat /\ j >= 1 /\ j \in Inner(F) /\ F1[j + 1] = F[j]
    BY <1>t, <1>d, <1>e DEF Inner
  <2>2. CASE j = 1
    <3>1. Len(F) > 1
      BY <2>1, <1>t, <1>d, <1>e DEF Inner
    <3> QED
      BY <3>1, <2>1, <2>2, <1>e
  <2>3. CASE j # 1
    <3>1. j - 1 \in Inner(F) /\ F1[j] = F[j - 1] /\ (j - 1) + 1 = j
      BY <1>j, <2>1, <2>3
    <3> QED
      BY <3>1, <2>1, Tarjan(g, F, K, d, a, n, out) DEF Tarjan, Calls
  <2> QED
    BY <2>2, <2>3
<1>4. Bottom(F1, K1, d1, a1)
  <2>1. Len(F1) # 1 /\ F1[Len(F1)] = F[Len(F)]
    BY <1>t, <1>d, <1>e
  <2>2. CASE Len(F) = 1
    <3>1. K = {} /\ F[1].m = r
      BY <2>2, <1>e, Tarjan(g, F, K, d, a, n, out) DEF Tarjan, Bottom
    <3>2. Len(F1) - 1 = 1 /\ F1[Len(F1) - 1].m = r
      BY <2>2, <1>e
    <3> QED
      BY <2>1, <2>2, <3>1, <3>2, <1>k, <1>t, <1>d, <1>e DEF Bottom
  <2>3. CASE Len(F) # 1
    <3>1. /\ F[Len(F) - 1].m = F[Len(F)].m
          /\ \A x \in K : d[F[Len(F)].m] <= d[x] /\ d[F[Len(F)].m] <= a[x]
      BY <2>3, Tarjan(g, F, K, d, a, n, out) DEF Tarjan, Bottom
    <3>2. Len(F) - 1 \in Inner(F) /\ F1[Len(F1) - 1] = F[Len(F) - 1]
      <4>1. Len(F) - 1 \in Inner(F) /\ Len(F1) - 1 = (Len(F) - 1) + 1
        BY <2>3, <1>t, <1>e DEF Inner
      <4> QED
        BY <4>1, <1>j
    <3>3. F[Len(F)].m \in K /\ d[F[Len(F)].m] < n
      BY <3>1, <3>2, <1>in
    <3> QED
      BY <2>1, <3>1, <3>2, <3>3, <1>k, <1>t, <1>d, <1>e, SMTT(30) DEF Bottom
  <2> QED
    BY <2>2, <2>3
<1>5. Looked(g, F1, K1, d1, a1, out)
  <2> SUFFICES ASSUME NEW x \in K1, NEW k \in 1 .. Len(g[x]), Visited(F1, x, k)
               PROVE  g[x][k] \in out \/ (g[x][k] \in K1 /\ a1[x] <= d1[g[x][k]])
    BY DEF Looked
  <2>1. x # r
    <3>1. CASE x = r
      <4>1. 1 \in Inner(F1) /\ F1[1].m = x
        BY <1>j, <1>e, <3>1
      <4>2. k < F1[1].i
        BY <4>1 DEF Visited
      <4> QED
        BY <4>2, <1>t, <1>d, <1>e
    <3> QED
      BY <3>1
  <2>2. x \in K /\ Visited(F, x, k)
    BY <2>1, <1>j, <1>k DEF Visited
  <2>3. g[x][k] \in out \/ (g[x][k] \in K /\ a[x] <= d[g[x][k]])
    BY <2>2, Tarjan(g, F, K, d, a, n, out) DEF Tarjan, Looked
  <2> QED
    BY <2>2, <2>3, <1>k
<1>6. Lowest(g, F1, K1, d1, a1)
  <2>1. ASSUME NEW j \in Inner(F1), j + 1 \in Inner(F1),
               NEW x \in K1, d1[F1[j + 1].m] <= d1[x], d1[x] < d1[F1[j].m]
        PROVE  a1[F1[j + 1].m] <= a1[x]
    <3>1. j \in Nat /\ j >= 1 /\ j \in Inner(F) /\ F1[j + 1] = F[j]
      <4>1. j \in Nat /\ j >= 1 /\ j \in Inner(F)
        BY <2>1, <1>t, <1>e DEF Inner
      <4> QED
        BY <4>1, <1>j
    <3>2. F[j].m \in K
      BY <3>1, <1>in
    <3>3. CASE j = 1
      <4>1. x # r /\ x \in K
        BY <2>1, <3>3, <1>k, <1>t, <1>d, <1>e
      <4>2. 1 \in Inner(F) /\ d[F[1].m] <= d[x] /\ Len(F) > 1
        BY <2>1, <3>1, <3>2, <3>3, <4>1, <1>k, <1>t, <1>d, <1>e DEF Inner
      <4>3. g[F[1].m][F[1].i] = r /\ r \notin K
        BY <4>2, <1>e
      <4>4. a[F[1].m] <= a[x]
        BY <4>1, <4>2, <4>3, Tarjan(g, F, K, d, a, n, out) DEF Tarjan, Lowest
      <4> QED
        BY <4>1, <4>4, <3>1, <3>2, <3>3, <1>k
    <3>4. CASE j # 1
      <4>1. j - 1 \in Inner(F) /\ F1[j] = F[j - 1] /\ (j - 1) + 1 = j
        BY <1>j, <3>1, <3>4
      <4>2. F[j - 1].m \in K /\ d[F[j - 1].m] < n
        BY <4>1, <1>in
      <4>3. x # r /\ x \in K
        <5>1. d1[F1[j].m] = d[F[j - 1].m] /\ d[F[j - 1].m] \in Nat
          BY <4>1, <4>2, <1>k, <1>t
        <5>2. x # r
          BY <2>1, <5>1, <4>2, <1>t, <1>d
        <5> QED
          BY <5>2, <1>k
      <4>4. d[F[j].m] <= d[x] /\ d[x] < d[F[j - 1].m]
        BY <2>1, <3>1, <3>2, <4>1, <4>2, <4>3, <1>k
      <4>5. a[F[j].m] <= a[x]
        BY <3>1, <4>1, <4>3, <4>4, Tarjan(g, F, K, d, a, n, out) DEF Tarjan, Lowest
      <4> QED
        BY <4>3, <4>5, <3>1, <3>2, <1>k
    <3> QED
      BY <3>3, <3>4
  <2>2. ASSUME NEW x \in K1, d1[F1[1].m] <= d1[x]
        PROVE  a1[F1[1].m] <= a1[x]
    <3>1. x = r
      BY <2>2, <1>0, <1>k, <1>t, <1>d, <1>e DEF Indices
    <3> QED
      BY <3>1, <1>d, <1>e, <1>t
  <2> QED
    BY <2>1, <2>2 DEF Lowest
<1>7. Left(F1, K1, d1, a1)
  <2> SUFFICES ASSUME NEW x \in K1, \A j \in Inner(F1) : F1[j].m # x
               PROVE  a1[x] < d1[x]
    BY DEF Left
  <2>1. x # r /\ \A j \in Inner(F) : F[j].m # x
    BY <1>j, <1>e
  <2>2. x \in K /\ a[x] < d[x]
    BY <2>1, <1>k, Tarjan(g, F, K, d, a, n, out) DEF Tarjan, Left
  <2> QED
    BY <2>2, <1>k
<1>8. Paths(g, F1, K1, d1, a1)
  <2>1. ASSUME NEW j \in Inner(F1), NEW x \in K1, d1[F1[j].m] <= d1[x]
        PROVE  ReachesIn(g, F1[j].m, x)
    <3>1. CASE j = 1
      <4>1. x = r
        BY <2>1, <3>1, <1>0, <1>k, <1>t, <1>d, <1>e DEF Indices
      <4> QED
        BY <3>1, <4>1, <1>e, ReachesItself
    <3>2. CASE j # 1
      <4>1. j - 1 \in Inner(F) /\ F1[j] = F[j - 1]
        BY <1>j, <3>2
      <4>2. F[j - 1].m \in K /\ F[j - 1].m \in Module
        BY <4>1, <1>in, <1>k
      <4>3. CASE x \in K
        <5>1. d[F[j - 1].m] <= d[x]
          BY <4>1, <4>2, <4>3, <2>1, <1>k
        <5> QED
          BY <4>1, <4>3, <5>1, Tarjan(g, F, K, d, a, n, out) DEF Tarjan, Paths
      <4>4. CASE x = r
        <5>1. Len(F) > 1 /\ 1 \in Inner(F) /\ F[1].m \in K /\ F[1].i >= 1 /\ F[1].i \in Nat
          BY <4>1, <1>in, <1>t, <1>d, <1>e, <1>f DEF Inner
        <5>2. F[1].m \in Module /\ F[1].i \in 1 .. Len(g[F[1].m]) /\ g[F[1].m][F[1].i] = r
          BY <5>1, <1>k, <1>t, <1>d, <1>e
        <5>3. ReachesIn(g, F[1].m, r)
          <6>1. PICK u, k : u = F[1].m /\ k = F[1].i
            OBVIOUS
          <6>2. u \in Module /\ k \in 1 .. Len(g[u]) /\ g[u][k] = r
            BY <5>2, <6>1
          <6>3. ReachesIn(g, u, g[u][k])
            BY <6>2, <1>t, ReachesRequest
          <6> QED
            BY <6>1, <6>2, <6>3
        <5>4. d[F[j - 1].m] <= d[F[1].m]
          <6>1. CASE j - 1 = 1
            BY <6>1, <5>2, <1>t, <1>d, <1>e
          <6>2. CASE j - 1 # 1
            <7>1. 1 < j - 1
              BY <6>2, <4>1, <1>t, <1>d, <1>e DEF Inner
            <7>2. d[F[j - 1].m] < d[F[1].m]
              BY <7>1, <4>1, <5>1, <1>0 DEF Indices
            <7>3. d[F[j - 1].m] \in Nat /\ d[F[1].m] \in Nat
              BY <4>2, <5>2, <1>t
            <7> QED
              BY <7>2, <7>3
          <6> QED
            BY <6>1, <6>2
        <5>5. ReachesIn(g, F[j - 1].m, F[1].m)
          BY <4>1, <5>1, <5>4, Tarjan(g, F, K, d, a, n, out) DEF Tarjan, Paths
        <5>6. PICK u, v : u = F[j - 1].m /\ v = F[1].m
          OBVIOUS
        <5>7. ReachesIn(g, u, v) /\ ReachesIn(g, v, r) /\ u \in Module /\ v \in Module /\ r \in Module
          BY <4>2, <5>2, <5>3, <5>5, <5>6, <1>e
        <5>8. ReachesIn(g, u, r)
          BY <5>7, ReachesOn
        <5> QED
          BY <4>1, <4>4, <5>6, <5>8
      <4> QED
        BY <4>3, <4>4, <1>k
    <3> QED
      BY <3>1, <3>2
  <2>2. ASSUME NEW x \in K1
        PROVE  \E y \in K1 : d1[y] = a1[x] /\ ReachesIn(g, x, y)
    <3>1. CASE x = r
      BY <3>1, <1>d, <1>e, ReachesItself
    <3>2. CASE x \in K
      <4>1. PICK y \in K : d[y] = a[x] /\ ReachesIn(g, x, y)
        BY <3>2, Tarjan(g, F, K, d, a, n, out) DEF Tarjan, Paths
      <4> QED
        BY <4>1, <3>2, <1>k
    <3> QED
      BY <3>1, <3>2, <1>k
  <2> QED
    BY <2>1, <2>2 DEF Paths
<1> QED
  BY <1>1, <1>2, <1>3, <1>4, <1>5, <1>6, <1>7, <1>8 DEF Tarjan

\* What the steps below need of the calls and of the stack.
LEMMA WalkFacts ==
  ASSUME NEW g, NEW F, NEW K, NEW d, NEW a, NEW n, NEW out, Tarjan(g, F, K, d, a, n, out)
  PROVE  /\ Len(F) \in Nat /\ Len(F) >= 1 /\ Inner(F) \subseteq Nat \ {0}
         /\ \A j \in 1 .. Len(F) : F[j].m \in Module /\ F[j].i \in Nat
         /\ \A j \in Inner(F) : j \in 1 .. Len(F) /\ F[j].m \in K /\ F[j].i >= 1
         /\ \A i, j \in Inner(F) : i <= j => d[F[j].m] <= d[F[i].m]
         /\ \A x \in K : x \in Module /\ d[x] \in Nat /\ a[x] \in Nat /\ a[x] <= d[x]
<1>1. WalkTypes(g, F, K, d, a, n, out) /\ Indices(F, K, d, a, n)
  BY DEF Tarjan
<1>2. F \in Seq(FrameSet) /\ Len(F) \in Nat /\ Len(F) >= 1 /\ Inner(F) \subseteq Nat \ {0}
  BY <1>1 DEF WalkTypes, Inner
<1>3. \A j \in 1 .. Len(F) : F[j].m \in Module /\ F[j].i \in Nat
  <2>1. \A j \in 1 .. Len(F) : F[j] \in FrameSet
    BY <1>2
  <2> QED
    BY <2>1 DEF FrameSet
<1>4. \A j \in Inner(F) : j \in 1 .. Len(F)
  BY <1>2 DEF Inner
<1>5. \A x \in K : x \in Module /\ d[x] \in Nat /\ a[x] \in Nat /\ a[x] <= d[x]
  BY <1>1 DEF WalkTypes, Indices
<1>6. \A j \in Inner(F) : F[j].m \in K /\ F[j].i >= 1
  BY <1>1 DEF Indices
<1>7. ASSUME NEW i \in Inner(F), NEW j \in Inner(F), i <= j
      PROVE  d[F[j].m] <= d[F[i].m]
  <2>1. i \in Nat /\ j \in Nat /\ d[F[j].m] \in Nat /\ d[F[i].m] \in Nat
    BY <1>2, <1>5, <1>6
  <2>2. i < j => d[F[j].m] < d[F[i].m]
    BY <1>1 DEF Indices
  <2> QED
    BY <2>1, <2>2, <1>7
<1> QED
  BY <1>2, <1>3, <1>4, <1>5, <1>6, <1>7

\* The innermost call is done with a request: it is out, or on the stack and the
\* ancestor index is now no higher than the one of the request.
PassesRequest(g, F, K, a, out, F1, a1) ==
    /\ Len(F) > 1 /\ F[1].i <= Len(g[F[1].m])
    /\ F1 \in Seq(FrameSet) /\ Len(F1) = Len(F)
    /\ F1[1].m = F[1].m /\ F1[1].i = F[1].i + 1
    /\ \A j \in 2 .. Len(F) : F1[j] = F[j]
    /\ a1 \in [Module -> Nat] /\ \A x \in Module \ {F[1].m} : a1[x] = a[x]
    /\ \/ /\ g[F[1].m][F[1].i] \in K
          /\ \/ a[g[F[1].m][F[1].i]] < a[F[1].m] /\ a1[F[1].m] = a[g[F[1].m][F[1].i]]
             \/ ~ (a[g[F[1].m][F[1].i]] < a[F[1].m]) /\ a1[F[1].m] = a[F[1].m]
       \/ /\ g[F[1].m][F[1].i] \in out /\ g[F[1].m][F[1].i] \notin K
          /\ a1[F[1].m] = a[F[1].m]

LEMMA WalkPasses ==
  ASSUME NEW g, NEW F, NEW K, NEW d, NEW a, NEW n, NEW out, Tarjan(g, F, K, d, a, n, out),
         NEW F1, NEW a1, PassesRequest(g, F, K, a, out, F1, a1)
  PROVE  Tarjan(g, F1, K, d, a1, n, out)
<1>0. PICK m, i, r : m = F[1].m /\ i = F[1].i /\ r = g[m][i]
  OBVIOUS
<1>e. /\ Len(F) > 1 /\ i <= Len(g[m])
      /\ F1 \in Seq(FrameSet) /\ Len(F1) = Len(F) /\ F1[1].m = m /\ F1[1].i = i + 1
      /\ \A j \in 2 .. Len(F) : F1[j] = F[j]
  BY <1>0 DEF PassesRequest
<1>d. /\ a1 \in [Module -> Nat] /\ \A x \in Module \ {m} : a1[x] = a[x]
      /\ \/ r \in K /\ ((a[r] < a[m] /\ a1[m] = a[r]) \/ (~ (a[r] < a[m]) /\ a1[m] = a[m]))
         \/ r \in out /\ r \notin K /\ a1[m] = a[m]
  BY <1>0 DEF PassesRequest
<1>t. /\ g \in [Module -> Seq(Module)] /\ F \in Seq(FrameSet) /\ F # << >>
      /\ K \subseteq Module /\ out \subseteq Module
      /\ d \in [Module -> Nat] /\ a \in [Module -> Nat] /\ n \in Nat
  BY DEF Tarjan, WalkTypes
<1>f. /\ Len(F) \in Nat /\ Len(F) >= 1 /\ Inner(F) \subseteq Nat \ {0}
      /\ \A j \in Inner(F) : j \in 1 .. Len(F) /\ F[j].m \in K /\ F[j].i >= 1 /\ F[j].i \in Nat
      /\ \A x \in K : x \in Module /\ d[x] \in Nat /\ a[x] \in Nat /\ a[x] <= d[x]
  BY WalkFacts
<1>g. \A k, j \in Inner(F) : k <= j => d[F[j].m] <= d[F[k].m]
  BY WalkFacts
<1>j. /\ Inner(F1) = Inner(F) /\ 1 \in Inner(F)
      /\ \A j \in Inner(F) : F1[j].m = F[j].m
      /\ \A j \in Inner(F) : j # 1 => F1[j] = F[j] /\ F[j].m # m
  <2>1. Inner(F1) = Inner(F) /\ 1 \in Inner(F)
    BY <1>e, <1>f DEF Inner
  <2>2. \A j \in Inner(F) : j # 1 => j \in 2 .. Len(F) /\ 1 < j
    BY <1>f DEF Inner
  <2>3. \A j \in Inner(F) : j # 1 => d[F[j].m] < d[m]
    BY <2>1, <2>2, <1>0 DEF Tarjan, Indices
  <2>4. \A j \in Inner(F) : d[F[j].m] \in Nat
    BY <1>f
  <2> QED
    BY <2>1, <2>2, <2>3, <2>4, <1>e, <1>0
<1>m. m \in K /\ m \in Module /\ i \in Nat /\ i >= 1 /\ i \in 1 .. Len(g[m])
  BY <1>0, <1>e, <1>f, <1>j, <1>t
<1>a. /\ \A x \in K : a1[x] \in Nat /\ a1[x] <= a[x] /\ (x # m => a1[x] = a[x])
      /\ r \in K => a1[m] <= a[r]
  BY <1>d, <1>f, <1>m
<1>1. WalkTypes(g, F1, K, d, a1, n, out)
  BY <1>t, <1>d, <1>e, <1>f DEF WalkTypes
<1>2. Indices(F1, K, d, a1, n)
  <2>1. \A j \in Inner(F1) : F1[j].m \in K /\ F1[j].i >= 1
    <3>1. ASSUME NEW j \in Inner(F)
          PROVE  F1[j].m \in K /\ F1[j].i >= 1
      <4>1. CASE j = 1
        BY <4>1, <1>e, <1>m
      <4>2. CASE j # 1
        BY <4>2, <1>j, <1>f
      <4> QED
        BY <4>1, <4>2
    <3> QED
      BY <3>1, <1>j
  <2>2. \A k, j \in Inner(F1) : k < j => d[F1[j].m] < d[F1[k].m]
    BY <1>j DEF Tarjan, Indices
  <2>3. \A x, y \in K : d[x] = d[y] => x = y
    BY DEF Tarjan, Indices
  <2>4. \A x \in K : d[x] < n
    BY DEF Tarjan, Indices
  <2>5. \A x \in K : a1[x] <= d[x]
    BY <1>a, <1>f
  <2> QED
    BY <2>1, <2>2, <2>3, <2>4, <2>5 DEF Indices
<1>3. Calls(g, F1)
  <2> SUFFICES ASSUME NEW j \in Inner(F1), j + 1 \in Inner(F1)
               PROVE  F1[j + 1].i <= Len(g[F1[j + 1].m]) /\ g[F1[j + 1].m][F1[j + 1].i] = F1[j].m
    BY DEF Calls
  <2>1. j \in Inner(F) /\ j + 1 \in Inner(F) /\ j + 1 # 1
    BY <1>j, <1>f
  <2>2. F1[j + 1] = F[j + 1] /\ F1[j].m = F[j].m
    BY <2>1, <1>j
  <2> QED
    BY <2>1, <2>2 DEF Tarjan, Calls
<1>4. Bottom(F1, K, d, a1)
  <2>1. /\ F[Len(F) - 1].m = F[Len(F)].m
        /\ \A x \in K : d[F[Len(F)].m] <= d[x] /\ d[F[Len(F)].m] <= a[x]
    BY <1>e, <1>f DEF Tarjan, Bottom
  <2>2. Len(F) \in 2 .. Len(F) /\ Len(F) - 1 \in Inner(F) /\ Len(F1) # 1
    BY <1>e, <1>f DEF Inner
  <2>3. F1[Len(F1)] = F[Len(F)] /\ F1[Len(F1) - 1].m = F[Len(F) - 1].m
    BY <2>2, <1>e, <1>j
  <2>4. \A x \in K : d[F[Len(F)].m] <= a1[x]
    <3>1. ASSUME NEW x \in K, x = m, r \in K
          PROVE  d[F[Len(F)].m] <= a1[x]
      <4>1. a1[x] = a[r] \/ a1[x] = a[x]
        BY <3>1, <1>d
      <4> QED
        BY <4>1, <3>1, <2>1
    <3>2. ASSUME NEW x \in K, x # m \/ r \notin K
          PROVE  d[F[Len(F)].m] <= a1[x]
      <4>1. a1[x] = a[x]
        BY <3>2, <1>d, <1>f
      <4> QED
        BY <4>1, <3>2, <2>1
    <3> QED
      BY <3>1, <3>2
  <2> QED
    BY <2>1, <2>2, <2>3, <2>4 DEF Bottom
<1>5. Looked(g, F1, K, d, a1, out)
  <2> SUFFICES ASSUME NEW x \in K, NEW k \in 1 .. Len(g[x]), Visited(F1, x, k)
               PROVE  g[x][k] \in out \/ (g[x][k] \in K /\ a1[x] <= d[g[x][k]])
    BY DEF Looked
  <2>1. CASE x = m /\ k = i
    <3>1. g[x][k] = r
      BY <2>1, <1>0
    <3>2. r \in out \/ (r \in K /\ a1[m] <= a[r] /\ a[r] <= d[r] /\ a1[m] \in Nat /\ a[r] \in Nat /\ d[r] \in Nat)
      BY <1>d, <1>a, <1>f, <1>m
    <3> QED
      BY <2>1, <3>1, <3>2
  <2>2. CASE ~ (x = m /\ k = i)
    <3>1. ASSUME NEW j \in Inner(F), F[j].m = x
          PROVE  k < F[j].i
      <4>1. k < F1[j].i /\ k \in Nat
        BY <3>1, <1>j DEF Visited
      <4>2. CASE j = 1
        <5>1. x = m /\ F1[j].i = i + 1 /\ F[j].i = i
          BY <4>2, <3>1, <1>0, <1>e
        <5> QED
          BY <4>1, <5>1, <2>2, <1>m
      <4>3. CASE j # 1
        BY <4>1, <4>3, <3>1, <1>j
      <4> QED
        BY <4>2, <4>3
    <3>2. Visited(F, x, k)
      BY <3>1 DEF Visited
    <3>3. g[x][k] \in out \/ (g[x][k] \in K /\ a[x] <= d[g[x][k]])
      BY <3>2 DEF Tarjan, Looked
    <3> QED
      BY <3>3, <1>a, <1>f
  <2> QED
    BY <2>1, <2>2
<1>6. Lowest(g, F1, K, d, a1)
  <2>1. ASSUME NEW j \in Inner(F1), j + 1 \in Inner(F1),
               NEW x \in K, d[F1[j + 1].m] <= d[x], d[x] < d[F1[j].m]
        PROVE  a1[F1[j + 1].m] <= a1[x]
    <3>1. j \in Inner(F) /\ j + 1 \in Inner(F) /\ j + 1 # 1 /\ 1 <= j
      BY <2>1, <1>j, <1>f
    <3>2. F1[j + 1].m = F[j + 1].m /\ F1[j].m = F[j].m /\ F[j + 1].m # m /\ F[j + 1].m \in K
      BY <3>1, <1>j, <1>f
    <3>3. a[F[j + 1].m] <= a[x]
      BY <2>1, <3>1, <3>2 DEF Tarjan, Lowest
    <3>4. d[F[j].m] <= d[m] /\ F[j].m \in K
      BY <3>1, <1>g, <1>j, <1>0, <1>f
    <3>5. x # m
      BY <2>1, <3>2, <3>4, <1>f, <1>m
    <3> QED
      BY <3>2, <3>3, <3>5, <1>a
  <2>2. ASSUME NEW x \in K, d[F1[1].m] <= d[x]
        PROVE  a1[F1[1].m] <= a1[x]
    <3>1. a[m] <= a[x] \/ (r \in K /\ a[r] <= a[x])
      BY <2>2, <1>0, <1>e, <1>j DEF Tarjan, Lowest
    <3>2. a1[m] <= a[x]
      BY <3>1, <1>a, <1>f, <1>m
    <3>3. x = m \/ a1[x] = a[x]
      BY <1>a
    <3> QED
      BY <3>2, <3>3, <1>e, <1>a, <1>m
  <2> QED
    BY <2>1, <2>2 DEF Lowest
<1>7. Left(F1, K, d, a1)
  <2> SUFFICES ASSUME NEW x \in K, \A j \in Inner(F1) : F1[j].m # x
               PROVE  a1[x] < d[x]
    BY DEF Left
  <2>1. a[x] < d[x]
    BY <1>j DEF Tarjan, Left
  <2> QED
    BY <2>1, <1>a, <1>f
<1>8. Paths(g, F1, K, d, a1)
  <2>1. \A j \in Inner(F1) : \A x \in K : d[F1[j].m] <= d[x] => ReachesIn(g, F1[j].m, x)
    BY <1>j DEF Tarjan, Paths
  <2>2. ASSUME NEW x \in K
        PROVE  \E y \in K : d[y] = a1[x] /\ ReachesIn(g, x, y)
    <3>1. CASE a1[x] = a[x]
      BY <3>1 DEF Tarjan, Paths
    <3>2. CASE a1[x] # a[x]
      <4>1. x = m /\ r \in K /\ a1[m] = a[r]
        BY <3>2, <1>d, <1>f
      <4>2. PICK y \in K : d[y] = a[r] /\ ReachesIn(g, r, y)
        BY <4>1 DEF Tarjan, Paths
      <4>3. ReachesIn(g, m, r) /\ r \in Module
        BY <1>t, <1>m, <1>0, ReachesRequest
      <4>4. ReachesIn(g, m, y)
        BY <4>2, <4>3, <1>m, <1>t, ReachesOn
      <4> QED
        BY <4>1, <4>2, <4>4
    <3> QED
      BY <3>1, <3>2
  <2> QED
    BY <2>1, <2>2 DEF Paths
<1> QED
  BY <1>1, <1>2, <1>3, <1>4, <1>5, <1>6, <1>7, <1>8 DEF Tarjan

\* The innermost call ends: its requests have all been looked at.
EndsCall(g, F, F1) ==
    /\ Len(F) > 1 /\ Len(g[F[1].m]) < F[1].i
    /\ F1 \in Seq(FrameSet) /\ Len(F1) = Len(F) - 1
    /\ \A j \in 1 .. Len(F1) : F1[j] = F[j + 1]

\* What is left of the calls, whether the module stays on the stack or not.
LEMMA CallEnds ==
  ASSUME NEW g, NEW F, NEW K, NEW d, NEW a, NEW n, NEW out, Tarjan(g, F, K, d, a, n, out),
         NEW F1, EndsCall(g, F, F1)
  PROVE  /\ Len(F1) \in Nat /\ Len(F1) >= 1 /\ F1 # << >>
         /\ \A j \in Inner(F1) : j + 1 \in Inner(F) /\ F1[j] = F[j + 1]
         /\ \A j \in Inner(F) : j # 1 => j - 1 \in Inner(F1) /\ F1[j - 1] = F[j]
         /\ \A j \in Inner(F1) : d[F1[j].m] < d[F[1].m]
         /\ \A i, j \in Inner(F1) : i < j => d[F1[j].m] < d[F1[i].m]
         /\ F1[Len(F1)] = F[Len(F)]
         /\ Len(F1) # 1 => F1[Len(F1) - 1] = F[Len(F) - 1]
         /\ 1 \in Inner(F) /\ F[1].m \in K
         /\ Calls(g, F1)
<1>e. /\ Len(F) > 1 /\ F1 \in Seq(FrameSet) /\ Len(F1) = Len(F) - 1
      /\ \A j \in 1 .. Len(F1) : F1[j] = F[j + 1]
  BY DEF EndsCall
<1>f. /\ Len(F) \in Nat /\ Inner(F) \subseteq Nat \ {0}
      /\ \A j \in Inner(F) : F[j].m \in K
  BY WalkFacts
<1>1. Len(F1) \in Nat /\ Len(F1) >= 1 /\ F1 # << >> /\ 1 \in Inner(F)
  BY <1>e, <1>f DEF Inner
<1>2. \A j \in Inner(F1) : j \in Nat /\ j \in 1 .. Len(F1) /\ j + 1 \in Inner(F) /\ 1 < j + 1
  BY <1>e, <1>f, <1>1 DEF Inner
<1>3. \A j \in Inner(F1) : j + 1 \in Inner(F) /\ F1[j] = F[j + 1]
  BY <1>2, <1>e
<1>4. ASSUME NEW j \in Inner(F), j # 1
      PROVE  j - 1 \in Inner(F1) /\ F1[j - 1] = F[j]
  <2>1. j - 1 \in Inner(F1) /\ j - 1 \in 1 .. Len(F1) /\ (j - 1) + 1 = j
    BY <1>4, <1>e, <1>f, <1>1 DEF Inner
  <2> QED
    BY <2>1, <1>e
<1>5. \A j \in Inner(F1) : d[F1[j].m] < d[F[1].m]
  BY <1>1, <1>2, <1>3 DEF Tarjan, Indices
<1>6. ASSUME NEW i \in Inner(F1), NEW j \in Inner(F1), i < j
      PROVE  d[F1[j].m] < d[F1[i].m]
  <2>1. i + 1 < j + 1
    BY <1>2, <1>6
  <2> QED
    BY <2>1, <1>3 DEF Tarjan, Indices
<1>7. F1[Len(F1)] = F[Len(F)]
  <2>1. Len(F1) \in 1 .. Len(F1) /\ Len(F1) + 1 = Len(F)
    BY <1>e, <1>f, <1>1
  <2> QED
    BY <2>1, <1>e
<1>8. ASSUME Len(F1) # 1
      PROVE  F1[Len(F1) - 1] = F[Len(F) - 1]
  <2>1. Len(F1) - 1 \in 1 .. Len(F1) /\ (Len(F1) - 1) + 1 = Len(F) - 1
    BY <1>e, <1>f, <1>1, <1>8
  <2> QED
    BY <2>1, <1>e
<1>9. Calls(g, F1)
  <2> SUFFICES ASSUME NEW j \in Inner(F1), j + 1 \in Inner(F1)
               PROVE  F1[j + 1].i <= Len(g[F1[j + 1].m]) /\ g[F1[j + 1].m][F1[j + 1].i] = F1[j].m
    BY DEF Calls
  <2>1. j + 1 \in Inner(F) /\ (j + 1) + 1 \in Inner(F) /\ F1[j] = F[j + 1] /\ F1[j + 1] = F[(j + 1) + 1]
    BY <1>3
  <2> QED
    BY <2>1 DEF Tarjan, Calls
<1> QED
  BY <1>1, <1>3, <1>4, <1>5, <1>6, <1>7, <1>8, <1>9, <1>f

\* It leaves its module on the stack when that is not the root of a cycle.
LEMMA WalkReturns ==
  ASSUME NEW g, NEW F, NEW K, NEW d, NEW a, NEW n, NEW out, Tarjan(g, F, K, d, a, n, out),
         NEW F1, EndsCall(g, F, F1), a[F[1].m] # d[F[1].m]
  PROVE  Tarjan(g, F1, K, d, a, n, out)
<1>0. PICK m : m = F[1].m
  OBVIOUS
<1>t. /\ g \in [Module -> Seq(Module)] /\ K \subseteq Module /\ out \subseteq Module
      /\ d \in [Module -> Nat] /\ a \in [Module -> Nat] /\ n \in Nat
  BY DEF Tarjan, WalkTypes
<1>f. /\ Len(F) \in Nat /\ Inner(F) \subseteq Nat \ {0}
      /\ \A j \in Inner(F) : F[j].m \in K /\ F[j].i >= 1 /\ F[j].i \in Nat
      /\ \A x \in K : x \in Module /\ d[x] \in Nat /\ a[x] \in Nat /\ a[x] <= d[x]
  BY WalkFacts
<1>e. Len(F) > 1 /\ Len(g[m]) < F[1].i /\ F1 \in Seq(FrameSet) /\ Len(F1) = Len(F) - 1
  BY <1>0 DEF EndsCall
<1>c. /\ Len(F1) \in Nat /\ Len(F1) >= 1 /\ F1 # << >>
      /\ \A j \in Inner(F1) : j + 1 \in Inner(F) /\ F1[j] = F[j + 1]
      /\ \A j \in Inner(F) : j # 1 => j - 1 \in Inner(F1) /\ F1[j - 1] = F[j]
      /\ 1 \in Inner(F) /\ m \in K
  BY CallEnds, <1>0
<1>d. /\ \A j \in Inner(F1) : d[F1[j].m] < d[m]
      /\ \A i, j \in Inner(F1) : i < j => d[F1[j].m] < d[F1[i].m]
      /\ F1[Len(F1)] = F[Len(F)]
      /\ Len(F1) # 1 => F1[Len(F1) - 1] = F[Len(F) - 1]
      /\ Calls(g, F1)
  BY CallEnds, <1>0
<1>m. m \in Module /\ a[m] < d[m] /\ a[m] \in Nat /\ d[m] \in Nat
  BY <1>c, <1>f, <1>0
<1>1. WalkTypes(g, F1, K, d, a, n, out)
  BY <1>t, <1>e, <1>c DEF WalkTypes
<1>2. Indices(F1, K, d, a, n)
  <2>1. \A j \in Inner(F1) : F1[j].m \in K /\ F1[j].i >= 1
    BY <1>c, <1>f
  <2>2. \A x, y \in K : d[x] = d[y] => x = y
    BY DEF Tarjan, Indices
  <2>3. \A x \in K : d[x] < n /\ a[x] <= d[x]
    BY DEF Tarjan, Indices
  <2> QED
    BY <2>1, <2>2, <2>3, <1>d DEF Indices
<1>b. \* the entry module is the root of its cycle
      /\ F[Len(F) - 1].m = F[Len(F)].m
      /\ \A x \in K : d[F[Len(F)].m] <= d[x] /\ d[F[Len(F)].m] <= a[x]
  BY <1>e, <1>f DEF Tarjan, Bottom
<1>l. Len(F1) # 1
  <2>1. SUFFICES ASSUME Len(F1) = 1 PROVE FALSE
    OBVIOUS
  <2>2. Len(F) - 1 = 1
    BY <2>1, <1>e, <1>f
  <2>3. d[m] <= a[m]
    BY <2>2, <1>b, <1>c, <1>0
  <2> QED
    BY <2>3, <1>m
<1>4. Bottom(F1, K, d, a)
  BY <1>l, <1>d, <1>b DEF Bottom
<1>5. Looked(g, F1, K, d, a, out)
  <2> SUFFICES ASSUME NEW x \in K, NEW k \in 1 .. Len(g[x]), Visited(F1, x, k)
               PROVE  g[x][k] \in out \/ (g[x][k] \in K /\ a[x] <= d[g[x][k]])
    BY DEF Looked
  <2>1. ASSUME NEW j \in Inner(F), F[j].m = x
        PROVE  k < F[j].i
    <3>1. CASE j = 1
      <4>1. Len(g[x]) < F[1].i /\ k <= Len(g[x]) /\ k \in Nat /\ F[1].i \in Nat
        BY <3>1, <2>1, <1>0, <1>e, <1>f, <1>c
      <4>2. Len(g[x]) \in Nat
        BY <1>t
      <4> QED
        BY <3>1, <4>1, <4>2
    <3>2. CASE j # 1
      <4>1. j - 1 \in Inner(F1) /\ F1[j - 1].m = x /\ F1[j - 1].i = F[j].i
        BY <3>2, <2>1, <1>c
      <4> QED
        BY <4>1 DEF Visited
    <3> QED
      BY <3>1, <3>2
  <2>2. Visited(F, x, k)
    BY <2>1 DEF Visited
  <2> QED
    BY <2>2 DEF Tarjan, Looked
<1>6. Lowest(g, F1, K, d, a)
  <2>1. ASSUME NEW j \in Inner(F1), j + 1 \in Inner(F1),
               NEW x \in K, d[F1[j + 1].m] <= d[x], d[x] < d[F1[j].m]
        PROVE  a[F1[j + 1].m] <= a[x]
    <3>1. j + 1 \in Inner(F) /\ (j + 1) + 1 \in Inner(F) /\ F1[j] = F[j + 1] /\ F1[j + 1] = F[(j + 1) + 1]
      BY <2>1, <1>c
    <3> QED
      BY <2>1, <3>1 DEF Tarjan, Lowest
  <2>2. ASSUME 1 \in Inner(F1), NEW x \in K, d[F1[1].m] <= d[x]
        PROVE  \/ a[F1[1].m] <= a[x]
               \/ /\ F1[1].i <= Len(g[F1[1].m])
                  /\ g[F1[1].m][F1[1].i] \in K
                  /\ a[g[F1[1].m][F1[1].i]] <= a[x]
    <3>1. 1 + 1 \in Inner(F) /\ F1[1] = F[1 + 1]
      BY <2>2, <1>c
    <3>2. F[1 + 1].i <= Len(g[F[1 + 1].m]) /\ g[F[1 + 1].m][F[1 + 1].i] = m
      BY <3>1, <1>c, <1>0 DEF Tarjan, Calls
    <3>3. CASE d[x] < d[m]
      <4>1. a[F[1 + 1].m] <= a[x]
        BY <2>2, <3>1, <3>3, <1>c, <1>0 DEF Tarjan, Lowest
      <4> QED
        BY <4>1, <3>1
    <3>4. CASE ~ (d[x] < d[m])
      <4>1. d[m] <= d[x]
        BY <3>4, <1>f, <1>m
      <4>2. a[m] <= a[x]
        <5>1. \/ a[m] <= a[x]
              \/ F[1].i <= Len(g[m])
          BY <4>1, <1>c, <1>0 DEF Tarjan, Lowest
        <5>2. F[1].i \in Nat /\ Len(g[m]) \in Nat
          BY <1>f, <1>c, <1>t, <1>m
        <5> QED
          BY <5>1, <5>2, <1>e
      <4> QED
        BY <4>2, <3>1, <3>2, <1>c
    <3> QED
      BY <3>3, <3>4
  <2> QED
    BY <2>1, <2>2 DEF Lowest
<1>7. Left(F1, K, d, a)
  <2> SUFFICES ASSUME NEW x \in K, \A j \in Inner(F1) : F1[j].m # x
               PROVE  a[x] < d[x]
    BY DEF Left
  <2>1. CASE x = m
    BY <2>1, <1>m
  <2>2. CASE x # m
    <3>1. \A j \in Inner(F) : F[j].m # x
      BY <2>2, <1>c, <1>0
    <3> QED
      BY <3>1 DEF Tarjan, Left
  <2> QED
    BY <2>1, <2>2
<1>8. Paths(g, F1, K, d, a)
  <2>1. \A j \in Inner(F1) : \A x \in K : d[F1[j].m] <= d[x] => ReachesIn(g, F1[j].m, x)
    BY <1>c DEF Tarjan, Paths
  <2>2. \A x \in K : \E y \in K : d[y] = a[x] /\ ReachesIn(g, x, y)
    BY DEF Tarjan, Paths
  <2> QED
    BY <2>1, <2>2 DEF Paths
<1> QED
  BY <1>1, <1>2, <1>d, <1>4, <1>5, <1>6, <1>7, <1>8 DEF Tarjan

\* The modules that the end of the call pops when it is.
Segment(K, d, m) == {x \in K : d[m] <= d[x]}

\* They are the cycle of m: m reaches them and they m, and what they request is
\* among them or out.
LEMMA SegmentIsCycle ==
  ASSUME NEW g, NEW F, NEW K, NEW d, NEW a, NEW n, NEW out, Tarjan(g, F, K, d, a, n, out),
         Len(F) > 1, Len(g[F[1].m]) < F[1].i, a[F[1].m] = d[F[1].m]
  PROVE  /\ F[1].m \in Segment(K, d, F[1].m)
         /\ \A x \in Segment(K, d, F[1].m) : \A k \in 1 .. Len(g[x]) :
              g[x][k] \in out \union Segment(K, d, F[1].m)
         /\ \A x \in Segment(K, d, F[1].m) : ReachesIn(g, F[1].m, x) /\ ReachesIn(g, x, F[1].m)
<1>0. PICK m : m = F[1].m
  OBVIOUS
<1> DEFINE S == Segment(K, d, m)
<1>t. /\ g \in [Module -> Seq(Module)] /\ K \subseteq Module
  BY DEF Tarjan, WalkTypes
<1>f. /\ Len(F) \in Nat /\ Inner(F) \subseteq Nat \ {0}
      /\ \A j \in Inner(F) : F[j].m \in K /\ F[j].i >= 1 /\ F[j].i \in Nat
      /\ \A x \in K : x \in Module /\ d[x] \in Nat /\ a[x] \in Nat /\ a[x] <= d[x]
  BY WalkFacts
<1>g. \A j \in Inner(F) : j # 1 => d[F[j].m] < d[m]
  <2>1. 1 \in Inner(F) /\ \A j \in Inner(F) : j # 1 => 1 < j
    BY <1>f DEF Inner
  <2> QED
    BY <2>1, <1>0 DEF Tarjan, Indices
<1>m. m \in K /\ m \in Module /\ 1 \in Inner(F) /\ F[1].i \in Nat /\ Len(g[m]) \in Nat
  <2>1. 1 \in Inner(F)
    BY <1>f DEF Inner
  <2>2. m \in K /\ m \in Module /\ F[1].i \in Nat
    BY <2>1, <1>f, <1>0
  <2> QED
    BY <2>1, <2>2, <1>t
<1>1. m \in S
  BY <1>m, <1>f DEF Segment
<1>2. \A x \in S : d[m] <= a[x]
  <2> SUFFICES ASSUME NEW x \in S PROVE d[m] <= a[x]
    OBVIOUS
  <2>1. x \in K /\ d[m] <= d[x]
    BY DEF Segment
  <2>2. a[m] <= a[x] \/ F[1].i <= Len(g[m])
    BY <2>1, <1>m, <1>0 DEF Tarjan, Lowest
  <2> QED
    BY <2>2, <1>m, <1>0
<1>3. ASSUME NEW x \in S, NEW k \in 1 .. Len(g[x])
      PROVE  g[x][k] \in out \union S
  <2>1. x \in K /\ d[m] <= d[x]
    BY DEF Segment
  <2>2. ASSUME NEW j \in Inner(F), F[j].m = x
        PROVE  k < F[j].i
    <3>1. j = 1
      BY <2>1, <2>2, <1>g, <1>f, <1>m
    <3>2. x = m
      BY <3>1, <2>2, <1>0
    <3> QED
      BY <3>1, <3>2, <1>m, <1>0
  <2>3. Visited(F, x, k)
    BY <2>2 DEF Visited
  <2>4. g[x][k] \in out \/ (g[x][k] \in K /\ a[x] <= d[g[x][k]])
    BY <2>1, <2>3 DEF Tarjan, Looked
  <2>5. g[x][k] \in K /\ a[x] <= d[g[x][k]] => d[m] <= d[g[x][k]]
    BY <1>2, <2>1, <1>f, <1>m
  <2> QED
    BY <2>4, <2>5 DEF Segment
<1>4. ASSUME NEW x \in S
      PROVE  ReachesIn(g, m, x)
  BY <1>m, <1>0 DEF Tarjan, Paths, Segment
<1>5. ASSUME NEW x \in S
      PROVE  ReachesIn(g, x, m)
  <2> DEFINE T == {d[y] : y \in {z \in S : ~ ReachesIn(g, z, m)}}
  <2>1. SUFFICES ASSUME ~ ReachesIn(g, x, m) PROVE FALSE
    OBVIOUS
  <2>2. T \subseteq Nat /\ T # {}
    BY <2>1, <1>f DEF Segment
  <2>3. PICK b \in T : \A c \in T : b <= c
    BY ONLY <2>2, LeastElement
  <2>4. PICK y \in S : ~ ReachesIn(g, y, m) /\ b = d[y]
    BY <2>3
  <2>5. y \in K /\ d[m] <= d[y] /\ y \in Module /\ d[y] \in Nat /\ a[y] \in Nat
    BY <1>f DEF Segment
  <2>6. y # m
    BY <2>4, <1>m, ReachesItself
  <2>7. \A j \in Inner(F) : F[j].m # y
    BY <2>5, <2>6, <1>0, <1>g, <1>f, <1>m
  <2>8. a[y] < d[y]
    BY <2>5, <2>7 DEF Tarjan, Left
  <2>9. PICK z \in K : d[z] = a[y] /\ ReachesIn(g, y, z)
    BY <2>5 DEF Tarjan, Paths
  <2>10. z \in S
    BY <2>9, <1>2 DEF Segment
  <2>11. ReachesIn(g, z, m)
    <3>1. SUFFICES ASSUME ~ ReachesIn(g, z, m) PROVE FALSE
      OBVIOUS
    <3>2. d[z] \in T
      BY <2>10, <3>1
    <3>3. b <= d[z]
      BY ONLY <3>2, <2>3
    <3> QED
      BY ONLY <3>3, <2>4, <2>8, <2>9, <2>5
  <2>12. z \in Module
    BY <1>f
  <2> QED
    BY <2>4, <2>5, <2>9, <2>11, <2>12, <1>m, ReachesOn
<1> QED
  BY <1>0, <1>1, <1>3, <1>4, <1>5

LEMMA WalkPops ==
  ASSUME NEW g, NEW F, NEW K, NEW d, NEW a, NEW n, NEW out, Tarjan(g, F, K, d, a, n, out),
         NEW F1, EndsCall(g, F, F1), a[F[1].m] = d[F[1].m],
         NEW K1, K1 = K \ Segment(K, d, F[1].m),
         NEW out1, out1 = out \union Segment(K, d, F[1].m)
  PROVE  Tarjan(g, F1, K1, d, a, n, out1)
<1>0. PICK m : m = F[1].m
  OBVIOUS
<1>t. /\ g \in [Module -> Seq(Module)] /\ K \subseteq Module /\ out \subseteq Module
      /\ d \in [Module -> Nat] /\ a \in [Module -> Nat] /\ n \in Nat
  BY DEF Tarjan, WalkTypes
<1>f. /\ Len(F) \in Nat /\ Inner(F) \subseteq Nat \ {0}
      /\ \A j \in Inner(F) : F[j].m \in K /\ F[j].i >= 1 /\ F[j].i \in Nat
      /\ \A x \in K : x \in Module /\ d[x] \in Nat /\ a[x] \in Nat /\ a[x] <= d[x]
  BY WalkFacts
<1>e. Len(F) > 1 /\ Len(g[m]) < F[1].i /\ F1 \in Seq(FrameSet) /\ Len(F1) = Len(F) - 1
  BY <1>0 DEF EndsCall
<1>c. /\ Len(F1) \in Nat /\ Len(F1) >= 1 /\ F1 # << >>
      /\ \A j \in Inner(F1) : j + 1 \in Inner(F) /\ F1[j] = F[j + 1]
      /\ \A j \in Inner(F) : j # 1 => j - 1 \in Inner(F1) /\ F1[j - 1] = F[j]
      /\ 1 \in Inner(F) /\ m \in K
  BY CallEnds, <1>0
<1>d. /\ \A j \in Inner(F1) : d[F1[j].m] < d[m]
      /\ \A i, j \in Inner(F1) : i < j => d[F1[j].m] < d[F1[i].m]
      /\ F1[Len(F1)] = F[Len(F)]
      /\ Len(F1) # 1 => F1[Len(F1) - 1] = F[Len(F) - 1]
      /\ Calls(g, F1)
  BY CallEnds, <1>0
<1>m. m \in Module /\ d[m] \in Nat
  BY <1>c, <1>f
<1>k. /\ \A x \in K1 : x \in K /\ d[x] < d[m]
      /\ \A x \in K : d[x] < d[m] => x \in K1
      /\ \A x \in K : x \in K1 \/ x \in out1
      /\ K1 \subseteq Module /\ out1 \subseteq Module
  BY <1>0, <1>f, <1>m, <1>t DEF Segment
<1>i. \A j \in Inner(F1) : F1[j].m \in K1 /\ F1[j].i >= 1
  BY <1>c, <1>d, <1>f, <1>k
<1>1. WalkTypes(g, F1, K1, d, a, n, out1)
  BY <1>t, <1>e, <1>c, <1>k DEF WalkTypes
<1>2. Indices(F1, K1, d, a, n)
  <2>1. \A x, y \in K : d[x] = d[y] => x = y
    BY DEF Tarjan, Indices
  <2>2. \A x \in K : d[x] < n /\ a[x] <= d[x]
    BY DEF Tarjan, Indices
  <2> QED
    BY <2>1, <2>2, <1>i, <1>d, <1>k DEF Indices
<1>b. /\ F[Len(F) - 1].m = F[Len(F)].m
      /\ \A x \in K : d[F[Len(F)].m] <= d[x] /\ d[F[Len(F)].m] <= a[x]
  BY <1>e, <1>f DEF Tarjan, Bottom
<1>4. Bottom(F1, K1, d, a)
  <2>1. CASE Len(F1) = 1
    <3>1. Len(F) - 1 = 1
      BY <2>1, <1>e, <1>f
    <3>2. \A x \in K : d[m] <= d[x]
      BY <3>1, <1>b, <1>0
    <3>3. K1 = {}
      BY <3>2, <1>k, <1>f, <1>m
    <3> QED
      BY <2>1, <3>3 DEF Bottom
  <2>2. CASE Len(F1) # 1
    BY <2>2, <1>d, <1>b, <1>k DEF Bottom
  <2> QED
    BY <2>1, <2>2
<1>5. Looked(g, F1, K1, d, a, out1)
  <2> SUFFICES ASSUME NEW x \in K1, NEW k \in 1 .. Len(g[x]), Visited(F1, x, k)
               PROVE  g[x][k] \in out1 \/ (g[x][k] \in K1 /\ a[x] <= d[g[x][k]])
    BY DEF Looked
  <2>1. ASSUME NEW j \in Inner(F), F[j].m = x
        PROVE  k < F[j].i
    <3>1. j # 1
      BY <2>1, <1>k, <1>0, <1>m
    <3>2. j - 1 \in Inner(F1) /\ F1[j - 1].m = x /\ F1[j - 1].i = F[j].i
      BY <3>1, <2>1, <1>c
    <3> QED
      BY <3>2 DEF Visited
  <2>2. Visited(F, x, k) /\ x \in K
    BY <2>1, <1>k DEF Visited
  <2>3. g[x][k] \in out \/ (g[x][k] \in K /\ a[x] <= d[g[x][k]])
    BY <2>2 DEF Tarjan, Looked
  <2> QED
    BY <2>3, <1>k
<1>6. Lowest(g, F1, K1, d, a)
  <2>1. ASSUME NEW j \in Inner(F1), j + 1 \in Inner(F1),
               NEW x \in K1, d[F1[j + 1].m] <= d[x], d[x] < d[F1[j].m]
        PROVE  a[F1[j + 1].m] <= a[x]
    <3>1. j + 1 \in Inner(F) /\ (j + 1) + 1 \in Inner(F) /\ F1[j] = F[j + 1] /\ F1[j + 1] = F[(j + 1) + 1]
      BY <2>1, <1>c
    <3>2. x \in K
      BY <1>k
    <3> QED
      BY <2>1, <3>1, <3>2 DEF Tarjan, Lowest
  <2>2. ASSUME 1 \in Inner(F1), NEW x \in K1, d[F1[1].m] <= d[x]
        PROVE  a[F1[1].m] <= a[x]
    <3>1. 1 + 1 \in Inner(F) /\ F1[1] = F[1 + 1]
      BY <2>2, <1>c
    <3>2. x \in K /\ d[x] < d[m]
      BY <1>k
    <3>3. a[F[1 + 1].m] <= a[x]
      BY <2>2, <3>1, <3>2, <1>c, <1>0 DEF Tarjan, Lowest
    <3> QED
      BY <3>1, <3>3
  <2> QED
    BY <2>1, <2>2 DEF Lowest
<1>7. Left(F1, K1, d, a)
  <2> SUFFICES ASSUME NEW x \in K1, \A j \in Inner(F1) : F1[j].m # x
               PROVE  a[x] < d[x]
    BY DEF Left
  <2>1. x # m /\ x \in K
    BY <1>k, <1>m
  <2>2. \A j \in Inner(F) : F[j].m # x
    BY <2>1, <1>c, <1>0
  <2> QED
    BY <2>1, <2>2 DEF Tarjan, Left
<1>8. Paths(g, F1, K1, d, a)
  <2>1. \A j \in Inner(F1) : \A x \in K1 : d[F1[j].m] <= d[x] => ReachesIn(g, F1[j].m, x)
    BY <1>c, <1>k DEF Tarjan, Paths
  <2>2. ASSUME NEW x \in K1
        PROVE  \E y \in K1 : d[y] = a[x] /\ ReachesIn(g, x, y)
    <3>1. x \in K /\ d[x] < d[m]
      BY <1>k
    <3>2. PICK y \in K : d[y] = a[x] /\ ReachesIn(g, x, y)
      BY <3>1 DEF Tarjan, Paths
    <3>3. y \in K1
      BY <3>1, <3>2, <1>f, <1>k, <1>m
    <3> QED
      BY <3>2, <3>3
  <2> QED
    BY <2>1, <2>2 DEF Paths
<1> QED
  BY <1>1, <1>2, <1>d, <1>4, <1>5, <1>6, <1>7, <1>8 DEF Tarjan

-----------------------------------------------------------------------------
(* The inductive invariant                                                  *)

Statuses == {"Unlinked", "Linking", "Linked", "Evaluating", "Evaluated"}
Records ==
    [status : Statuses, error : BOOLEAN, record : BOOLEAN, dfsIndex : Nat, dfsAncestorIndex : Nat,
     cycleRoot : Module \union {None}, asyncEvaluating : BOOLEAN,
     topLevelCapability : {"none", "pending", "resolved", "rejected"},
     asyncParentModules : Seq(Module), pendingAsyncDependencies : Int,
     asyncPendingPromises : Seq(Nat)]

JobSet == [fn : {"importRejected", "importResolved", "asyncModuleFulfilled", "asyncModuleRejected"},
           m : Module, p : Nat]
ImportSet == [m : Module, state : {"queued", "waiting", "fulfilled", "rejected"}]
CallSet == [op : {"none", "import", "execute", "instantiate", "evaluate"}, m : Module \union {None}, p : Nat]

Types ==
    /\ requests \in [Module -> Seq(Module)] /\ kind \in [Module -> Kinds]
    /\ \A m \in Module : kind[m] = "json" => requests[m] = << >>
    /\ md \in [Module -> Records]
    /\ frames \in Seq(FrameSet) /\ stack \in Seq(Module) /\ index \in Nat
    /\ jobs \in Seq(JobSet)
    /\ imports \in Seq(ImportSet) /\ call \in CallSet

DfsIndex == [m \in Module |-> md[m].dfsIndex]
DfsAncestorIndex == [m \in Module |-> md[m].dfsAncestorIndex]
HasStatus(S) == {m \in Module : md[m].status \in S}
LinkedOrMore == HasStatus({"Linked", "Evaluating", "Evaluated"})

\* The evaluated modules whose cycle was found.
Complete == {m \in HasStatus({"Evaluated"}) : found[m] # None}

\* The modules on the stack, last pushed first, have decreasing indices.
Ordered(s, d) == \A i, j \in 1 .. Len(s) : i < j => d[s[j]] < d[s[i]]

\* A walk of moduleLinking or of moduleEvaluation is in progress; the modules on its
\* stack are the ones with the status of the walk.
Walking(outer, inner, st, out) ==
    /\ frames # << >> /\ frames[Len(frames)].fn = outer /\ frames[Len(frames)].m = call.m
    /\ \A j \in Inner(frames) : frames[j].fn = inner
    /\ ToSet(stack) = HasStatus({st}) /\ ToSet(stack) = HasStatus({"Linking", "Evaluating"})
    /\ Ordered(stack, DfsIndex)
    /\ Tarjan(requests, frames, ToSet(stack), DfsIndex, DfsAncestorIndex, index, out)

InLinking ==
    /\ Walking("moduleLinking", "innerModuleLinking", "Linking", LinkedOrMore)
    /\ call.op # "instantiate" => md[call.m].status # "Evaluated"
    /\ \A x \in ToSet(stack) : (\A j \in Inner(frames) : frames[j].m # x) => md[x].record
InEvaluation ==
    /\ Walking("moduleEvaluation", "innerModuleEvaluation", "Evaluating", Complete)
    /\ call.m \in LinkedOrMore
    /\ frames[Len(frames)].i = 1 \/ (frames[Len(frames)].i = 0 /\ Len(frames) = 1)
NoWalk ==
    /\ \A j \in 1 .. Len(frames) : frames[j].fn \in {"asyncModuleFulfilled", "asyncModuleRejected"}
    /\ stack = << >> /\ HasStatus({"Linking", "Evaluating"}) = {}
Stages == NoWalk \/ InLinking \/ InEvaluation

\* The root of a module is the one a walk gave it, or itself once moduleEvaluate was
\* called for it.
RootsKnown ==
    /\ found \in [Module -> Module \union {None}]
    /\ \A m \in Module :
          md[m].cycleRoot = found[m] \/ (md[m].status = "Evaluated" /\ md[m].cycleRoot = m)

\* The cycles found so far are cycles of the graph, and whole ones.
RootsFound ==
    /\ \A m \in Module : found[m] # None =>
          md[m].status = "Evaluated" \/ (kind[m] = "json" /\ found[m] = m)
    /\ \A m \in Module : md[m].status = "Evaluated" /\ ~ md[m].error => found[m] # None
    /\ \A m \in Complete : \A k \in 1 .. Len(requests[m]) : requests[m][k] \in Complete
    /\ \A m \in Complete : SameCycle(m, found[m])
    /\ \A m, r \in Complete : SameCycle(m, r) => found[m] = found[r]
    /\ RootsKnown

\* What is linked has its record, and what it requests is linked.
LinkedFound ==
    \A m \in LinkedOrMore :
        md[m].record /\ \A k \in 1 .. Len(requests[m]) : requests[m][k] \in LinkedOrMore

ModulesInv == Types /\ Stages /\ RootsFound /\ LinkedFound

\* The host can load every requested module and no "default" is missing.  Otherwise
\* a walk is given up half way (run Modules_linkFails).
Loadable ==
    \A m \in Module :
        fault[m] # "noDefault" /\ \A r \in ToSet(requests[m]) : fault[r] # "notFound"

-----------------------------------------------------------------------------
(* The stack                                                                *)

LEMMA Pushed ==
  ASSUME NEW S, NEW s \in Seq(S), NEW m \in S, NEW t \in Seq(S), Len(t) = Len(s) + 1, t[1] = m,
         \A j \in 1 .. Len(s) : t[j + 1] = s[j]
  PROVE  ToSet(t) = ToSet(s) \union {m}
<1>1. DOMAIN t = 1 .. Len(t)
  OBVIOUS
<1>2. Len(s) \in Nat
  OBVIOUS
<1>3. ASSUME NEW x \in ToSet(t) PROVE x \in ToSet(s) \union {m}
  <2>1. PICK j \in 1 .. Len(t) : t[j] = x
    BY <1>1 DEF ToSet
  <2>2. CASE j = 1
    BY <2>1, <2>2, <1>1
  <2>3. CASE j # 1
    <3>1. j - 1 \in 1 .. Len(s) /\ (j - 1) + 1 = j
      BY <1>1, <1>2, <2>3
    <3>2. s[j - 1] = x
      BY <3>1, <2>1
    <3> QED
      BY <3>1, <3>2 DEF ToSet
  <2> QED
    BY <2>2, <2>3
<1>4. ASSUME NEW x \in ToSet(s) PROVE x \in ToSet(t)
  <2>1. PICK j \in 1 .. Len(s) : s[j] = x
    BY DEF ToSet
  <2>2. j + 1 \in 1 .. Len(t) /\ t[j + 1] = x
    BY <1>1, <1>2, <2>1
  <2>3. j + 1 \in DOMAIN t
    BY <2>2, <1>1
  <2> QED
    BY <2>2, <2>3 DEF ToSet
<1>5. m \in ToSet(t)
  BY <1>1, <1>2 DEF ToSet
<1> QED
  BY <1>3, <1>4, <1>5

\* What is popped is the module and all that was pushed after it.
LEMMA PoppedSegment ==
  ASSUME stack \in Seq(Module), NEW d \in [Module -> Nat], Ordered(stack, d), NEW m \in ToSet(stack)
  PROVE  /\ ToSet(Popped(m)) = Segment(ToSet(stack), d, m)
         /\ AfterPop(m) \in Seq(Module)
         /\ ToSet(AfterPop(m)) = ToSet(stack) \ Segment(ToSet(stack), d, m)
         /\ Ordered(AfterPop(m), d)
<1>0. Len(stack) \in Nat
  OBVIOUS
<1>1. PICK p : p = CHOOSE i \in DOMAIN stack : stack[i] = m
  OBVIOUS
<1>2. p \in 1 .. Len(stack) /\ stack[p] = m
  <2>1. \E i \in DOMAIN stack : stack[i] = m
    BY DEF ToSet
  <2> QED
    BY <1>1, <2>1
<1>3. /\ Popped(m) \in Seq(Module) /\ Len(Popped(m)) = p
      /\ \A i \in 1 .. p : Popped(m)[i] = stack[i]
  BY <1>0, <1>1, <1>2 DEF Popped
<1>4. /\ AfterPop(m) \in Seq(Module) /\ Len(AfterPop(m)) = Len(stack) - p
      /\ \A i \in 1 .. Len(stack) - p : AfterPop(m)[i] = stack[p + i]
  <2>1. AfterPop(m) = SubSeq(stack, p + 1, Len(stack))
    BY <1>3 DEF AfterPop
  <2> QED
    BY <2>1, <1>0, <1>2
<1>5. \A i \in 1 .. Len(stack) : stack[i] \in Module /\ d[stack[i]] \in Nat
  OBVIOUS
<1>6. /\ \A i \in 1 .. Len(stack) : i <= p => d[m] <= d[stack[i]]
      /\ \A i \in 1 .. Len(stack) : i > p => d[stack[i]] < d[m]
  <2>1. ASSUME NEW i \in 1 .. Len(stack), i <= p PROVE d[m] <= d[stack[i]]
    <3>1. i < p => d[stack[p]] < d[stack[i]]
      BY <1>2 DEF Ordered
    <3> QED
      BY <3>1, <2>1, <1>2, <1>5
  <2>2. ASSUME NEW i \in 1 .. Len(stack), i > p PROVE d[stack[i]] < d[m]
    BY <2>2, <1>2 DEF Ordered
  <2> QED
    BY <2>1, <2>2
<1>7. \A x \in ToSet(stack) : \E i \in 1 .. Len(stack) : stack[i] = x
  BY DEF ToSet
<1>8. ToSet(Popped(m)) = Segment(ToSet(stack), d, m)
  <2>1. ASSUME NEW x \in ToSet(Popped(m)) PROVE x \in Segment(ToSet(stack), d, m)
    <3>1. PICK i \in 1 .. p : Popped(m)[i] = x
      BY <1>3 DEF ToSet
    <3>2. i \in 1 .. Len(stack) /\ stack[i] = x /\ i <= p
      BY <3>1, <1>0, <1>2, <1>3
    <3>3. x \in ToSet(stack)
      BY <3>2 DEF ToSet
    <3> QED
      BY <3>2, <3>3, <1>6 DEF Segment
  <2>2. ASSUME NEW x \in Segment(ToSet(stack), d, m) PROVE x \in ToSet(Popped(m))
    <3>1. PICK i \in 1 .. Len(stack) : stack[i] = x
      BY <1>7 DEF Segment
    <3>2. d[m] <= d[stack[i]] /\ d[m] \in Nat
      BY <3>1, <1>2, <1>5 DEF Segment
    <3>3. ~ (i > p)
      BY <3>2, <1>5, <1>6
    <3>4. i \in 1 .. p /\ Popped(m)[i] = x
      BY <3>1, <3>3, <1>2, <1>3
    <3> QED
      BY <3>4, <1>3, SMTT(30) DEF ToSet
  <2> QED
    BY <2>1, <2>2
<1>9. ToSet(AfterPop(m)) = ToSet(stack) \ Segment(ToSet(stack), d, m)
  <2>1. ASSUME NEW x \in ToSet(AfterPop(m)) PROVE x \in ToSet(stack) \ Segment(ToSet(stack), d, m)
    <3>1. PICK i \in 1 .. Len(stack) - p : AfterPop(m)[i] = x
      BY <1>4 DEF ToSet
    <3>2. p + i \in 1 .. Len(stack) /\ stack[p + i] = x /\ p + i > p
      BY <3>1, <1>0, <1>2, <1>4
    <3>3. x \in ToSet(stack) /\ d[x] < d[m] /\ d[x] \in Nat /\ d[m] \in Nat
      BY <3>2, <1>2, <1>5, <1>6 DEF ToSet
    <3> QED
      BY <3>3 DEF Segment
  <2>2. ASSUME NEW x \in ToSet(stack) \ Segment(ToSet(stack), d, m) PROVE x \in ToSet(AfterPop(m))
    <3>1. PICK i \in 1 .. Len(stack) : stack[i] = x
      BY <1>7
    <3>2. ~ (i <= p)
      BY <3>1, <1>6 DEF Segment
    <3>3. i - p \in 1 .. Len(stack) - p /\ p + (i - p) = i
      BY <3>1, <3>2, <1>0, <1>2
    <3>4. AfterPop(m)[i - p] = x
      BY <3>1, <3>3, <1>4
    <3> QED
      BY <3>3, <3>4, <1>4 DEF ToSet
  <2> QED
    BY <2>1, <2>2
<1>10. Ordered(AfterPop(m), d)
  <2> SUFFICES ASSUME NEW i \in 1 .. Len(stack) - p, NEW j \in 1 .. Len(stack) - p, i < j
               PROVE  d[AfterPop(m)[j]] < d[AfterPop(m)[i]]
    BY <1>4 DEF Ordered
  <2>1. p + i \in 1 .. Len(stack) /\ p + j \in 1 .. Len(stack) /\ p + i < p + j
    BY <1>0, <1>2
  <2> QED
    BY <2>1, <1>4 DEF Ordered
<1> QED
  BY <1>4, <1>8, <1>9, <1>10

-----------------------------------------------------------------------------
(* The steps of the two walks                                               *)

WalkStatuses == {"Linking", "Evaluating"}
InnerNames == {"innerModuleLinking", "innerModuleEvaluation"}

\* What Enter does to the data of the modules.
LEMMA EnterData ==
  ASSUME md \in [Module -> Records], index \in Nat, NEW f, NEW m \in Module, NEW st \in WalkStatuses,
         Enter(f, m, st)
  PROVE  /\ md' \in [Module -> Records]
         /\ md'[m].status = st /\ md'[m].dfsIndex = index /\ md'[m].dfsAncestorIndex = index
         /\ md'[m].record = md[m].record /\ md'[m].cycleRoot = md[m].cycleRoot
         /\ md'[m].error = md[m].error
         /\ \A x \in Module \ {m} : md'[x] = md[x]
<1>1. md' = [md EXCEPT ![m].status = st, ![m].dfsIndex = index, ![m].dfsAncestorIndex = index]
  BY DEF Enter
<1>2. md[m] \in Records /\ st \in Statuses
  BY DEF WalkStatuses, Statuses
<1>3. md' = [md EXCEPT ![m] = [md[m] EXCEPT !.status = st, !.dfsIndex = index, !.dfsAncestorIndex = index]]
  BY <1>1, <1>2 DEF Records
<1>4. PICK e : e = [md[m] EXCEPT !.status = st, !.dfsIndex = index, !.dfsAncestorIndex = index]
  OBVIOUS
<1>5. /\ e \in Records
      /\ e.status = st /\ e.dfsIndex = index /\ e.dfsAncestorIndex = index
      /\ e.record = md[m].record /\ e.cycleRoot = md[m].cycleRoot /\ e.error = md[m].error
  BY <1>2, <1>4 DEF Records
<1>6. md' = [md EXCEPT ![m] = e]
  BY <1>3, <1>4
<1>7. md'[m] = e /\ md' \in [Module -> Records] /\ \A x \in Module \ {m} : md'[x] = md[x]
  BY <1>5, <1>6
<1> QED
  BY <1>5, <1>7

LEMMA EnterWalks ==
  ASSUME Types, NEW outer, NEW inner \in InnerNames, NEW st \in WalkStatuses, NEW out,
         Walking(outer, inner, st, out),
         NEW m \in Module, md[m].status \notin WalkStatuses,
         \/ Len(frames) = 1 /\ frames[1].m = m
         \/ /\ Len(frames) > 1 /\ frames[1].i <= Len(requests[frames[1].m])
            /\ requests[frames[1].m][frames[1].i] = m,
         Enter(inner, m, st), requests' = requests, call' = call
  PROVE  /\ Walking(outer, inner, st, out)' /\ Len(frames') > 1
         /\ frames' \in Seq(FrameSet) /\ stack' \in Seq(Module) /\ index' \in Nat
         /\ frames'[Len(frames')] = frames[Len(frames)]
<1>t. /\ md \in [Module -> Records] /\ index \in Nat /\ frames \in Seq(FrameSet) /\ stack \in Seq(Module)
  BY DEF Types
<1>w. /\ frames # << >> /\ frames[Len(frames)].fn = outer /\ frames[Len(frames)].m = call.m
      /\ \A j \in Inner(frames) : frames[j].fn = inner
      /\ ToSet(stack) = HasStatus({st}) /\ ToSet(stack) = HasStatus({"Linking", "Evaluating"})
      /\ Ordered(stack, DfsIndex)
      /\ Tarjan(requests, frames, ToSet(stack), DfsIndex, DfsAncestorIndex, index, out)
  BY DEF Walking
<1>e. /\ index' = index + 1 /\ stack' = <<m>> \o stack /\ frames' = <<Frame(inner, m, 1)>> \o frames
  BY DEF Enter
<1>d. /\ md' \in [Module -> Records]
      /\ md'[m].status = st /\ md'[m].dfsIndex = index /\ md'[m].dfsAncestorIndex = index
      /\ \A x \in Module \ {m} : md'[x] = md[x]
  BY <1>t, EnterData
<1>s. /\ stack' \in Seq(Module) /\ Len(stack') = Len(stack) + 1 /\ stack'[1] = m
      /\ \A j \in 1 .. Len(stack) : stack'[j + 1] = stack[j]
      /\ ToSet(stack') = ToSet(stack) \union {m}
  <2>1. PICK t, s : t = stack' /\ s = stack
    OBVIOUS
  <2>2. s \in Seq(Module) /\ m \in Module /\ t = <<m>> \o s
    BY <2>1, <1>e, <1>t
  <2>3. /\ t \in Seq(Module) /\ Len(t) = Len(s) + 1 /\ t[1] = m
        /\ \A j \in 1 .. Len(s) : t[j + 1] = s[j]
    BY ONLY <2>2
  <2>5. s \in Seq(Module) /\ m \in Module
    BY <2>2
  <2>4. ToSet(t) = ToSet(s) \union {m}
    BY ONLY <2>5, <2>3, Pushed
  <2> QED
    BY <2>1, <2>3, <2>4
<1>f. /\ frames' \in Seq(FrameSet) /\ Len(frames') = Len(frames) + 1 /\ frames'[1] = Frame(inner, m, 1)
      /\ \A j \in 1 .. Len(frames) : frames'[j + 1] = frames[j]
  <2>1. Frame(inner, m, 1) \in FrameSet
    BY DEF Frame, FrameSet, InnerNames
  <2>2. PICK t, e : t = frames' /\ e = Frame(inner, m, 1)
    OBVIOUS
  <2>3. t = <<e>> \o frames /\ e \in FrameSet
    BY <2>1, <2>2, <1>e
  <2>4. /\ t \in Seq(FrameSet) /\ Len(t) = Len(frames) + 1 /\ t[1] = e
        /\ \A j \in 1 .. Len(frames) : t[j + 1] = frames[j]
    BY <2>3, <1>t
  <2> QED
    BY <2>2, <2>4
<1>g. frames'[1].m = m /\ frames'[1].i = 1 /\ frames'[1].fn = inner
  BY <1>f DEF Frame
<1>l. Len(frames) \in Nat /\ Len(frames) >= 1 /\ Len(stack) \in Nat
  BY <1>t, <1>w
<1>1. \A x \in Module : x \in HasStatus({st})' <=> (x = m \/ x \in HasStatus({st}))
  BY <1>d DEF HasStatus
<1>2. \A x \in Module : x \in HasStatus({"Linking", "Evaluating"})' <=> (x = m \/ x \in HasStatus({"Linking", "Evaluating"}))
  BY <1>d DEF HasStatus, WalkStatuses
<1>3. /\ HasStatus({st})' = HasStatus({st}) \union {m}
      /\ HasStatus({"Linking", "Evaluating"})' = HasStatus({"Linking", "Evaluating"}) \union {m}
  <2>1. HasStatus({st})' \subseteq Module /\ HasStatus({"Linking", "Evaluating"})' \subseteq Module
        /\ HasStatus({st}) \subseteq Module /\ HasStatus({"Linking", "Evaluating"}) \subseteq Module
    BY DEF HasStatus
  <2> QED
    BY <1>1, <1>2, <2>1
<1>4. m \notin ToSet(stack)
  BY <1>w DEF HasStatus, WalkStatuses
<1>5. /\ DfsIndex' \in [Module -> Nat] /\ DfsAncestorIndex' \in [Module -> Nat]
      /\ DfsIndex'[m] = index /\ DfsAncestorIndex'[m] = index
      /\ \A x \in Module \ {m} : DfsIndex'[x] = DfsIndex[x] /\ DfsAncestorIndex'[x] = DfsAncestorIndex[x]
  BY <1>d DEF DfsIndex, DfsAncestorIndex, Records
<1>6. EntersModule(requests, frames, ToSet(stack), DfsIndex, DfsAncestorIndex, index, m,
                   frames', ToSet(stack)', DfsIndex', DfsAncestorIndex')
  BY <1>4, <1>5, <1>f, <1>g, <1>s DEF EntersModule
<1>7. PICK F1, K1, d1, a1 : F1 = frames' /\ K1 = ToSet(stack)' /\ d1 = DfsIndex' /\ a1 = DfsAncestorIndex'
  OBVIOUS
<1>8. Tarjan(requests, F1, K1, d1, a1, index + 1, out)
  <2>1. PICK g, F, K, d, a, n : /\ g = requests /\ F = frames /\ K = ToSet(stack)
                                /\ d = DfsIndex /\ a = DfsAncestorIndex /\ n = index
    OBVIOUS
  <2>2. Tarjan(g, F, K, d, a, n, out) /\ EntersModule(g, F, K, d, a, n, m, F1, K1, d1, a1)
    BY <2>1, <1>w, <1>6, <1>7
  <2>3. Tarjan(g, F1, K1, d1, a1, n + 1, out)
    BY ONLY <2>2, WalkEnters
  <2> QED
    BY <2>1, <2>3
<1>9. Tarjan(requests, frames, ToSet(stack), DfsIndex, DfsAncestorIndex, index, out)'
  BY <1>7, <1>8, <1>e, requests' = requests
<1>10. Ordered(stack, DfsIndex)'
  <2> SUFFICES ASSUME NEW i \in 1 .. Len(stack'), NEW j \in 1 .. Len(stack'), i < j
               PROVE  DfsIndex'[stack'[j]] < DfsIndex'[stack'[i]]
    BY DEF Ordered
  <2>1. j - 1 \in 1 .. Len(stack) /\ stack'[j] = stack[j - 1] /\ stack[j - 1] \in ToSet(stack)
    <3>1. j - 1 \in 1 .. Len(stack) /\ (j - 1) + 1 = j
      BY <1>s, <1>l
    <3>2. stack[j - 1] \in ToSet(stack)
      BY <3>1, <1>t DEF ToSet
    <3> QED
      BY <3>1, <3>2, <1>s
  <2>2. stack[j - 1] \in Module /\ stack[j - 1] # m /\ DfsIndex[stack[j - 1]] < index
    <3>1. \A x \in ToSet(stack) : DfsIndex[x] < index
      BY <1>w DEF Tarjan, Indices
    <3> QED
      BY <3>1, <2>1, <1>4, <1>t
  <2>3. CASE i = 1
    BY <2>1, <2>2, <2>3, <1>5, <1>s
  <2>4. CASE i # 1
    <3>1. i - 1 \in 1 .. Len(stack) /\ (i - 1) + 1 = i /\ i - 1 < j - 1
      BY <2>4, <2>1, <1>s, <1>l
    <3>2. stack'[i] = stack[i - 1] /\ stack[i - 1] \in Module /\ stack[i - 1] # m
      BY <3>1, <1>s, <1>4, <1>t DEF ToSet
    <3>3. DfsIndex[stack[j - 1]] < DfsIndex[stack[i - 1]]
      BY <3>1, <2>1, <1>w DEF Ordered
    <3> QED
      BY <3>2, <3>3, <2>1, <2>2, <1>5
  <2> QED
    BY <2>3, <2>4
<1>11. \A j \in Inner(frames)' : frames'[j].fn = inner
  <2> SUFFICES ASSUME NEW j \in Inner(frames)' PROVE frames'[j].fn = inner
    OBVIOUS
  <2>1. j \in 1 .. Len(frames)
    BY <1>f, <1>l DEF Inner
  <2>2. CASE j = 1
    BY <2>2, <1>g
  <2>3. CASE j # 1
    <3>1. j - 1 \in Inner(frames) /\ j - 1 \in 1 .. Len(frames) /\ (j - 1) + 1 = j
      BY <2>1, <2>3, <1>l DEF Inner
    <3> QED
      BY <3>1, <1>f, <1>w
  <2> QED
    BY <2>2, <2>3
<1>12. frames'[Len(frames')] = frames[Len(frames)] /\ frames' # << >> /\ Len(frames') > 1
  BY <1>f, <1>l
<1>13. Walking(outer, inner, st, out)'
  BY <1>3, <1>9, <1>10, <1>11, <1>12, <1>s, <1>w, call' = call DEF Walking
<1> QED
  BY <1>12, <1>13, <1>e, <1>f, <1>s, <1>t

\* A walk whose stack and module states stay as they are.
SameData(D) ==
    /\ md' \in [Module -> Records]
    /\ \A x \in D : md'[x].dfsIndex = md[x].dfsIndex /\ md'[x].dfsAncestorIndex = md[x].dfsAncestorIndex

\* The innermost call, for m, is done with the request r.
Passes(inner, st, out, m, r) ==
    /\ Len(frames) > 1 /\ m = frames[1].m /\ frames[1].i <= Len(requests[m])
    /\ r = requests[m][frames[1].i] /\ (r \in out \/ md[r].status = st)
    /\ frames' = <<Frame(inner, m, frames[1].i + 1)>> \o Tail(frames)
    /\ stack' = stack /\ index' = index /\ call' = call /\ requests' = requests
    /\ SameData(Module \ {m}) /\ \A x \in Module : md'[x].status = md[x].status
    /\ md'[m].dfsIndex = md[m].dfsIndex
    /\ md'[m].dfsAncestorIndex = IF md[r].status = st /\ md[r].dfsAncestorIndex < md[m].dfsAncestorIndex
                                 THEN md[r].dfsAncestorIndex ELSE md[m].dfsAncestorIndex

LEMMA PassWalks ==
  ASSUME Types, NEW outer, NEW inner \in InnerNames, NEW st \in WalkStatuses, NEW out,
         Walking(outer, inner, st, out), NEW m, NEW r, Passes(inner, st, out, m, r)
  PROVE  /\ Walking(outer, inner, st, out)' /\ Len(frames') = Len(frames)
         /\ frames' \in Seq(FrameSet) /\ stack' \in Seq(Module) /\ index' \in Nat
         /\ frames'[Len(frames')] = frames[Len(frames)]
<1>h. Len(frames) > 1 /\ m = frames[1].m /\ frames[1].i <= Len(requests[m]) /\ r = requests[m][frames[1].i]
  BY DEF Passes
<1>j. r \in out \/ md[r].status = st
  BY DEF Passes
<1>k. frames' = <<Frame(inner, m, frames[1].i + 1)>> \o Tail(frames)
  BY DEF Passes
<1>u. stack' = stack /\ index' = index /\ call' = call /\ requests' = requests
  BY DEF Passes
<1>x. /\ SameData(Module \ {m}) /\ \A x \in Module : md'[x].status = md[x].status
      /\ md'[m].dfsIndex = md[m].dfsIndex
  BY DEF Passes
<1>y. md'[m].dfsAncestorIndex = IF md[r].status = st /\ md[r].dfsAncestorIndex < md[m].dfsAncestorIndex
                                THEN md[r].dfsAncestorIndex ELSE md[m].dfsAncestorIndex
  BY DEF Passes
<1>t. /\ md \in [Module -> Records] /\ index \in Nat /\ frames \in Seq(FrameSet) /\ stack \in Seq(Module)
      /\ requests \in [Module -> Seq(Module)]
  BY DEF Types
<1>w. /\ frames # << >> /\ frames[Len(frames)].fn = outer /\ frames[Len(frames)].m = call.m
      /\ \A j \in Inner(frames) : frames[j].fn = inner
      /\ ToSet(stack) = HasStatus({st}) /\ ToSet(stack) = HasStatus({"Linking", "Evaluating"})
      /\ Ordered(stack, DfsIndex)
      /\ Tarjan(requests, frames, ToSet(stack), DfsIndex, DfsAncestorIndex, index, out)
  BY DEF Walking
<1>0. PICK i : i = frames[1].i
  OBVIOUS
<1>l. Len(frames) \in Nat /\ 1 \in Inner(frames) /\ 1 \in 1 .. Len(frames)
  BY <1>t, <1>h DEF Inner
<1>m. m \in Module /\ i \in Nat /\ i >= 1 /\ m \in ToSet(stack)
  <2>1. /\ \A j \in 1 .. Len(frames) : frames[j].m \in Module /\ frames[j].i \in Nat
        /\ \A j \in Inner(frames) : frames[j].m \in ToSet(stack) /\ frames[j].i >= 1
    <3>1. PICK g, F, K, d, a, n : /\ g = requests /\ F = frames /\ K = ToSet(stack)
                                  /\ d = DfsIndex /\ a = DfsAncestorIndex /\ n = index
      OBVIOUS
    <3>2. Tarjan(g, F, K, d, a, n, out)
      BY <3>1, <1>w
    <3>3. /\ \A j \in 1 .. Len(F) : F[j].m \in Module /\ F[j].i \in Nat
          /\ \A j \in Inner(F) : F[j].m \in K /\ F[j].i >= 1
      BY ONLY <3>2, WalkFacts
    <3> QED
      BY <3>1, <3>3
  <2> QED
    BY <2>1, <1>l, <1>0, <1>h
<1>r. r \in Module
  BY <1>t, <1>m, <1>0, <1>h
<1>f. /\ frames' \in Seq(FrameSet) /\ Len(frames') = Len(frames) /\ frames'[1] = Frame(inner, m, i + 1)
      /\ \A j \in 2 .. Len(frames) : frames'[j] = frames[j]
  <2>1. Frame(inner, m, i + 1) \in FrameSet
    BY <1>m DEF Frame, FrameSet, InnerNames
  <2>2. PICK F, t, e : F = frames /\ t = frames' /\ e = Frame(inner, m, i + 1)
    OBVIOUS
  <2>3. F \in Seq(FrameSet) /\ F # << >> /\ e \in FrameSet /\ t = <<e>> \o Tail(F)
    BY <2>1, <2>2, <1>t, <1>w, <1>0, <1>k
  <2>4. Tail(F) \in Seq(FrameSet) /\ Len(Tail(F)) = Len(F) - 1
        /\ \A j \in 1 .. Len(F) - 1 : Tail(F)[j] = F[j + 1]
    BY ONLY <2>3, SMTT(30)
  <2>5. PICK u : u = Tail(F)
    OBVIOUS
  <2>6. /\ t \in Seq(FrameSet) /\ Len(t) = Len(u) + 1 /\ t[1] = e
        /\ \A j \in 1 .. Len(u) : t[j + 1] = u[j]
    BY <2>3, <2>4, <2>5
  <2>7. ASSUME NEW j \in 2 .. Len(F) PROVE t[j] = F[j]
    <3>1. j - 1 \in 1 .. Len(F) - 1 /\ j - 1 \in 1 .. Len(u) /\ (j - 1) + 1 = j
      BY <2>3, <2>4, <2>5
    <3> QED
      BY ONLY <3>1, <2>4, <2>5, <2>6
  <2>8. Len(t) = Len(F)
    BY <2>3, <2>4, <2>5, <2>6
  <2> QED
    BY <2>2, <2>6, <2>7, <2>8
<1>g. frames'[1].m = m /\ frames'[1].i = i + 1 /\ frames'[1].fn = inner
  BY <1>f DEF Frame
<1>1. /\ HasStatus({st})' = HasStatus({st})
      /\ HasStatus({"Linking", "Evaluating"})' = HasStatus({"Linking", "Evaluating"})
  BY <1>x DEF HasStatus
<1>2. /\ DfsIndex' = DfsIndex /\ DfsAncestorIndex' \in [Module -> Nat]
      /\ \A x \in Module \ {m} : DfsAncestorIndex'[x] = DfsAncestorIndex[x]
  BY <1>m, <1>x DEF DfsIndex, DfsAncestorIndex, SameData, Records
<1>3. DfsAncestorIndex'[m] = md'[m].dfsAncestorIndex /\ DfsAncestorIndex[m] = md[m].dfsAncestorIndex
      /\ DfsAncestorIndex[r] = md[r].dfsAncestorIndex
  BY <1>m, <1>r DEF DfsAncestorIndex
<1>4. md[r].status = st <=> r \in ToSet(stack)
  BY <1>w, <1>r DEF HasStatus
<1>5. PICK F, K, d, a, n, F1, a1 :
         /\ F = frames /\ K = ToSet(stack) /\ d = DfsIndex /\ a = DfsAncestorIndex /\ n = index
         /\ F1 = frames' /\ a1 = DfsAncestorIndex'
  OBVIOUS
<1>6. PICK g : g = requests
  OBVIOUS
<1>7. PassesRequest(g, F, K, a, out, F1, a1)
  <2>1. F[1].m = m /\ F[1].i = i /\ g[m][i] = r
    BY <1>5, <1>6, <1>0, <1>h
  <2>2. /\ Len(F) > 1 /\ F[1].i <= Len(g[F[1].m])
        /\ F1 \in Seq(FrameSet) /\ Len(F1) = Len(F)
        /\ F1[1].m = F[1].m /\ F1[1].i = F[1].i + 1
        /\ \A j \in 2 .. Len(F) : F1[j] = F[j]
    BY <2>1, <1>5, <1>6, <1>0, <1>f, <1>g, <1>h
  <2>3. a1 \in [Module -> Nat] /\ \A x \in Module \ {F[1].m} : a1[x] = a[x]
    BY <2>1, <1>2, <1>5
  <2>4. \/ r \in K /\ ((a[r] < a[m] /\ a1[m] = a[r]) \/ (~ (a[r] < a[m]) /\ a1[m] = a[m]))
        \/ r \in out /\ r \notin K /\ a1[m] = a[m]
    BY <1>3, <1>4, <1>5, <1>j, <1>y
  <2> QED
    BY <2>1, <2>2, <2>3, <2>4 DEF PassesRequest
<1>8. Tarjan(g, F1, K, d, a1, n, out)
  <2>1. Tarjan(g, F, K, d, a, n, out)
    BY <1>5, <1>6, <1>w
  <2> QED
    BY ONLY <2>1, <1>7, WalkPasses
<1>9. Tarjan(requests, frames, ToSet(stack), DfsIndex, DfsAncestorIndex, index, out)'
  BY <1>8, <1>5, <1>6, <1>2, <1>u
<1>10. \A j \in Inner(frames)' : frames'[j].fn = inner
  <2> SUFFICES ASSUME NEW j \in Inner(frames)' PROVE frames'[j].fn = inner
    OBVIOUS
  <2>1. j \in Inner(frames) /\ (j = 1 \/ j \in 2 .. Len(frames))
    BY <1>f, <1>l DEF Inner
  <2> QED
    BY <2>1, <1>f, <1>g, <1>w
<1>11. frames'[Len(frames')] = frames[Len(frames)] /\ frames' # << >>
  BY <1>f, <1>l, <1>h
<1>12. Ordered(stack, DfsIndex)'
  BY <1>2, <1>w, <1>u
<1>13. Walking(outer, inner, st, out)'
  BY <1>1, <1>9, <1>10, <1>11, <1>12, <1>u, <1>w DEF Walking
<1> QED
  BY <1>11, <1>13, <1>f, <1>t, <1>u

\* The innermost call, for m, ends: m stays on the stack, or its cycle is popped.
Returns(out, m, out1) ==
    /\ Len(frames) > 1 /\ m = frames[1].m /\ Len(requests[m]) < frames[1].i
    /\ frames' = Tail(frames) /\ index' = index /\ call' = call /\ requests' = requests
    /\ SameData(Module)
    /\ \/ /\ md[m].dfsAncestorIndex # md[m].dfsIndex
          /\ stack' = stack /\ out1 = out
          /\ \A x \in Module : md'[x].status = md[x].status
       \/ /\ md[m].dfsAncestorIndex = md[m].dfsIndex
          /\ stack' = AfterPop(m) /\ out1 = out \union ToSet(Popped(m))
          /\ \A x \in ToSet(Popped(m)) : md'[x].status \notin WalkStatuses
          /\ \A x \in Module \ ToSet(Popped(m)) : md'[x].status = md[x].status

LEMMA ReturnWalks ==
  ASSUME Types, NEW outer, NEW inner \in InnerNames, NEW st \in WalkStatuses, NEW out,
         Walking(outer, inner, st, out), NEW m, NEW out1, Returns(out, m, out1)
  PROVE  /\ Walking(outer, inner, st, out1)' /\ Len(frames') = Len(frames) - 1
         /\ frames' \in Seq(FrameSet) /\ stack' \in Seq(Module) /\ index' \in Nat
         /\ frames'[Len(frames')] = frames[Len(frames)]
         /\ m \in ToSet(Popped(m)) /\ ToSet(Popped(m)) \subseteq ToSet(stack)
<1> USE DEF Returns
<1>t. /\ md \in [Module -> Records] /\ index \in Nat /\ frames \in Seq(FrameSet) /\ stack \in Seq(Module)
      /\ requests \in [Module -> Seq(Module)]
  BY DEF Types
<1>w. /\ frames # << >> /\ frames[Len(frames)].fn = outer /\ frames[Len(frames)].m = call.m
      /\ \A j \in Inner(frames) : frames[j].fn = inner
      /\ ToSet(stack) = HasStatus({st}) /\ ToSet(stack) = HasStatus({"Linking", "Evaluating"})
      /\ Ordered(stack, DfsIndex)
      /\ Tarjan(requests, frames, ToSet(stack), DfsIndex, DfsAncestorIndex, index, out)
  BY DEF Walking
<1>l. Len(frames) \in Nat /\ 1 \in Inner(frames)
  BY <1>t DEF Inner
<1>0. PICK F, K, d, a, n, F1 :
         /\ F = frames /\ K = ToSet(stack) /\ d = DfsIndex /\ a = DfsAncestorIndex /\ n = index
         /\ F1 = frames'
  OBVIOUS
<1>g. PICK g : g = requests
  OBVIOUS
<1>T. Tarjan(g, F, K, d, a, n, out)
  BY <1>0, <1>g, <1>w
<1>m. m \in K /\ m \in Module /\ d \in [Module -> Nat]
  <2>1. /\ \A j \in Inner(F) : F[j].m \in K
        /\ \A x \in K : x \in Module
    BY ONLY <1>T, WalkFacts
  <2>2. d \in [Module -> Nat]
    BY ONLY <1>T DEF Tarjan, WalkTypes
  <2> QED
    BY <2>1, <2>2, <1>0, <1>l
<1>f. /\ F1 \in Seq(FrameSet) /\ Len(F1) = Len(F) - 1
      /\ \A j \in 1 .. Len(F1) : F1[j] = F[j + 1]
  <2>1. F \in Seq(FrameSet) /\ F # << >> /\ F1 = Tail(F)
    BY <1>0, <1>t, <1>w
  <2>2. Tail(F) \in Seq(FrameSet) /\ Len(Tail(F)) = Len(F) - 1
        /\ \A j \in 1 .. Len(F) - 1 : Tail(F)[j] = F[j + 1]
    BY ONLY <2>1, SMTT(30)
  <2> QED
    BY <2>1, <2>2
<1>e. EndsCall(g, F, F1)
  BY <1>f, <1>0, <1>g DEF EndsCall
<1>p. /\ ToSet(Popped(m)) = Segment(K, d, m)
      /\ AfterPop(m) \in Seq(Module) /\ ToSet(AfterPop(m)) = K \ Segment(K, d, m)
      /\ Ordered(AfterPop(m), d)
  <2>1. Ordered(stack, d) /\ m \in ToSet(stack)
    BY <1>0, <1>w, <1>m
  <2> QED
    BY <2>1, <1>0, <1>t, <1>m, PoppedSegment
<1>s. m \in ToSet(Popped(m)) /\ ToSet(Popped(m)) \subseteq ToSet(stack)
  BY <1>p, <1>m, <1>0 DEF Segment
<1>d. DfsIndex' = DfsIndex /\ DfsAncestorIndex' = DfsAncestorIndex
  BY DEF DfsIndex, DfsAncestorIndex, SameData
<1>a. a[m] = md[m].dfsAncestorIndex /\ d[m] = md[m].dfsIndex
  BY <1>0, <1>m DEF DfsIndex, DfsAncestorIndex
<1>1. /\ Tarjan(g, F1, ToSet(stack'), d, a, n, out1) /\ Ordered(stack', d) /\ stack' \in Seq(Module)
      /\ ToSet(stack') = HasStatus({st})' /\ ToSet(stack') = HasStatus({"Linking", "Evaluating"})'
  <2>1. CASE /\ md[m].dfsAncestorIndex # md[m].dfsIndex
             /\ stack' = stack /\ out1 = out
             /\ \A x \in Module : md'[x].status = md[x].status
    <3>1. a[F[1].m] # d[F[1].m]
      BY <2>1, <1>a, <1>0
    <3>2. Tarjan(g, F1, K, d, a, n, out)
      BY ONLY <1>T, <1>e, <3>1, WalkReturns
    <3>3. /\ HasStatus({st})' = HasStatus({st})
          /\ HasStatus({"Linking", "Evaluating"})' = HasStatus({"Linking", "Evaluating"})
      BY <2>1 DEF HasStatus
    <3> QED
      BY <2>1, <3>2, <3>3, <1>0, <1>w, <1>t
  <2>2. CASE /\ md[m].dfsAncestorIndex = md[m].dfsIndex
             /\ stack' = AfterPop(m) /\ out1 = out \union ToSet(Popped(m))
             /\ \A x \in ToSet(Popped(m)) : md'[x].status \notin WalkStatuses
             /\ \A x \in Module \ ToSet(Popped(m)) : md'[x].status = md[x].status
    <3>1. a[F[1].m] = d[F[1].m] /\ F[1].m = m
      BY <2>2, <1>a, <1>0
    <3>2. PICK K1 : K1 = K \ Segment(K, d, m)
      OBVIOUS
    <3>3. K1 = K \ Segment(K, d, F[1].m) /\ out1 = out \union Segment(K, d, F[1].m)
      BY <3>1, <3>2, <2>2, <1>p
    <3>4. Tarjan(g, F1, K1, d, a, n, out1)
      BY ONLY <1>T, <1>e, <3>1, <3>3, WalkPops
    <3>5. ToSet(stack') = K1
      BY <2>2, <3>2, <1>p
    <3>6. \A x \in Module : x \in HasStatus({st})' <=> (x \in HasStatus({st}) /\ x \notin ToSet(Popped(m)))
      BY <2>2 DEF HasStatus, WalkStatuses
    <3>7. \A x \in Module : x \in HasStatus({"Linking", "Evaluating"})' <=>
                (x \in HasStatus({"Linking", "Evaluating"}) /\ x \notin ToSet(Popped(m)))
      BY <2>2 DEF HasStatus, WalkStatuses
    <3>8. HasStatus({st})' \subseteq Module /\ HasStatus({"Linking", "Evaluating"})' \subseteq Module
          /\ HasStatus({st}) \subseteq Module /\ HasStatus({"Linking", "Evaluating"}) \subseteq Module
      BY DEF HasStatus
    <3>9. /\ ToSet(stack') = HasStatus({st}) \ ToSet(Popped(m))
          /\ ToSet(stack') = HasStatus({"Linking", "Evaluating"}) \ ToSet(Popped(m))
      BY <3>2, <3>5, <1>p, <1>0, <1>w
    <3>10. ToSet(stack') = HasStatus({st})'
      BY ONLY <3>6, <3>8, <3>9
    <3>11. ToSet(stack') = HasStatus({"Linking", "Evaluating"})'
      BY ONLY <3>7, <3>8, <3>9
    <3> QED
      BY <3>4, <3>5, <3>10, <3>11, <2>2, <1>p
  <2> QED
    BY <2>1, <2>2
<1>2. Tarjan(requests, frames, ToSet(stack), DfsIndex, DfsAncestorIndex, index, out1)'
  BY <1>1, <1>0, <1>g, <1>d
<1>3. Len(F) \in Nat /\ Len(F) > 1
  BY <1>0, <1>l
<1>4. frames'[Len(frames')] = frames[Len(frames)] /\ frames' # << >>
  <2>1. Len(F1) \in 1 .. Len(F1) /\ Len(F1) + 1 = Len(F)
    BY <1>3, <1>f
  <2>2. F1[Len(F1)] = F[Len(F)] /\ F1 # << >>
    BY <2>1, <1>f
  <2> QED
    BY <2>2, <1>0
<1>5. \A j \in Inner(frames)' : frames'[j].fn = inner
  <2> SUFFICES ASSUME NEW j \in Inner(frames)' PROVE frames'[j].fn = inner
    OBVIOUS
  <2>1. j \in Inner(F1)
    BY <1>0 DEF Inner
  <2>2. j \in 1 .. Len(F1) /\ j + 1 \in Inner(F)
    BY <2>1, <1>3, <1>f DEF Inner
  <2> QED
    BY <2>2, <1>f, <1>0, <1>w
<1>6. Ordered(stack, DfsIndex)'
  BY <1>1, <1>d, <1>0
<1>7. Walking(outer, inner, st, out1)'
  BY <1>1, <1>2, <1>4, <1>5, <1>6, <1>w DEF Walking
<1> QED
  BY <1>1, <1>4, <1>7, <1>f, <1>0, <1>s, <1>t

\* Below the module of the innermost call are the other calls.
LEMMA SegmentLeft ==
  ASSUME NEW g, NEW F, NEW K, NEW d, NEW a, NEW n, NEW out, Tarjan(g, F, K, d, a, n, out),
         Len(F) > 1, NEW x \in Segment(K, d, F[1].m), x # F[1].m, NEW j \in Inner(F)
  PROVE  F[j].m # x
<1>1. /\ Inner(F) \subseteq Nat \ {0} /\ Len(F) \in Nat
      /\ \A y \in K : d[y] \in Nat
      /\ \A k \in Inner(F) : F[k].m \in K
  BY WalkFacts
<1>2. 1 \in Inner(F)
  BY <1>1 DEF Inner
<1>3. CASE j = 1
  BY <1>3
<1>4. CASE j # 1
  <2>1. 1 < j
    BY <1>1, <1>4
  <2>2. d[F[j].m] < d[F[1].m]
    BY <1>2, <2>1 DEF Tarjan, Indices
  <2>3. d[F[1].m] <= d[x] /\ x \in K
    BY DEF Segment
  <2> QED
    BY <2>2, <2>3, <1>1, <1>2
<1> QED
  BY <1>3, <1>4

\* A walk that has only been started.
LEMMA WalkStarts ==
  ASSUME NEW g \in [Module -> Seq(Module)], NEW F \in Seq(FrameSet), Len(F) = 1,
         NEW d \in [Module -> Nat], NEW a \in [Module -> Nat], NEW n \in Nat, NEW out, out \subseteq Module
  PROVE  Tarjan(g, F, {}, d, a, n, out)
<1>1. Inner(F) = {}
  BY DEF Inner
<1>2. F # << >>
  <2>1. SUFFICES ASSUME F = << >> PROVE FALSE
    OBVIOUS
  <2>2. Len(F) = 0
    BY ONLY <2>1
  <2> QED
    BY <2>2
<1> QED
  BY <1>1, <1>2 DEF Tarjan, WalkTypes, Indices, Calls, Bottom, Looked, Lowest, Left, Paths

-----------------------------------------------------------------------------
(* Module data                                                              *)

\* The fields the invariant is about are those of data.
Like(data) ==
    /\ md' \in [Module -> Records]
    /\ \A x \in Module :
          /\ md'[x].status = data[x].status /\ md'[x].record = data[x].record
          /\ md'[x].cycleRoot = data[x].cycleRoot /\ md'[x].error = data[x].error
          /\ md'[x].dfsIndex = data[x].dfsIndex /\ md'[x].dfsAncestorIndex = data[x].dfsAncestorIndex

LEMMA SettledType ==
  ASSUME imports \in Seq(ImportSet), NEW ps, NEW st \in {"queued", "waiting", "fulfilled", "rejected"}
  PROVE  Settled(ps, st) \in Seq(ImportSet)
<1>1. \A p \in DOMAIN imports : imports[p] \in ImportSet
  OBVIOUS
<1>2. \A p \in DOMAIN imports : [imports[p] EXCEPT !.state = st] \in ImportSet
  BY <1>1 DEF ImportSet
<1>3. DOMAIN imports = 1 .. Len(imports) /\ Len(imports) \in Nat
  OBVIOUS
<1>4. Settled(ps, st) \in [1 .. Len(imports) -> ImportSet]
  BY <1>1, <1>2, <1>3 DEF Settled
<1> QED
  BY <1>3, <1>4, SeqDef

LEMMA ImportReturnsData ==
  ASSUME imports \in Seq(ImportSet), NEW data \in [Module -> Records], NEW m \in Module, NEW p \in Nat,
         ImportReturns(m, p, data)
  PROVE  Like(data) /\ imports' \in Seq(ImportSet)
<1>1. CASE data[m].asyncEvaluating
  <2>1. /\ md' = [data EXCEPT ![m].asyncPendingPromises = Append(@, p)]
        /\ imports' = Settled({p}, "waiting")
    BY <1>1 DEF ImportReturns
  <2>2. data[m] \in Records /\ data[m].asyncPendingPromises \in Seq(Nat)
    BY DEF Records
  <2>3. PICK q : q = Append(data[m].asyncPendingPromises, p)
    OBVIOUS
  <2>4. q \in Seq(Nat)
    BY <2>2, <2>3
  <2>5. PICK e : e = [data[m] EXCEPT !.asyncPendingPromises = q]
    OBVIOUS
  <2>6. /\ e \in Records
        /\ e.status = data[m].status /\ e.record = data[m].record /\ e.cycleRoot = data[m].cycleRoot
        /\ e.error = data[m].error /\ e.dfsIndex = data[m].dfsIndex
        /\ e.dfsAncestorIndex = data[m].dfsAncestorIndex
    BY <2>2, <2>4, <2>5 DEF Records
  <2>7. md' = [data EXCEPT ![m] = e]
    BY <2>1, <2>3, <2>5
  <2>8. Like(data)
    BY <2>6, <2>7 DEF Like
  <2> QED
    BY <2>1, <2>8, SettledType
<1>2. CASE ~ data[m].asyncEvaluating
  <2>1. md' = data /\ imports' = Settled({p}, "fulfilled")
    BY <1>2 DEF ImportReturns
  <2> QED
    BY <2>1, SettledType DEF Like
<1> QED
  BY <1>1, <1>2

\* What is left when a call of the host or of an import() has ended.
CallOver ==
    /\ frames' = << >> /\ stack' = << >> /\ index' = 0 /\ call' \in CallSet
    /\ imports' \in Seq(ImportSet)

LEMMA CallReturnsData ==
  ASSUME imports \in Seq(ImportSet), call \in CallSet, call.m \in Module,
         NEW data \in [Module -> Records], CallReturns(data)
  PROVE  Like(data) /\ CallOver
<1>1. frames' = << >> /\ stack' = << >> /\ index' = 0 /\ call' = NoCall
  BY DEF CallReturns
<1>2. call' \in CallSet
  BY <1>1 DEF NoCall, CallSet
<1>3. CASE call.op = "import"
  <2>1. ImportReturns(call.m, call.p, data)
    BY <1>3 DEF CallReturns
  <2>2. PICK m, p : m = call.m /\ p = call.p
    OBVIOUS
  <2>3. ImportReturns(m, p, data) /\ m \in Module /\ p \in Nat
    BY <2>1, <2>2 DEF CallSet
  <2>4. Like(data) /\ imports' \in Seq(ImportSet)
    BY <2>3, ImportReturnsData
  <2> QED
    BY <1>1, <1>2, <2>4 DEF CallOver
<1>4. CASE call.op # "import"
  <2>1. md' = data /\ imports' = imports
    BY <1>4 DEF CallReturns
  <2> QED
    BY <1>1, <1>2, <2>1 DEF CallOver, Like
<1> QED
  BY <1>3, <1>4

LEMMA CallThrowsData ==
  ASSUME imports \in Seq(ImportSet), NEW data \in [Module -> Records], CallThrows(data)
  PROVE  md' = data /\ Like(data) /\ CallOver
<1>1. frames' = << >> /\ stack' = << >> /\ index' = 0 /\ call' = NoCall /\ md' = data
  BY DEF CallThrows
<1>2. call' \in CallSet
  BY <1>1 DEF NoCall, CallSet
<1>3. imports' = IF call.op = "import" THEN Settled({call.p}, "rejected") ELSE imports
  BY DEF CallThrows
<1>4. imports' \in Seq(ImportSet)
  BY <1>3, SettledType
<1> QED
  BY <1>1, <1>2, <1>4 DEF CallOver, Like

\* No module is evaluated, and no cycle found, by the step.
SameRoots ==
    /\ requests' = requests /\ kind' = kind /\ found' = found
    /\ \A x \in Module :
          /\ md'[x].status = "Evaluated" <=> md[x].status = "Evaluated"
          /\ md'[x].cycleRoot = md[x].cycleRoot \/ (md'[x].status = "Evaluated" /\ md'[x].cycleRoot = x)
          /\ md[x].error => md'[x].error

LEMMA RootsStay ==
  ASSUME RootsFound, SameRoots
  PROVE  RootsFound' /\ Complete' = Complete
<1>1. \A x \in Module : x \in Complete' <=> x \in Complete
  BY DEF Complete, HasStatus, SameRoots
<1>2. Complete' \subseteq Module /\ Complete \subseteq Module
  BY DEF Complete, HasStatus
<1>3. Complete' = Complete
  BY ONLY <1>1, <1>2
<1>4. \A m \in Module : found'[m] # None =>
        md'[m].status = "Evaluated" \/ (kind'[m] = "json" /\ found'[m] = m)
  BY DEF RootsFound, SameRoots
<1>5. \A m \in Module : md'[m].status = "Evaluated" /\ ~ md'[m].error => found'[m] # None
  BY DEF RootsFound, SameRoots
<1>6. \A m \in Complete' : \A k \in 1 .. Len(requests'[m]) : requests'[m][k] \in Complete'
  BY <1>3 DEF RootsFound, SameRoots
<1>7. \A m \in Complete' : SameCycle(m, found[m])'
  BY <1>3, <1>2 DEF RootsFound, SameRoots, SameCycle, Reaches
<1>8. \A m, r \in Complete' : SameCycle(m, r)' => found'[m] = found'[r]
  BY <1>3, <1>2 DEF RootsFound, SameRoots, SameCycle, Reaches
<1>9. RootsKnown'
  BY DEF RootsFound, RootsKnown, SameRoots
<1> QED
  BY <1>3, <1>4, <1>5, <1>6, <1>7, <1>8, <1>9 DEF RootsFound

\* Nor is one linked.
SameFindings ==
    /\ SameRoots
    /\ \A x \in Module :
          /\ md'[x].status \in {"Linked", "Evaluating", "Evaluated"} <=> md[x].status \in {"Linked", "Evaluating", "Evaluated"}
          /\ md[x].status \in {"Linked", "Evaluating", "Evaluated"} => md'[x].record = md[x].record

LEMMA FindingsKept ==
  ASSUME RootsFound, LinkedFound, SameFindings
  PROVE  RootsFound' /\ LinkedFound' /\ LinkedOrMore' = LinkedOrMore /\ Complete' = Complete
<1>1. \A x \in Module : x \in LinkedOrMore' <=> x \in LinkedOrMore
  BY DEF LinkedOrMore, HasStatus, SameFindings
<1>2. LinkedOrMore' \subseteq Module /\ LinkedOrMore \subseteq Module
  BY DEF LinkedOrMore, HasStatus
<1>3. LinkedOrMore' = LinkedOrMore
  BY ONLY <1>1, <1>2
<1>4. \A x \in Module : x \in LinkedOrMore => md[x].status \in {"Linked", "Evaluating", "Evaluated"}
  BY DEF LinkedOrMore, HasStatus
<1>5. LinkedFound'
  BY <1>2, <1>3, <1>4 DEF LinkedFound, SameFindings, SameRoots
<1> QED
  BY <1>3, <1>5, RootsStay DEF SameFindings

-----------------------------------------------------------------------------
(* Which stage a step belongs to                                            *)

LEMMA TopIsFirst ==
  ASSUME frames \in Seq(FrameSet), frames # << >>
  PROVE  /\ Top = frames[1] /\ Top \in FrameSet /\ Top.m \in Module /\ Top.i \in Nat
         /\ Len(frames) \in Nat /\ Len(frames) >= 1
<1>1. Top = frames[1] /\ Top \in FrameSet /\ Len(frames) \in Nat /\ Len(frames) >= 1
  BY DEF Top
<1> QED
  BY <1>1 DEF FrameSet

LEMMA StageOf ==
  ASSUME Types, Stages, NEW f, In(f)
  PROVE  /\ f = "moduleLinking" => InLinking /\ Len(frames) = 1
         /\ f = "innerModuleLinking" => InLinking /\ Len(frames) > 1
         /\ f = "moduleEvaluation" => InEvaluation /\ Len(frames) = 1
         /\ f = "innerModuleEvaluation" => InEvaluation /\ Len(frames) > 1
         /\ f \in {"asyncModuleFulfilled", "asyncModuleRejected"} => NoWalk
<1>1. frames \in Seq(FrameSet) /\ frames # << >> /\ Top.fn = f
  BY DEF Types, In
<1>2. frames[1].fn = f /\ Len(frames) \in Nat /\ Len(frames) >= 1
  BY <1>1, TopIsFirst
<1>3. NoWalk => f \in {"asyncModuleFulfilled", "asyncModuleRejected"}
  BY <1>2 DEF NoWalk
<1>4. ASSUME NEW outer, NEW inner, NEW st, NEW out, Walking(outer, inner, st, out)
      PROVE  (Len(frames) = 1 /\ f = outer) \/ (Len(frames) > 1 /\ f = inner)
  <2>1. CASE Len(frames) = 1
    BY <2>1, <1>2, <1>4 DEF Walking
  <2>2. CASE Len(frames) # 1
    <3>1. PICK n : n = Len(frames)
      OBVIOUS
    <3>2. n \in Nat /\ n >= 1 /\ n # 1
      BY <3>1, <2>2, <1>2
    <3>3. n > 1 /\ 1 \in 1 .. n - 1
      BY ONLY <3>2
    <3>4. Len(frames) > 1 /\ 1 \in Inner(frames)
      BY <3>1, <3>3 DEF Inner
    <3>5. frames[1].fn = inner
      BY <3>4, <1>4 DEF Walking
    <3> QED
      BY <3>4, <3>5, <1>2
  <2> QED
    BY <2>1, <2>2
<1>5. InLinking => (Len(frames) = 1 /\ f = "moduleLinking") \/ (Len(frames) > 1 /\ f = "innerModuleLinking")
  BY <1>4 DEF InLinking
<1>6. InEvaluation => (Len(frames) = 1 /\ f = "moduleEvaluation") \/ (Len(frames) > 1 /\ f = "innerModuleEvaluation")
  BY <1>4 DEF InEvaluation
<1> QED
  BY <1>3, <1>5, <1>6 DEF Stages

\* A call that is over leaves nothing half way.
LEMMA OverIsNoWalk ==
  ASSUME CallOver, \A x \in Module : md'[x].status \notin WalkStatuses
  PROVE  NoWalk'
<1>1. HasStatus({"Linking", "Evaluating"})' = {}
  BY DEF HasStatus, WalkStatuses
<1>2. frames' = << >> /\ stack' = << >>
  BY DEF CallOver
<1>3. \A j \in 1 .. Len(frames') : frames'[j].fn \in {"asyncModuleFulfilled", "asyncModuleRejected"}
  BY <1>2
<1> QED
  BY <1>1, <1>2, <1>3 DEF NoWalk

LEMMA OverTypes ==
  ASSUME Types, CallOver, md' \in [Module -> Records], requests' = requests, kind' = kind, jobs' = jobs
  PROVE  Types'
  BY DEF Types, CallOver

\* A walk with only its first call has nothing on its stack.
LEMMA OnlyStarted ==
  ASSUME Types, NEW outer, NEW inner, NEW st, NEW out, Walking(outer, inner, st, out), Len(frames) = 1
  PROVE  /\ ToSet(stack) = {} /\ Top.m = call.m /\ frames[1].m = call.m /\ call.m \in Module
         /\ \A x \in Module : md[x].status \notin WalkStatuses
<1>1. ToSet(stack) = {}
  BY DEF Walking, Tarjan, Bottom
<1>2. HasStatus({"Linking", "Evaluating"}) = {}
  BY <1>1 DEF Walking
<1>3. \A x \in Module : md[x].status \notin WalkStatuses
  BY <1>2 DEF HasStatus, WalkStatuses
<1>4. Top = frames[1] /\ Top.m \in Module
  BY TopIsFirst DEF Types, Walking
<1> QED
  BY <1>1, <1>3, <1>4 DEF Walking

\* The module of an inner call.
LEMMA InnerCall ==
  ASSUME Types, NEW outer, NEW inner, NEW st, NEW out, Walking(outer, inner, st, out), Len(frames) > 1
  PROVE  /\ Top = frames[1] /\ Top.m \in Module /\ Top.i \in Nat /\ Top.i >= 1 /\ Top.fn = inner
         /\ Top.m \in ToSet(stack) /\ md[Top.m].status = st /\ call.m \in Module
         /\ requests[Top.m] \in Seq(Module) /\ Len(requests[Top.m]) \in Nat
<1>1. frames \in Seq(FrameSet) /\ frames # << >> /\ requests \in [Module -> Seq(Module)]
  BY DEF Types, Walking
<1>2. Top = frames[1] /\ Top.m \in Module /\ Top.i \in Nat /\ Len(frames) \in Nat
  BY <1>1, TopIsFirst
<1>3. 1 \in Inner(frames)
  BY <1>2 DEF Inner
<1>4. Top.i >= 1 /\ Top.fn = inner /\ Top.m \in ToSet(stack)
  BY <1>2, <1>3 DEF Walking, Tarjan, Indices
<1>5. md[Top.m].status = st
  BY <1>4, <1>2 DEF Walking, HasStatus
<1>6. call.m \in Module
  <2>1. frames[Len(frames)] \in FrameSet
    BY <1>1, <1>2
  <2> QED
    BY <2>1 DEF Walking, FrameSet
<1> QED
  BY <1>1, <1>2, <1>4, <1>5, <1>6

\* A walk begins with the call of moduleLinking or of moduleEvaluation.
LEMMA WalkBegins ==
  ASSUME Types, \A x \in Module : md[x].status \notin WalkStatuses,
         NEW outer \in {"moduleLinking", "moduleEvaluation"}, NEW inner, NEW st \in WalkStatuses,
         NEW i \in Nat, NEW out, out \subseteq Module,
         call'.m \in Module, frames' = <<Frame(outer, call'.m, i)>>, index' = 0, stack' = << >>,
         md' = md, requests' = requests
  PROVE  /\ Walking(outer, inner, st, out)' /\ frames' \in Seq(FrameSet) /\ Len(frames') = 1
         /\ frames'[Len(frames')].i = i
<1>1. /\ frames' \in Seq(FrameSet) /\ Len(frames') = 1 /\ frames'[1] = Frame(outer, call'.m, i)
      /\ frames' # << >>
  <2>1. Frame(outer, call'.m, i) \in FrameSet
    BY DEF Frame, FrameSet
  <2> QED
    BY <2>1
<1>2. ToSet(stack') = {}
  BY DEF ToSet
<1>3. HasStatus({st})' = {} /\ HasStatus({"Linking", "Evaluating"})' = {}
  BY DEF HasStatus, WalkStatuses
<1>4. Ordered(stack, DfsIndex)'
  BY DEF Ordered
<1>5. Tarjan(requests, frames, ToSet(stack), DfsIndex, DfsAncestorIndex, index, out)'
  <2>1. PICK g, F, d, a : g = requests' /\ F = frames' /\ d = DfsIndex' /\ a = DfsAncestorIndex'
    OBVIOUS
  <2>2. DfsIndex' \in [Module -> Nat] /\ DfsAncestorIndex' \in [Module -> Nat]
        /\ requests' \in [Module -> Seq(Module)]
    BY DEF DfsIndex, DfsAncestorIndex, Records, Types
  <2>3. /\ g \in [Module -> Seq(Module)] /\ F \in Seq(FrameSet) /\ Len(F) = 1
        /\ d \in [Module -> Nat] /\ a \in [Module -> Nat] /\ out \subseteq Module /\ 0 \in Nat
    BY <2>1, <2>2, <1>1
  <2>4. Tarjan(g, F, {}, d, a, 0, out)
    BY ONLY <2>3, WalkStarts
  <2> QED
    BY <2>1, <2>4, <1>2
<1>6. \A j \in Inner(frames)' : frames'[j].fn = inner
  BY <1>1 DEF Inner
<1>7. frames'[Len(frames')].fn = outer /\ frames'[Len(frames')].m = call'.m /\ frames'[Len(frames')].i = i
  BY <1>1 DEF Frame
<1> QED
  BY <1>1, <1>2, <1>3, <1>4, <1>5, <1>6, <1>7 DEF Walking

-----------------------------------------------------------------------------
(* Linking                                                                  *)

\* One step of the walk of moduleLinking that links nothing.
LEMMA LinkingEnters ==
  ASSUME ModulesInv, InLinking, NEW m \in Module, md[m].status = "Unlinked",
         \/ Len(frames) = 1 /\ frames[1].m = m
         \/ /\ Len(frames) > 1 /\ frames[1].i <= Len(requests[frames[1].m])
            /\ requests[frames[1].m][frames[1].i] = m,
         Enter("innerModuleLinking", m, "Linking"),
         UNCHANGED <<scenario, found, jobs, call, imports>>
  PROVE  ModulesInv'
<1>t. Types /\ RootsFound /\ LinkedFound
  BY DEF ModulesInv
<1>u. requests' = requests /\ kind' = kind /\ jobs' = jobs /\ call' = call /\ imports' = imports /\ found' = found
  BY DEF scenario
<1>c. "innerModuleLinking" \in InnerNames /\ "Linking" \in WalkStatuses /\ md[m].status \notin WalkStatuses
  BY DEF InnerNames, WalkStatuses
<1>d. /\ md' \in [Module -> Records]
      /\ md'[m].status = "Linking" /\ md'[m].record = md[m].record /\ md'[m].cycleRoot = md[m].cycleRoot
      /\ md'[m].error = md[m].error
      /\ \A x \in Module \ {m} : md'[x] = md[x]
  <2>1. md \in [Module -> Records] /\ index \in Nat
    BY <1>t DEF Types
  <2> QED
    BY <2>1, <1>c, EnterData
<1>f. RootsFound' /\ LinkedFound' /\ LinkedOrMore' = LinkedOrMore
  <2>1. SameFindings
    BY <1>d, <1>u DEF SameFindings, SameRoots
  <2> QED
    BY <2>1, <1>t, FindingsKept
<1>w. PICK out : out = LinkedOrMore
  OBVIOUS
<1>1. Walking("moduleLinking", "innerModuleLinking", "Linking", out)
  BY <1>w DEF InLinking
<1>2. /\ Walking("moduleLinking", "innerModuleLinking", "Linking", out)' /\ Len(frames') > 1
      /\ frames' \in Seq(FrameSet) /\ stack' \in Seq(Module) /\ index' \in Nat
  BY <1>1, <1>t, <1>c, <1>u, EnterWalks
<1>3. Walking("moduleLinking", "innerModuleLinking", "Linking", LinkedOrMore)'
  BY <1>2, <1>w, <1>f
<1>4. call.m \in Module
  <2>1. CASE Len(frames) = 1
    BY <2>1, <1>1, <1>t, OnlyStarted
  <2>2. CASE Len(frames) > 1
    BY <2>2, <1>1, <1>t, InnerCall
  <2> QED
    BY <2>1, <2>2
<1>5. call'.op # "instantiate" => md'[call'.m].status # "Evaluated"
  BY <1>4, <1>u, <1>d DEF InLinking
<1>6. \A x \in ToSet(stack') : (\A j \in Inner(frames') : frames'[j].m # x) => md'[x].record
  <2> SUFFICES ASSUME NEW x \in ToSet(stack'), \A j \in Inner(frames') : frames'[j].m # x
               PROVE  md'[x].record
    OBVIOUS
  <2>1. /\ frames \in Seq(FrameSet) /\ stack \in Seq(Module)
        /\ stack' = <<m>> \o stack /\ frames' = <<Frame("innerModuleLinking", m, 1)>> \o frames
    BY <1>t DEF Types, Enter
  <2>2. /\ Len(frames') = Len(frames) + 1 /\ frames'[1] = Frame("innerModuleLinking", m, 1)
        /\ \A j \in 1 .. Len(frames) : frames'[j + 1] = frames[j]
        /\ Len(stack') = Len(stack) + 1 /\ stack'[1] = m
        /\ \A j \in 1 .. Len(stack) : stack'[j + 1] = stack[j]
        /\ Len(frames) \in Nat /\ Len(stack) \in Nat
    BY <2>1
  <2>3. x # m
    <3>1. 1 \in Inner(frames') /\ frames'[1].m = m
      BY <2>2, <1>2 DEF Inner, Frame
    <3> QED
      BY <3>1
  <2>4. \A j \in Inner(frames) : frames[j].m # x
    <3>1. \A j \in Inner(frames) : j + 1 \in Inner(frames') /\ frames'[j + 1] = frames[j]
      BY <2>2 DEF Inner
    <3> QED
      BY <3>1
  <2>5. x \in Module /\ x \in ToSet(stack)
    <3>1. x \in Module /\ md'[x].status = "Linking"
      BY <1>2 DEF Walking, HasStatus
    <3>2. md[x].status = "Linking"
      BY <3>1, <2>3, <1>d
    <3> QED
      BY <3>1, <3>2, <1>1 DEF Walking, HasStatus
  <2> QED
    BY <2>3, <2>4, <2>5, <1>d DEF InLinking
<1>7. InLinking'
  BY <1>3, <1>5, <1>6 DEF InLinking
<1>8. Types'
  BY <1>t, <1>u, <1>d, <1>2 DEF Types
<1> QED
  BY <1>7, <1>8, <1>f DEF ModulesInv, Stages

LEMMA LinkCallKeeps ==
  ASSUME ModulesInv, LinkCall
  PROVE  ModulesInv'
<1>t. Types /\ RootsFound /\ LinkedFound /\ In("moduleLinking")
  BY DEF ModulesInv, LinkCall
<1>s. InLinking /\ Len(frames) = 1
  BY <1>t, StageOf DEF ModulesInv
<1>w. PICK out : out = LinkedOrMore
  OBVIOUS
<1>1. Walking("moduleLinking", "innerModuleLinking", "Linking", out)
  BY <1>s, <1>w DEF InLinking
<1>2. /\ ToSet(stack) = {} /\ Top.m = call.m /\ frames[1].m = call.m /\ call.m \in Module
      /\ \A x \in Module : md[x].status \notin WalkStatuses
  BY <1>1, <1>s, <1>t, OnlyStarted
<1>u. requests' = requests /\ kind' = kind /\ jobs' = jobs /\ UNCHANGED <<scenario, found>>
  BY DEF LinkCall, env, scenario, history
<1>y. md \in [Module -> Records] /\ imports \in Seq(ImportSet) /\ call \in CallSet
  BY <1>t DEF Types
<1>z. md[call.m].status \in Statuses
  BY <1>2, <1>y DEF Records
<1>3. CASE NeedsLink(Top.m)
  <2>1. md[call.m].status = "Unlinked"
    <3>1. md[call.m].status \notin {"Linking", "Linked", "Evaluated"}
      BY <1>3, <1>2 DEF NeedsLink
    <3> QED
      BY <3>1, <1>2, <1>z DEF Statuses, WalkStatuses
  <2>2. Enter("innerModuleLinking", call.m, "Linking") /\ UNCHANGED <<call, imports>>
    BY <1>2, <1>3 DEF LinkCall
  <2>3. PICK m : m = call.m
    OBVIOUS
  <2>4. /\ m \in Module /\ md[m].status = "Unlinked" /\ Len(frames) = 1 /\ frames[1].m = m
        /\ Enter("innerModuleLinking", m, "Linking") /\ UNCHANGED <<scenario, found, jobs, call, imports>>
    BY <2>1, <2>2, <2>3, <1>2, <1>s, <1>u
  <2> QED
    BY <2>4, <1>s, LinkingEnters
<1>4. CASE ~ NeedsLink(Top.m) /\ call.op = "instantiate"
  <2>1. CallReturns(md)
    BY <1>4 DEF LinkCall
  <2>2. Like(md) /\ CallOver
    BY <2>1, <1>2, <1>y, CallReturnsData
  <2>3. NoWalk'
    BY <2>2, <1>2, OverIsNoWalk DEF Like
  <2>4. Types'
    BY <2>2, <1>t, <1>u, OverTypes DEF Like
  <2>5. SameFindings
    BY <2>2, <1>u DEF SameFindings, SameRoots, Like
  <2> QED
    BY <2>3, <2>4, <2>5, <1>t, FindingsKept DEF ModulesInv, Stages
<1>5. CASE ~ NeedsLink(Top.m) /\ call.op # "instantiate"
  <2>1. /\ frames' = <<Frame("moduleEvaluation", call.m, 0)>> /\ index' = 0 /\ stack' = << >>
        /\ md' = md /\ call' = call /\ imports' = imports
    BY <1>5, <1>2 DEF LinkCall
  <2>2. PICK o : o = Complete
    OBVIOUS
  <2>3. /\ Walking("moduleEvaluation", "innerModuleEvaluation", "Evaluating", o)'
        /\ frames' \in Seq(FrameSet) /\ Len(frames') = 1 /\ frames'[Len(frames')].i = 0
    <3>1. o \subseteq Module /\ "Evaluating" \in WalkStatuses
      BY <2>2 DEF Complete, HasStatus, WalkStatuses
    <3>2. frames' = <<Frame("moduleEvaluation", call'.m, 0)>> /\ call'.m \in Module /\ 0 \in Nat
      BY <2>1, <1>2
    <3> QED
      BY <3>1, <3>2, <2>1, <1>2, <1>t, <1>u, WalkBegins
  <2>4. SameFindings
    BY <2>1, <1>u DEF SameFindings, SameRoots
  <2>5. RootsFound' /\ LinkedFound' /\ LinkedOrMore' = LinkedOrMore /\ Complete' = Complete
    BY <2>4, <1>t, FindingsKept
  <2>6. Walking("moduleEvaluation", "innerModuleEvaluation", "Evaluating", Complete)'
    BY <2>2, <2>3, <2>5
  <2>7. Types'
    BY <2>1, <2>3, <1>t, <1>u DEF Types
  <2>8. call.m \in LinkedOrMore
    <3>1. md[call.m].status \in {"Linking", "Linked", "Evaluated"}
      BY <1>5, <1>2 DEF NeedsLink
    <3> QED
      BY <3>1, <1>2 DEF LinkedOrMore, HasStatus, WalkStatuses
  <2>9. md[call.m].status # "Evaluated"
    BY <1>5, <1>s DEF InLinking
  <2>10. InEvaluation'
    BY <2>1, <2>3, <2>5, <2>6, <2>8, <2>9 DEF InEvaluation
  <2> QED
    BY <2>5, <2>7, <2>10 DEF ModulesInv, Stages
<1> QED
  BY <1>3, <1>4, <1>5

\* The request an inner call is at.
LEMMA RequestAt ==
  ASSUME Types, NEW outer, NEW inner, NEW st, NEW out, Walking(outer, inner, st, out), Len(frames) > 1,
         Top.i <= Len(requests[Top.m])
  PROVE  /\ requests[Top.m][Top.i] \in Module /\ requests[Top.m][Top.i] \in ToSet(requests[Top.m])
         /\ Top.i \in 1 .. Len(requests[Top.m])
<1>1. Top.m \in Module /\ Top.i \in Nat /\ Top.i >= 1 /\ requests[Top.m] \in Seq(Module)
  BY InnerCall
<1>2. Top.i \in 1 .. Len(requests[Top.m])
  BY <1>1
<1> QED
  BY <1>1, <1>2 DEF ToSet

\* The calls keep their modules when the innermost one goes on to its next request.
LEMMA SameCalls ==
  ASSUME frames \in Seq(FrameSet), frames # << >>, NEW f, NEW i,
         frames' = <<Frame(f, frames[1].m, i)>> \o Tail(frames)
  PROVE  Inner(frames)' = Inner(frames) /\ \A j \in Inner(frames) : frames'[j].m = frames[j].m
<1>1. PICK F1 : F1 = frames'
  OBVIOUS
<1>2. PICK e : e = Frame(f, frames[1].m, i)
  OBVIOUS
<1>3. F1 = <<e>> \o Tail(frames) /\ frames \in Seq(FrameSet) /\ frames # << >>
  BY <1>1, <1>2
<1>4. /\ Tail(frames) \in Seq(FrameSet) /\ Len(Tail(frames)) = Len(frames) - 1 /\ Len(frames) \in Nat
      /\ Len(frames) >= 1 /\ \A j \in 2 .. Len(frames) : Tail(frames)[j - 1] = frames[j]
  BY ONLY <1>3, SMTT(30)
<1>5. Len(F1) = Len(frames) /\ F1[1] = e /\ \A j \in 2 .. Len(frames) : F1[j] = frames[j]
  BY ONLY <1>3, <1>4, SMTT(30)
<1>6. \A j \in Inner(frames) : j = 1 \/ j \in 2 .. Len(frames)
  BY <1>4 DEF Inner
<1>7. e.m = frames[1].m
  BY <1>2 DEF Frame
<1>8. \A j \in Inner(frames) : F1[j].m = frames[j].m
  BY <1>5, <1>6, <1>7
<1> QED
  BY <1>1, <1>5, <1>8 DEF Inner

LEMMA LinkRequestKeeps ==
  ASSUME ModulesInv, Loadable, LinkRequest
  PROVE  ModulesInv'
<1>t. Types /\ RootsFound /\ LinkedFound /\ In("innerModuleLinking")
  BY DEF ModulesInv, LinkRequest
<1>s. InLinking /\ Len(frames) > 1
  BY <1>t, StageOf DEF ModulesInv
<1>w. PICK out : out = LinkedOrMore
  OBVIOUS
<1>1. Walking("moduleLinking", "innerModuleLinking", "Linking", out)
  BY <1>s, <1>w DEF InLinking
<1>2. /\ Top = frames[1] /\ Top.m \in Module /\ Top.i \in Nat /\ Top.fn = "innerModuleLinking"
      /\ call.m \in Module /\ md[Top.m].status = "Linking"
  BY <1>1, <1>s, <1>t, InnerCall
<1>m. PICK m : m = Top.m
  OBVIOUS
<1>r. PICK r : r = requests[m][Top.i]
  OBVIOUS
<1>3. Top.i <= Len(requests[m]) /\ r \in Module /\ m \in Module /\ r \in ToSet(requests[m])
  <2>1. Top.i <= Len(requests[Top.m])
    BY DEF LinkRequest
  <2> QED
    BY <2>1, <1>1, <1>2, <1>s, <1>t, <1>m, <1>r, RequestAt
<1>4. fault[r] # "notFound"
  BY <1>3 DEF Loadable
<1>u. requests' = requests /\ kind' = kind /\ jobs' = jobs /\ UNCHANGED <<scenario, found>>
  BY DEF LinkRequest, env, scenario, history
<1>y. md \in [Module -> Records]
  BY <1>t DEF Types
<1>z. md[r].status \in Statuses /\ md[r].status # "Evaluating"
  <2>1. r \in HasStatus({"Linking", "Evaluating"}) => r \in HasStatus({"Linking"})
    BY <1>1 DEF Walking
  <2> QED
    BY <2>1, <1>3, <1>y DEF Records, HasStatus
<1>5. CASE NeedsLink(r)
  <2>1. md[r].status = "Unlinked"
    BY <1>5, <1>z DEF NeedsLink, Statuses
  <2>2. Enter("innerModuleLinking", r, "Linking") /\ UNCHANGED <<call, imports>>
    BY <1>4, <1>5, <1>m, <1>r DEF LinkRequest
  <2>3. /\ Len(frames) > 1 /\ frames[1].i <= Len(requests[frames[1].m])
        /\ requests[frames[1].m][frames[1].i] = r /\ UNCHANGED <<scenario, found, jobs, call, imports>>
    BY <1>2, <1>3, <1>m, <1>r, <1>s, <1>u, <2>2
  <2> QED
    BY <2>1, <2>2, <2>3, <1>3, <1>s, LinkingEnters
<1>6. CASE ~ NeedsLink(r)
  <2>1. /\ md' = IF md[r].status = "Linking" /\ md[r].dfsAncestorIndex < md[m].dfsAncestorIndex
                 THEN [md EXCEPT ![m].dfsAncestorIndex = md[r].dfsAncestorIndex]
                 ELSE md
        /\ frames' = <<Frame(Top.fn, m, Top.i + 1)>> \o Tail(frames)
        /\ stack' = stack /\ index' = index /\ call' = call /\ imports' = imports
    BY <1>4, <1>6, <1>m, <1>r DEF LinkRequest
  <2>2. /\ md' \in [Module -> Records]
        /\ \A x \in Module \ {m} : md'[x] = md[x]
        /\ md'[m].status = md[m].status /\ md'[m].record = md[m].record /\ md'[m].cycleRoot = md[m].cycleRoot
        /\ md'[m].error = md[m].error /\ md'[m].dfsIndex = md[m].dfsIndex
        /\ md'[m].dfsAncestorIndex = IF md[r].status = "Linking" /\ md[r].dfsAncestorIndex < md[m].dfsAncestorIndex
                                     THEN md[r].dfsAncestorIndex ELSE md[m].dfsAncestorIndex
    <3>1. md[m] \in Records /\ md[r].dfsAncestorIndex \in Nat
      BY <1>3, <1>y DEF Records
    <3> QED
      BY <3>1, <2>1, <1>3, <1>y DEF Records
  <2>3. \A x \in Module : md'[x].status = md[x].status /\ md'[x].record = md[x].record
                          /\ md'[x].cycleRoot = md[x].cycleRoot /\ md'[x].error = md[x].error
    BY <2>2
  <2>4. SameFindings
    BY <2>3, <1>u DEF SameFindings, SameRoots
  <2>5. RootsFound' /\ LinkedFound' /\ LinkedOrMore' = LinkedOrMore
    BY <2>4, <1>t, FindingsKept
  <2>6. r \in out \/ md[r].status = "Linking"
    BY <1>6, <1>3, <1>w DEF NeedsLink, LinkedOrMore, HasStatus
  <2>7. /\ frames' = <<Frame("innerModuleLinking", m, frames[1].i + 1)>> \o Tail(frames)
        /\ m = frames[1].m /\ frames[1].i <= Len(requests[m]) /\ r = requests[m][frames[1].i]
    BY <2>1, <1>2, <1>3, <1>m, <1>r
  <2>8. SameData(Module \ {m})
    BY <2>2 DEF SameData
  <2>9. "innerModuleLinking" \in InnerNames /\ "Linking" \in WalkStatuses
    BY DEF InnerNames, WalkStatuses
  <2>10. \A x \in Module : md'[x].status = md[x].status
    BY <2>3
  <2>11. /\ Walking("moduleLinking", "innerModuleLinking", "Linking", out)'
         /\ frames' \in Seq(FrameSet) /\ stack' \in Seq(Module) /\ index' \in Nat
    <3>1. stack' = stack /\ index' = index /\ call' = call /\ requests' = requests /\ Len(frames) > 1 /\ Types
      BY <2>1, <1>u, <1>s, <1>t
    <3>2. /\ md'[m].dfsIndex = md[m].dfsIndex
          /\ md'[m].dfsAncestorIndex = IF md[r].status = "Linking" /\ md[r].dfsAncestorIndex < md[m].dfsAncestorIndex
                                       THEN md[r].dfsAncestorIndex ELSE md[m].dfsAncestorIndex
      BY <2>2, Zenon
    <3>3. Passes("innerModuleLinking", "Linking", out, m, r)
      BY ONLY <2>6, <2>7, <2>8, <2>10, <3>1, <3>2 DEF Passes
    <3> QED
      BY ONLY <1>1, <2>9, <3>1, <3>3, PassWalks
  <2>12. Walking("moduleLinking", "innerModuleLinking", "Linking", LinkedOrMore)'
    BY <2>11, <2>5, <1>w
  <2>13. Inner(frames)' = Inner(frames) /\ \A j \in Inner(frames) : frames'[j].m = frames[j].m
    <3>1. frames \in Seq(FrameSet) /\ frames # << >>
      BY <1>t DEF Types, In
    <3>2. frames' = <<Frame("innerModuleLinking", frames[1].m, frames[1].i + 1)>> \o Tail(frames)
      BY <2>7
    <3> QED
      BY <3>1, <3>2, SameCalls
  <2>14. \A x \in ToSet(stack') : (\A j \in Inner(frames') : frames'[j].m # x) => md'[x].record
    <3>1. \A x \in ToSet(stack) : x \in Module
      BY <1>1 DEF Walking, HasStatus
    <3>2. \A x \in ToSet(stack) : (\A j \in Inner(frames) : frames[j].m # x) => md[x].record
      BY <1>s DEF InLinking
    <3>3. \A x \in ToSet(stack) : (\A j \in Inner(frames') : frames'[j].m # x) => md[x].record
      BY <3>2, <2>13
    <3>4. stack' = stack
      BY <2>1
    <3> QED
      BY ONLY <3>1, <3>3, <3>4, <2>3
  <2>15. InLinking'
    BY <2>12, <2>14, <2>3, <2>1, <1>2, <1>s DEF InLinking
  <2>16. Types'
    BY <1>t, <1>u, <2>1, <2>2, <2>11 DEF Types
  <2> QED
    BY <2>15, <2>16, <2>5 DEF ModulesInv, Stages
<1> QED
  BY <1>5, <1>6

\* The calls below the one that ends keep their modules.
LEMMA FewerCalls ==
  ASSUME Types, NEW outer, NEW inner, NEW st, NEW out, Walking(outer, inner, st, out), Len(frames) > 1,
         frames' = Tail(frames), NEW x, \A j \in Inner(frames') : frames'[j].m # x, x # frames[1].m
  PROVE  \A j \in Inner(frames) : frames[j].m # x
<1>1. PICK F, F1 : F = frames /\ F1 = frames'
  OBVIOUS
<1>2. F \in Seq(FrameSet) /\ F # << >> /\ F1 = Tail(F)
  BY <1>1 DEF Types, Walking
<1>3. Len(F) \in Nat /\ Len(F1) = Len(F) - 1 /\ \A j \in 1 .. Len(F) - 1 : F1[j] = F[j + 1]
  BY ONLY <1>2, SMTT(30)
<1> SUFFICES ASSUME NEW j \in Inner(F), F[j].m = x PROVE FALSE
  BY <1>1
<1>4. j # 1
  BY <1>1
<1>5. j - 1 \in Inner(F1) /\ j - 1 \in 1 .. Len(F) - 1 /\ (j - 1) + 1 = j
  BY <1>3, <1>4 DEF Inner
<1>6. F1[j - 1] = F[j]
  BY <1>3, <1>5
<1> QED
  BY <1>1, <1>5, <1>6

\* The cycle that a call ends with, in the terms of the state.
LEMMA PoppedIsCycle ==
  ASSUME Types, NEW outer, NEW inner, NEW st, NEW out, Walking(outer, inner, st, out), Len(frames) > 1,
         NEW m, m = frames[1].m, Len(requests[m]) < frames[1].i, md[m].dfsAncestorIndex = md[m].dfsIndex
  PROVE  /\ m \in ToSet(Popped(m)) /\ ToSet(Popped(m)) \subseteq ToSet(stack)
         /\ \A x \in ToSet(Popped(m)) : \A k \in 1 .. Len(requests[x]) :
              requests[x][k] \in out \union ToSet(Popped(m))
         /\ \A x \in ToSet(Popped(m)) : Reaches(m, x) /\ Reaches(x, m)
         /\ \A x \in ToSet(Popped(m)) : x # m => \A j \in Inner(frames) : frames[j].m # x
<1>0. PICK g, F, K, d, a, n : /\ g = requests /\ F = frames /\ K = ToSet(stack) /\ d = DfsIndex
                              /\ a = DfsAncestorIndex /\ n = index
  OBVIOUS
<1>T. Tarjan(g, F, K, d, a, n, out)
  BY <1>0 DEF Walking
<1>1. m \in Module /\ m \in K /\ stack \in Seq(Module)
  BY <1>0, InnerCall DEF Types
<1>2. Len(F) > 1 /\ Len(g[F[1].m]) < F[1].i /\ a[F[1].m] = d[F[1].m] /\ F[1].m = m
  BY <1>0, <1>1 DEF DfsIndex, DfsAncestorIndex
<1>3. /\ m \in Segment(K, d, m)
      /\ \A x \in Segment(K, d, m) : \A k \in 1 .. Len(g[x]) : g[x][k] \in out \union Segment(K, d, m)
      /\ \A x \in Segment(K, d, m) : ReachesIn(g, m, x) /\ ReachesIn(g, x, m)
  <2>1. /\ F[1].m \in Segment(K, d, F[1].m)
        /\ \A x \in Segment(K, d, F[1].m) : \A k \in 1 .. Len(g[x]) :
             g[x][k] \in out \union Segment(K, d, F[1].m)
        /\ \A x \in Segment(K, d, F[1].m) : ReachesIn(g, F[1].m, x) /\ ReachesIn(g, x, F[1].m)
    BY ONLY <1>T, <1>2, SegmentIsCycle
  <2> QED
    BY ONLY <2>1, <1>2
<1>4. d \in [Module -> Nat] /\ Ordered(stack, d) /\ m \in ToSet(stack)
  BY <1>T, <1>0, <1>1 DEF Walking, Tarjan, WalkTypes
<1>5. ToSet(Popped(m)) = Segment(K, d, m)
  BY <1>0, <1>1, <1>4, PoppedSegment
<1>6. ASSUME NEW x \in Segment(K, d, m), x # m, NEW j \in Inner(F) PROVE F[j].m # x
  <2>1. x \in Segment(K, d, F[1].m) /\ x # F[1].m /\ Len(F) > 1
    BY <1>6, <1>2
  <2> QED
    BY ONLY <2>1, <1>6, <1>T, SegmentLeft
<1>7. Segment(K, d, m) \subseteq K
  BY DEF Segment
<1> QED
  BY <1>0, <1>3, <1>5, <1>6, <1>7 DEF Reaches

LEMMA LinkEndKeeps ==
  ASSUME ModulesInv, Loadable, LinkEnd
  PROVE  ModulesInv'
<1>t. Types /\ RootsFound /\ LinkedFound /\ In("innerModuleLinking")
  BY DEF ModulesInv, LinkEnd
<1>s. InLinking /\ Len(frames) > 1
  BY <1>t, StageOf DEF ModulesInv
<1>w. PICK out : out = LinkedOrMore
  OBVIOUS
<1>1. Walking("moduleLinking", "innerModuleLinking", "Linking", out)
  BY <1>s, <1>w DEF InLinking
<1>2. /\ Top = frames[1] /\ Top.m \in Module /\ Top.i \in Nat /\ Top.fn = "innerModuleLinking"
      /\ call.m \in Module /\ md[Top.m].status = "Linking" /\ Len(requests[Top.m]) \in Nat
  BY <1>1, <1>s, <1>t, InnerCall
<1>m. PICK m : m = Top.m
  OBVIOUS
<1>3. m \in Module /\ m = frames[1].m /\ md[m].status = "Linking" /\ Len(requests[m]) < frames[1].i
  <2>1. Top.i > Len(requests[Top.m])
    BY DEF LinkEnd
  <2> QED
    BY <2>1, <1>2, <1>m
<1>u. requests' = requests /\ kind' = kind /\ jobs' = jobs /\ found' = found
  BY DEF LinkEnd, env, scenario, history
<1>y. md \in [Module -> Records] /\ imports \in Seq(ImportSet) /\ call \in CallSet
  BY <1>t DEF Types
<1>k. \A x \in Module : /\ x \in ToSet(stack) => md[x].status = "Linking"
                        /\ x \notin ToSet(stack) => md[x].status \notin WalkStatuses
  BY <1>1 DEF Walking, HasStatus, WalkStatuses
<1>4. CASE CallThrows(Unlink(md))
  <2>1. Unlink(md) \in [Module -> Records]
    <3>1. \A x \in Module : [md[x] EXCEPT !.status = "Unlinked", !.record = FALSE,
                                          !.dfsIndex = 0, !.dfsAncestorIndex = 0] \in Records
      <4> SUFFICES ASSUME NEW x \in Module
                   PROVE  [md[x] EXCEPT !.status = "Unlinked", !.record = FALSE,
                                        !.dfsIndex = 0, !.dfsAncestorIndex = 0] \in Records
        OBVIOUS
      <4>1. md[x] \in Records
        BY <1>y
      <4> QED
        BY <4>1 DEF Records, Statuses
    <3> QED
      BY <3>1, <1>y DEF Unlink
  <2>2. md' = Unlink(md) /\ CallOver
    BY <2>1, <1>4, <1>y, CallThrowsData
  <2>3. \A x \in Module :
           /\ md'[x].cycleRoot = md[x].cycleRoot /\ md'[x].error = md[x].error
           /\ x \in ToSet(stack) => md'[x].status = "Unlinked"
           /\ x \notin ToSet(stack) => md'[x] = md[x]
    <3> SUFFICES ASSUME NEW x \in Module
                 PROVE  /\ md'[x].cycleRoot = md[x].cycleRoot /\ md'[x].error = md[x].error
                        /\ x \in ToSet(stack) => md'[x].status = "Unlinked"
                        /\ x \notin ToSet(stack) => md'[x] = md[x]
      OBVIOUS
    <3>1. md[x] \in Records
      BY <1>y
    <3> QED
      BY <3>1, <2>2 DEF Unlink, Records
  <2>4. SameFindings
    BY <2>3, <1>k, <1>u DEF SameFindings, SameRoots
  <2>5. NoWalk'
    <3>1. \A x \in Module : md'[x].status \notin WalkStatuses
      BY <2>3, <1>k DEF WalkStatuses
    <3> QED
      BY <3>1, <2>2, OverIsNoWalk
  <2>6. Types'
    BY <2>1, <2>2, <1>t, <1>u, OverTypes
  <2> QED
    BY <2>4, <2>5, <2>6, <1>t, FindingsKept DEF ModulesInv, Stages
<1>5. CASE /\ IF IsCycleRoot(m)
              THEN /\ md' = [x \in Module |-> IF x \in ToSet(Popped(m))
                               THEN [[md EXCEPT ![m].record = TRUE][x] EXCEPT !.status = "Linked"]
                               ELSE [md EXCEPT ![m].record = TRUE][x]]
                   /\ stack' = AfterPop(m)
              ELSE md' = [md EXCEPT ![m].record = TRUE] /\ UNCHANGED stack
           /\ frames' = Tail(frames)
           /\ UNCHANGED <<index, call, imports>>
  <2>1. PICK made : made = [md EXCEPT ![m].record = TRUE]
    OBVIOUS
  <2>2. /\ made \in [Module -> Records]
        /\ \A x \in Module : /\ made[x].status = md[x].status /\ made[x].cycleRoot = md[x].cycleRoot
                             /\ made[x].error = md[x].error /\ made[x].dfsIndex = md[x].dfsIndex
                             /\ made[x].dfsAncestorIndex = md[x].dfsAncestorIndex
        /\ made[m].record = TRUE /\ \A x \in Module \ {m} : made[x].record = md[x].record
    <3>0. TRUE \in BOOLEAN
      BY Zenon
    <3>1. md[m] \in Records
      BY <1>3, <1>y
    <3> QED
      BY <3>0, <3>1, <2>1, <1>3, <1>y DEF Records
  <2>3. /\ md' \in [Module -> Records]
        /\ \A x \in Module : /\ md'[x].cycleRoot = md[x].cycleRoot
                             /\ md'[x].error = md[x].error /\ md'[x].dfsIndex = md[x].dfsIndex
                             /\ md'[x].dfsAncestorIndex = md[x].dfsAncestorIndex /\ md'[x].record = made[x].record
        /\ IsCycleRoot(m) => \A x \in Module :
             md'[x].status = IF x \in ToSet(Popped(m)) THEN "Linked" ELSE md[x].status
        /\ ~ IsCycleRoot(m) => \A x \in Module : md'[x].status = md[x].status
    <3>1. CASE IsCycleRoot(m)
      <4>1. md' = [x \in Module |-> IF x \in ToSet(Popped(m))
                     THEN [made[x] EXCEPT !.status = "Linked"] ELSE made[x]]
        BY <3>1, <1>5, <2>1
      <4>2. \A x \in Module : made[x] \in Records /\ md'[x] = IF x \in ToSet(Popped(m))
                     THEN [made[x] EXCEPT !.status = "Linked"] ELSE made[x]
        BY <4>1, <2>2
      <4>3. ASSUME NEW x \in Module
            PROVE  /\ md'[x] \in Records
                   /\ md'[x].cycleRoot = made[x].cycleRoot
                   /\ md'[x].error = made[x].error /\ md'[x].dfsIndex = made[x].dfsIndex
                   /\ md'[x].dfsAncestorIndex = made[x].dfsAncestorIndex /\ md'[x].record = made[x].record
                   /\ md'[x].status = IF x \in ToSet(Popped(m)) THEN "Linked" ELSE made[x].status
        <5>1. PICK e : e = made[x]
          OBVIOUS
        <5>2. e \in Records
          BY <5>1, <4>2
        <5>3. CASE x \in ToSet(Popped(m))
          <6>1. md'[x] = [e EXCEPT !.status = "Linked"]
            BY <5>1, <5>3, <4>2
          <6> QED
            BY <6>1, <5>1, <5>2, <5>3 DEF Records, Statuses
        <5>4. CASE x \notin ToSet(Popped(m))
          BY <5>4, <4>2
        <5> QED
          BY <5>3, <5>4
      <4>4. md' \in [Module -> Records]
        BY <4>1, <4>3
      <4> QED
        BY <4>3, <4>4, <3>1, <2>2
    <3>2. CASE ~ IsCycleRoot(m)
      <4>1. md' = made
        BY <3>2, <1>5, <2>1
      <4> QED
        BY <4>1, <3>2, <2>2
    <3> QED
      BY <3>1, <3>2
  <2>4. SameData(Module)
    BY <2>3 DEF SameData
  <2>5. frames' = Tail(frames) /\ index' = index /\ call' = call /\ imports' = imports
    BY <1>5
  <2>6. SameRoots
    <3>1. \A x \in ToSet(Popped(m)) : IsCycleRoot(m) => md[x].status = "Linking"
      <4>1. IsCycleRoot(m) => ToSet(Popped(m)) \subseteq ToSet(stack)
        BY <1>1, <1>3, <1>s, <1>t, PoppedIsCycle DEF IsCycleRoot
      <4>2. ToSet(stack) \subseteq Module
        BY <1>1 DEF Walking, HasStatus
      <4> QED
        BY <4>1, <4>2, <1>k
    <3>2. \A x \in Module : md'[x].status = "Evaluated" <=> md[x].status = "Evaluated"
      BY <3>1, <2>3
    <3> QED
      BY <3>2, <2>3, <1>u DEF SameRoots
  <2>7. RootsFound'
    BY <2>6, <1>t, RootsStay
  <2>o. PICK out1 : out1 = IF IsCycleRoot(m) THEN out \union ToSet(Popped(m)) ELSE out
    OBVIOUS
  <2>8. Returns(out, m, out1)
    <3>1. CASE IsCycleRoot(m)
      <4>1. md[m].dfsAncestorIndex = md[m].dfsIndex /\ stack' = AfterPop(m) /\ out1 = out \union ToSet(Popped(m))
        BY <3>1, <1>5, <2>o DEF IsCycleRoot
      <4>2. /\ \A x \in ToSet(Popped(m)) : md'[x].status \notin WalkStatuses
            /\ \A x \in Module \ ToSet(Popped(m)) : md'[x].status = md[x].status
        <5>1. ToSet(Popped(m)) \subseteq Module
          <6>1. ToSet(Popped(m)) \subseteq ToSet(stack)
            BY <4>1, <1>1, <1>3, <1>s, <1>t, PoppedIsCycle
          <6> QED
            BY <6>1, <1>1 DEF Walking, HasStatus
        <5> QED
          BY <5>1, <3>1, <2>3 DEF WalkStatuses
      <4> QED
        BY <4>1, <4>2, <1>3, <1>s, <1>u, <2>4, <2>5 DEF Returns
    <3>2. CASE ~ IsCycleRoot(m)
      <4>1. md[m].dfsAncestorIndex # md[m].dfsIndex /\ stack' = stack /\ out1 = out
        BY <3>2, <1>5, <2>o DEF IsCycleRoot
      <4>2. \A x \in Module : md'[x].status = md[x].status
        BY <3>2, <2>3
      <4> QED
        BY <4>1, <4>2, <1>3, <1>s, <1>u, <2>4, <2>5 DEF Returns
    <3> QED
      BY <3>1, <3>2
  <2>9. /\ Walking("moduleLinking", "innerModuleLinking", "Linking", out1)'
        /\ frames' \in Seq(FrameSet) /\ stack' \in Seq(Module) /\ index' \in Nat
    <3>1. "innerModuleLinking" \in InnerNames /\ "Linking" \in WalkStatuses
      BY DEF InnerNames, WalkStatuses
    <3> QED
      BY ONLY <3>1, <2>8, <1>1, <1>t, ReturnWalks
  <2>10. LinkedFound' /\ LinkedOrMore' = out1
    <3>1. CASE IsCycleRoot(m)
      <4>1. /\ ToSet(Popped(m)) \subseteq ToSet(stack)
            /\ \A x \in ToSet(Popped(m)) : \A k \in 1 .. Len(requests[x]) :
                 requests[x][k] \in out \union ToSet(Popped(m))
            /\ \A x \in ToSet(Popped(m)) : x # m => \A j \in Inner(frames) : frames[j].m # x
        BY <3>1, <1>1, <1>3, <1>s, <1>t, PoppedIsCycle DEF IsCycleRoot
      <4>2. out1 = out \union ToSet(Popped(m)) /\ ToSet(stack) \subseteq Module /\ out \subseteq Module
        BY <3>1, <2>o, <1>1, <1>w DEF Walking, HasStatus, LinkedOrMore
      <4>3. \A x \in Module : x \in LinkedOrMore' <=> (x \in LinkedOrMore \/ x \in ToSet(Popped(m)))
        BY <3>1, <2>3 DEF LinkedOrMore, HasStatus
      <4>4. LinkedOrMore' = out1
        <5>1. LinkedOrMore' \subseteq Module
          BY DEF LinkedOrMore, HasStatus
        <5> QED
          BY ONLY <5>1, <4>1, <4>2, <4>3, <1>w
      <4>5. \A x \in ToSet(Popped(m)) : md'[x].record
        <5> SUFFICES ASSUME NEW x \in ToSet(Popped(m)) PROVE md'[x].record
          OBVIOUS
        <5>1. CASE x = m
          BY <5>1, <1>3, <2>2, <2>3
        <5>2. CASE x # m
          <6>1. md[x].record
            BY <5>2, <4>1, <1>s DEF InLinking
          <6> QED
            BY <6>1, <5>2, <4>1, <4>2, <2>2, <2>3
        <5> QED
          BY <5>1, <5>2
      <4>6. \A x \in out : md'[x].record
        <5>1. \A x \in out : md[x].record /\ x # m
          BY <1>t, <1>w, <1>3 DEF LinkedFound, LinkedOrMore, HasStatus
        <5> QED
          BY <5>1, <4>2, <2>2, <2>3
      <4>7. \A x \in out1 : \A k \in 1 .. Len(requests[x]) : requests[x][k] \in out1
        <5>1. \A x \in out : \A k \in 1 .. Len(requests[x]) : requests[x][k] \in out
          BY <1>t, <1>w DEF LinkedFound
        <5> QED
          BY <5>1, <4>1, <4>2
      <4> QED
        BY <4>2, <4>4, <4>5, <4>6, <4>7, <1>u DEF LinkedFound
    <3>2. CASE ~ IsCycleRoot(m)
      <4>1. \A x \in Module : md[x].status \in {"Linked", "Evaluating", "Evaluated"} => md'[x].record = md[x].record
        BY <1>3, <2>2, <2>3
      <4>2. SameFindings
        BY <3>2, <4>1, <2>3, <2>6 DEF SameFindings
      <4> QED
        BY <4>2, <3>2, <2>o, <1>w, <1>t, FindingsKept
    <3> QED
      BY <3>1, <3>2
  <2>11. Walking("moduleLinking", "innerModuleLinking", "Linking", LinkedOrMore)'
    BY <2>9, <2>10
  <2>12. ASSUME NEW x \in ToSet(stack'), \A j \in Inner(frames') : frames'[j].m # x
         PROVE  md'[x].record
    <3>1. x \in Module /\ md'[x].status = "Linking"
      BY <2>12, <2>9 DEF Walking, HasStatus
    <3>2. md[x].status = "Linking"
      BY <3>1, <2>3
    <3>3. x \in ToSet(stack)
      BY <3>1, <3>2, <1>1 DEF Walking, HasStatus
    <3>4. CASE x = m
      BY <3>4, <1>3, <2>2, <2>3
    <3>5. CASE x # m
      <4>1. \A j \in Inner(frames) : frames[j].m # x
        BY <3>5, <2>12, <2>5, <1>1, <1>3, <1>s, <1>t, FewerCalls
      <4>2. md[x].record
        BY <4>1, <3>3, <1>s DEF InLinking
      <4> QED
        BY <4>2, <3>1, <3>5, <2>2, <2>3
    <3> QED
      BY <3>4, <3>5
  <2>13. call'.op # "instantiate" => md'[call'.m].status # "Evaluated"
    BY <2>5, <2>6, <1>2, <1>s DEF InLinking, SameRoots
  <2>14. InLinking'
    BY <2>11, <2>12, <2>13 DEF InLinking
  <2>15. Types'
    BY <1>t, <1>u, <2>3, <2>5, <2>9 DEF Types
  <2> QED
    BY <2>7, <2>10, <2>14, <2>15 DEF ModulesInv, Stages
<1> QED
  <2>1. fault[m] # "noDefault"
    BY <1>3 DEF Loadable
  <2> QED
    BY <2>1, <1>4, <1>5, <1>m DEF LinkEnd

-----------------------------------------------------------------------------
(* Evaluation                                                               *)

LEMMA EvaluationEnters ==
  ASSUME ModulesInv, InEvaluation, NEW m \in Module, md[m].status = "Linked", frames[Len(frames)].i = 1,
         \/ Len(frames) = 1 /\ frames[1].m = m
         \/ /\ Len(frames) > 1 /\ frames[1].i <= Len(requests[frames[1].m])
            /\ requests[frames[1].m][frames[1].i] = m,
         Enter("innerModuleEvaluation", m, "Evaluating"),
         UNCHANGED <<scenario, found, jobs, call, imports>>
  PROVE  ModulesInv'
<1>t. Types /\ RootsFound /\ LinkedFound
  BY DEF ModulesInv
<1>u. requests' = requests /\ kind' = kind /\ jobs' = jobs /\ call' = call /\ imports' = imports
      /\ found' = found
  BY DEF scenario
<1>c. "innerModuleEvaluation" \in InnerNames /\ "Evaluating" \in WalkStatuses /\ md[m].status \notin WalkStatuses
  BY DEF InnerNames, WalkStatuses
<1>d. /\ md' \in [Module -> Records]
      /\ md'[m].status = "Evaluating" /\ md'[m].record = md[m].record /\ md'[m].cycleRoot = md[m].cycleRoot
      /\ md'[m].error = md[m].error
      /\ \A x \in Module \ {m} : md'[x] = md[x]
  <2>1. md \in [Module -> Records] /\ index \in Nat
    BY <1>t DEF Types
  <2> QED
    BY <2>1, <1>c, EnterData
<1>f. RootsFound' /\ LinkedFound' /\ LinkedOrMore' = LinkedOrMore /\ Complete' = Complete
  <2>1. SameFindings
    BY <1>d, <1>u DEF SameFindings, SameRoots
  <2> QED
    BY <2>1, <1>t, FindingsKept
<1>w. PICK out : out = Complete
  OBVIOUS
<1>1. Walking("moduleEvaluation", "innerModuleEvaluation", "Evaluating", out)
  BY <1>w DEF InEvaluation
<1>2. /\ Walking("moduleEvaluation", "innerModuleEvaluation", "Evaluating", out)' /\ Len(frames') > 1
      /\ frames' \in Seq(FrameSet) /\ stack' \in Seq(Module) /\ index' \in Nat
      /\ frames'[Len(frames')] = frames[Len(frames)]
  BY <1>1, <1>t, <1>c, <1>u, EnterWalks
<1>3. Walking("moduleEvaluation", "innerModuleEvaluation", "Evaluating", Complete)'
  BY <1>2, <1>w, <1>f
<1>4. InEvaluation'
  BY <1>2, <1>3, <1>f, <1>u DEF InEvaluation
<1>5. Types'
  BY <1>t, <1>u, <1>d, <1>2 DEF Types
<1> QED
  BY <1>4, <1>5, <1>f DEF ModulesInv, Stages

\* A call that returns when no walk is in progress.
LEMMA ReturnKeeps ==
  ASSUME ModulesInv, \A x \in Module : md[x].status \notin WalkStatuses, call.m \in Module,
         NEW data \in [Module -> Records], CallReturns(data),
         \A x \in Module : /\ data[x].status = md[x].status /\ data[x].record = md[x].record
                           /\ data[x].cycleRoot = md[x].cycleRoot
                              \/ (data[x].status = "Evaluated" /\ data[x].cycleRoot = x)
                           /\ data[x].error = md[x].error,
         requests' = requests, kind' = kind, found' = found, jobs' = jobs
  PROVE  ModulesInv'
<1>t. Types /\ RootsFound /\ LinkedFound
  BY DEF ModulesInv
<1>1. imports \in Seq(ImportSet) /\ call \in CallSet
  BY <1>t DEF Types
<1>2. Like(data) /\ CallOver
  BY <1>1, CallReturnsData
<1>3. NoWalk'
  BY <1>2, OverIsNoWalk DEF Like
<1>4. Types'
  BY <1>2, <1>t, OverTypes DEF Like
<1>5. SameFindings
  BY <1>2 DEF SameFindings, SameRoots, Like
<1> QED
  BY <1>3, <1>4, <1>5, <1>t, FindingsKept DEF ModulesInv, Stages

LEMMA EvaluateCallKeeps ==
  ASSUME ModulesInv, EvaluateCall
  PROVE  ModulesInv'
<1>t. Types /\ RootsFound /\ LinkedFound /\ In("moduleEvaluation") /\ Top.i = 0
  BY DEF ModulesInv, EvaluateCall
<1>s. InEvaluation /\ Len(frames) = 1
  BY <1>t, StageOf DEF ModulesInv
<1>w. PICK out : out = Complete
  OBVIOUS
<1>1. Walking("moduleEvaluation", "innerModuleEvaluation", "Evaluating", out)
  BY <1>s, <1>w DEF InEvaluation
<1>2. /\ ToSet(stack) = {} /\ Top.m = call.m /\ frames[1].m = call.m /\ call.m \in Module
      /\ \A x \in Module : md[x].status \notin WalkStatuses
  BY <1>1, <1>s, <1>t, OnlyStarted
<1>u. requests' = requests /\ kind' = kind /\ jobs' = jobs /\ found' = found
  BY DEF EvaluateCall, env, scenario, history
<1>y. md \in [Module -> Records] /\ imports \in Seq(ImportSet) /\ call \in CallSet /\ index \in Nat
      /\ stack \in Seq(Module) /\ frames \in Seq(FrameSet) /\ frames # << >>
  BY <1>t DEF Types, In
<1>r. PICK rooted : rooted = IF md[Top.m].status = "Evaluated" THEN [md EXCEPT ![Top.m].cycleRoot = Top.m] ELSE md
  OBVIOUS
<1>3. /\ rooted \in [Module -> Records]
      /\ \A x \in Module : /\ rooted[x].status = md[x].status /\ rooted[x].record = md[x].record
                           /\ \/ rooted[x].cycleRoot = md[x].cycleRoot
                              \/ rooted[x].status = "Evaluated" /\ rooted[x].cycleRoot = x
                           /\ rooted[x].error = md[x].error /\ rooted[x].dfsIndex = md[x].dfsIndex
                           /\ rooted[x].dfsAncestorIndex = md[x].dfsAncestorIndex
  <2>1. CASE md[call.m].status = "Evaluated"
    <3>1. PICK e, d : e = md[call.m] /\ d = [md[call.m] EXCEPT !.cycleRoot = call.m]
      OBVIOUS
    <3>2. e \in Records /\ d = [e EXCEPT !.cycleRoot = call.m]
      BY <3>1, <1>2, <1>y
    <3>3. /\ d \in Records /\ d.status = e.status /\ d.record = e.record /\ d.cycleRoot = call.m
          /\ d.error = e.error /\ d.dfsIndex = e.dfsIndex /\ d.dfsAncestorIndex = e.dfsAncestorIndex
      BY <3>2, <1>2 DEF Records
    <3>4. rooted = [md EXCEPT ![call.m] = d]
      BY <2>1, <3>1, <1>r, <1>2
    <3> QED
      BY <2>1, <3>1, <3>3, <3>4, <1>2, <1>y
  <2>2. CASE md[call.m].status # "Evaluated"
    BY <2>2, <1>r, <1>2, <1>y
  <2> QED
    BY <2>1, <2>2
<1>4. CASE md[Top.m].topLevelCapability # "none"
  <2>1. CallReturns(rooted)
    BY <1>r, <1>4 DEF EvaluateCall
  <2> QED
    BY <2>1, <1>2, <1>3, <1>u, <1>y, ReturnKeeps
<1>5. CASE md[Top.m].topLevelCapability = "none"
  <2>1. /\ md' = [rooted EXCEPT ![call.m].topLevelCapability = "pending"]
        /\ frames' = <<Frame("moduleEvaluation", call.m, 1)>>
        /\ stack' = stack /\ index' = index /\ call' = call /\ imports' = imports
    BY <1>2, <1>r, <1>5 DEF EvaluateCall
  <2>2. /\ frames' \in Seq(FrameSet) /\ Len(frames') = 1 /\ frames'[1] = Frame("moduleEvaluation", call.m, 1)
        /\ frames' # << >>
    <3>1. Frame("moduleEvaluation", call.m, 1) \in FrameSet
      BY <1>2 DEF Frame, FrameSet
    <3> QED
      BY <3>1, <2>1
  <2>3. /\ md' \in [Module -> Records]
        /\ \A x \in Module : /\ md'[x].status = md[x].status /\ md'[x].record = md[x].record
                             /\ \/ md'[x].cycleRoot = md[x].cycleRoot
                                \/ md'[x].status = "Evaluated" /\ md'[x].cycleRoot = x
                             /\ md'[x].error = md[x].error
                             /\ md'[x].dfsIndex = md[x].dfsIndex
                             /\ md'[x].dfsAncestorIndex = md[x].dfsAncestorIndex
    <3>1. PICK e, d : e = rooted[call.m] /\ d = [rooted[call.m] EXCEPT !.topLevelCapability = "pending"]
      OBVIOUS
    <3>2. e \in Records /\ d = [e EXCEPT !.topLevelCapability = "pending"]
      BY <3>1, <1>2, <1>3
    <3>3. /\ d \in Records /\ d.status = e.status /\ d.record = e.record /\ d.cycleRoot = e.cycleRoot
          /\ d.error = e.error /\ d.dfsIndex = e.dfsIndex /\ d.dfsAncestorIndex = e.dfsAncestorIndex
      BY <3>2 DEF Records
    <3>4. md' = [rooted EXCEPT ![call.m] = d]
      BY <2>1, <3>1
    <3> QED
      BY <3>1, <3>3, <3>4, <1>2, <1>3
  <2>4. Types'
    BY <2>1, <2>2, <2>3, <1>t, <1>u DEF Types
  <2>5. SameFindings
    BY <2>3, <1>u DEF SameFindings, SameRoots
  <2>6. RootsFound' /\ LinkedFound' /\ LinkedOrMore' = LinkedOrMore /\ Complete' = Complete
    BY <2>5, <1>t, FindingsKept
  <2>7. ToSet(stack') = {}
    BY <2>1, <1>2
  <2>8. HasStatus({"Evaluating"})' = {} /\ HasStatus({"Linking", "Evaluating"})' = {}
    BY <2>3, <1>2 DEF HasStatus, WalkStatuses
  <2>9. DfsIndex' = DfsIndex /\ DfsAncestorIndex' = DfsAncestorIndex
    BY <2>3 DEF DfsIndex, DfsAncestorIndex
  <2>10. Ordered(stack, DfsIndex)'
    <3>1. Ordered(stack, DfsIndex)
      BY <1>1 DEF Walking
    <3> QED
      BY <3>1, <2>1, <2>9 DEF Ordered
  <2>11. Tarjan(requests, frames, ToSet(stack), DfsIndex, DfsAncestorIndex, index, Complete)'
    <3>1. PICK g, F, d, a, o, n : /\ g = requests' /\ F = frames' /\ d = DfsIndex' /\ a = DfsAncestorIndex'
                                  /\ o = Complete' /\ n = index'
      OBVIOUS
    <3>2. DfsIndex \in [Module -> Nat] /\ DfsAncestorIndex \in [Module -> Nat] /\ Complete \subseteq Module
          /\ requests \in [Module -> Seq(Module)]
      BY <1>y, <1>t DEF DfsIndex, DfsAncestorIndex, Records, Complete, HasStatus, Types
    <3>3. /\ g \in [Module -> Seq(Module)] /\ F \in Seq(FrameSet) /\ Len(F) = 1
          /\ d \in [Module -> Nat] /\ a \in [Module -> Nat] /\ o \subseteq Module /\ n \in Nat
      BY <3>1, <3>2, <2>1, <2>2, <2>6, <2>9, <1>u, <1>y
    <3>4. Tarjan(g, F, {}, d, a, n, o)
      BY ONLY <3>3, WalkStarts
    <3> QED
      BY <3>1, <3>4, <2>1, <2>7
  <2>12. \A j \in Inner(frames)' : frames'[j].fn = "innerModuleEvaluation"
    BY <2>2 DEF Inner
  <2>13. frames'[Len(frames')].fn = "moduleEvaluation" /\ frames'[Len(frames')].m = call'.m /\ frames'[Len(frames')].i = 1
    BY <2>2, <2>1 DEF Frame
  <2>14. Walking("moduleEvaluation", "innerModuleEvaluation", "Evaluating", Complete)'
    BY <2>2, <2>7, <2>8, <2>10, <2>11, <2>12, <2>13 DEF Walking
  <2>15. InEvaluation'
    BY <2>1, <2>6, <2>13, <2>14, <1>s DEF InEvaluation
  <2> QED
    BY <2>4, <2>6, <2>15 DEF ModulesInv, Stages
<1> QED
  BY <1>4, <1>5

\* A walk that fails leaves the modules on its stack evaluated, with the error.  Only a
\* module that is a cycle of its own already, a JSON module, has a root then.
LEMMA FailWalkKeeps ==
  ASSUME ModulesInv, InEvaluation, FailWalk, requests' = requests, kind' = kind, found' = found,
         jobs' = jobs
  PROVE  ModulesInv'
<1>t. Types /\ RootsFound /\ LinkedFound
  BY DEF ModulesInv
<1>w. PICK out : out = Complete
  OBVIOUS
<1>1. Walking("moduleEvaluation", "innerModuleEvaluation", "Evaluating", out)
  BY <1>w DEF InEvaluation
<1>y. md \in [Module -> Records] /\ imports \in Seq(ImportSet) /\ requests \in [Module -> Seq(Module)]
  BY <1>t DEF Types
<1>d. PICK data : data = [m \in Module |->
        [md[m] EXCEPT !.status = IF m \in ToSet(stack) THEN "Evaluated" ELSE @,
                      !.error = @ \/ m \in ToSet(stack),
                      !.topLevelCapability = IF m = call.m THEN "rejected" ELSE @]]
  OBVIOUS
<1>2. ASSUME NEW x \in Module
      PROVE  /\ data[x] \in Records
             /\ data[x].status = IF x \in ToSet(stack) THEN "Evaluated" ELSE md[x].status
             /\ data[x].error = (md[x].error \/ x \in ToSet(stack))
             /\ data[x].record = md[x].record /\ data[x].cycleRoot = md[x].cycleRoot
  <2>1. PICK e, b, c, s : /\ e = md[x] /\ b = (md[x].error \/ x \in ToSet(stack))
                          /\ c = IF x = call.m THEN "rejected" ELSE md[x].topLevelCapability
                          /\ s = IF x \in ToSet(stack) THEN "Evaluated" ELSE md[x].status
    OBVIOUS
  <2>2. b \in BOOLEAN
    BY <2>1, Zenon
  <2>3. e \in Records
    BY <2>1, <1>y
  <2>4. c \in {"none", "pending", "resolved", "rejected"} /\ s \in Statuses
    BY <2>1, <2>3 DEF Records, Statuses
  <2>5. data[x] = [e EXCEPT !.status = s, !.error = b, !.topLevelCapability = c]
    BY <2>1, <1>d
  <2>6. data[x] \in Records /\ data[x].status = s /\ data[x].error = b /\ data[x].record = e.record
        /\ data[x].cycleRoot = e.cycleRoot
    BY ONLY <2>2, <2>3, <2>4, <2>5 DEF Records
  <2> QED
    BY <2>1, <2>6
<1>3. data \in [Module -> Records]
  BY <1>2, <1>d
<1>4. md' = data /\ CallOver
  <2>1. CallThrows(data)
    BY <1>d DEF FailWalk
  <2> QED
    BY <2>1, <1>3, <1>y, CallThrowsData
<1>k. \A x \in Module : /\ x \in ToSet(stack) => md[x].status = "Evaluating"
                        /\ x \notin ToSet(stack) => md[x].status \notin WalkStatuses
  BY <1>1 DEF Walking, HasStatus, WalkStatuses
<1>5. NoWalk'
  <2>1. \A x \in Module : md'[x].status \notin WalkStatuses
    BY <1>2, <1>4, <1>k DEF WalkStatuses
  <2> QED
    BY <2>1, <1>4, OverIsNoWalk
<1>6. Types'
  BY <1>3, <1>4, <1>t, OverTypes
<1>7. LinkedFound'
  <2>1. \A x \in Module : x \in LinkedOrMore' <=> x \in LinkedOrMore
    BY <1>2, <1>4, <1>k DEF LinkedOrMore, HasStatus
  <2>2. LinkedOrMore' \subseteq Module /\ LinkedOrMore \subseteq Module
    BY DEF LinkedOrMore, HasStatus
  <2>3. LinkedOrMore' = LinkedOrMore
    BY ONLY <2>1, <2>2
  <2>4. \A x \in LinkedOrMore : md'[x].record = md[x].record
    BY <2>2, <1>2, <1>4
  <2> QED
    BY <2>2, <2>3, <2>4, <1>t DEF LinkedFound
<1>8. RootsFound'
  <2>1. \A m \in Module : found'[m] # None =>
          md'[m].status = "Evaluated" \/ (kind'[m] = "json" /\ found'[m] = m)
    BY <1>2, <1>4, <1>t DEF RootsFound
  <2>2. \A m \in Module : md'[m].status = "Evaluated" /\ ~ md'[m].error => found'[m] # None
    <3> SUFFICES ASSUME NEW m \in Module, md'[m].status = "Evaluated", ~ md'[m].error
                 PROVE  found'[m] # None
      OBVIOUS
    <3>1. m \notin ToSet(stack) /\ ~ md[m].error
      BY <1>2, <1>4
    <3>2. md[m].status = "Evaluated" /\ found'[m] = found[m]
      BY <3>1, <1>2, <1>4, <1>k
    <3> QED
      BY <3>1, <3>2, <1>t DEF RootsFound
  <2>3. \A m \in Complete' : \/ m \in Complete /\ m \in Module
                             \/ m \in Module /\ found'[m] = m /\ requests[m] = << >>
    <3> SUFFICES ASSUME NEW m \in Complete'
                 PROVE  \/ m \in Complete /\ m \in Module
                        \/ m \in Module /\ found'[m] = m /\ requests[m] = << >>
      OBVIOUS
    <3>1. m \in Module /\ md'[m].status = "Evaluated" /\ found'[m] # None
      BY DEF Complete, HasStatus
    <3>2. CASE m \in ToSet(stack)
      <4>1. md[m].status = "Evaluating" /\ found[m] # None /\ found'[m] = found[m]
        BY <3>1, <3>2, <1>k, <1>2, <1>4
      <4>2. kind[m] = "json" /\ found[m] = m
        BY <4>1, <3>1, <1>t DEF RootsFound
      <4> QED
        BY <4>1, <4>2, <3>1, <1>t DEF Types
    <3>3. CASE m \notin ToSet(stack)
      BY <3>1, <3>3, <1>2, <1>4 DEF Complete, HasStatus
    <3> QED
      BY <3>2, <3>3
  <2>4. Complete \subseteq Complete'
    <3>1. \A x \in Complete : x \in Complete'
      BY <1>2, <1>4, <1>k DEF Complete, HasStatus
    <3> QED
      BY <3>1
  <2>5. \A m \in Complete' : \A k \in 1 .. Len(requests[m]) : requests[m][k] \in Complete'
    <3> SUFFICES ASSUME NEW m \in Complete', NEW k \in 1 .. Len(requests[m]) PROVE requests[m][k] \in Complete'
      OBVIOUS
    <3>1. m \in Complete
      BY <2>3
    <3>2. requests[m][k] \in Complete
      BY <3>1, <1>t DEF RootsFound
    <3> QED
      BY <3>2, <2>4
  <2>6. \A m \in Complete' : SameCycle(m, found'[m])
    <3> SUFFICES ASSUME NEW m \in Complete' PROVE SameCycle(m, found'[m])
      OBVIOUS
    <3>1. CASE m \in Complete /\ m \in Module
      BY <3>1, <1>2, <1>4, <1>t DEF RootsFound
    <3>2. CASE m \in Module /\ found'[m] = m
      BY <3>2, ReachesItself DEF SameCycle, Reaches
    <3> QED
      BY <3>1, <3>2, <2>3
  <2>7. ASSUME NEW m \in Module, NEW r \in Module, requests[m] = << >>, SameCycle(m, r)
        PROVE  m = r
    <3>1. Closed(requests, {m})
      BY <2>7 DEF Closed, ToSet
    <3>2. PICK g, S : g = requests /\ S = {m}
      OBVIOUS
    <3>3. S \in SUBSET Module /\ Closed(g, S) /\ m \in S /\ ReachesIn(g, m, r)
      BY <3>1, <3>2, <2>7 DEF SameCycle, Reaches
    <3>4. r \in S
      BY ONLY <3>3, ReachesWithin
    <3> QED
      BY <3>2, <3>4
  <2>8. \A m, r \in Complete' : SameCycle(m, r) => found'[m] = found'[r]
    <3> SUFFICES ASSUME NEW m \in Complete', NEW r \in Complete', SameCycle(m, r)
                 PROVE  found'[m] = found'[r]
      OBVIOUS
    <3>0. m \in Module /\ r \in Module /\ SameCycle(r, m)
      BY <2>3 DEF SameCycle
    <3>1. CASE m \in Complete /\ r \in Complete
      BY <3>0, <3>1, <1>2, <1>4, <1>t DEF RootsFound
    <3>2. CASE requests[m] = << >> \/ requests[r] = << >>
      BY <3>0, <3>2, <2>7
    <3> QED
      BY <3>1, <3>2, <2>3
  <2>9. \A m, r : SameCycle(m, r)' <=> SameCycle(m, r)
    BY DEF SameCycle, Reaches
  <2>10. RootsKnown'
    BY <1>2, <1>4, <1>t DEF RootsFound, RootsKnown
  <2> QED
    BY <2>1, <2>2, <2>5, <2>6, <2>8, <2>9, <2>10 DEF RootsFound
<1> QED
  BY <1>5, <1>6, <1>7, <1>8 DEF ModulesInv, Stages

LEMMA EvaluateReturnsKeeps ==
  ASSUME ModulesInv, EvaluateReturns
  PROVE  ModulesInv'
<1>t. Types /\ RootsFound /\ LinkedFound /\ In("moduleEvaluation") /\ Top.i = 1
  BY DEF ModulesInv, EvaluateReturns
<1>s. InEvaluation /\ Len(frames) = 1
  BY <1>t, StageOf DEF ModulesInv
<1>w. PICK out : out = Complete
  OBVIOUS
<1>1. Walking("moduleEvaluation", "innerModuleEvaluation", "Evaluating", out)
  BY <1>s, <1>w DEF InEvaluation
<1>2. /\ Top.m = call.m /\ frames[1].m = call.m /\ call.m \in Module
      /\ \A x \in Module : md[x].status \notin WalkStatuses
  BY <1>1, <1>s, <1>t, OnlyStarted
<1>3. Top = frames[1] /\ frames[Len(frames)].i = 1
  BY <1>s, <1>t, TopIsFirst DEF Types, In
<1>u. requests' = requests /\ kind' = kind /\ jobs' = jobs /\ UNCHANGED <<scenario, found>>
  BY DEF EvaluateReturns, env, scenario, history
<1>y. md \in [Module -> Records]
  BY <1>t DEF Types
<1>4. CASE NeedsEvaluation(call.m)
  <2>1. md[call.m].status = "Linked"
    BY <1>4, <1>s, <1>2 DEF NeedsEvaluation, InEvaluation, LinkedOrMore, HasStatus
  <2>2. Enter("innerModuleEvaluation", call.m, "Evaluating") /\ UNCHANGED <<call, imports>>
    BY <1>2, <1>4 DEF EvaluateReturns
  <2>3. PICK m : m = call.m
    OBVIOUS
  <2>4. /\ m \in Module /\ md[m].status = "Linked" /\ Len(frames) = 1 /\ frames[1].m = m
        /\ Enter("innerModuleEvaluation", m, "Evaluating") /\ UNCHANGED <<scenario, found, jobs, call, imports>>
    BY <2>1, <2>2, <2>3, <1>2, <1>s, <1>u
  <2> QED
    BY <2>4, <1>3, <1>s, EvaluationEnters
<1>5. CASE ~ NeedsEvaluation(call.m) /\ index = 0 /\ md[call.m].error
  <2>1. FailWalk
    BY <1>2, <1>5 DEF EvaluateReturns
  <2> QED
    BY <2>1, <1>s, <1>u, FailWalkKeeps
<1>6. CASE ~ NeedsEvaluation(call.m) /\ ~ (index = 0 /\ md[call.m].error)
  <2>1. PICK data : data = IF md[call.m].asyncEvaluating THEN md
                           ELSE [md EXCEPT ![call.m].topLevelCapability = "resolved"]
    OBVIOUS
  <2>2. CallReturns(data)
    BY <2>1, <1>2, <1>6 DEF EvaluateReturns
  <2>3. /\ data \in [Module -> Records]
        /\ \A x \in Module : /\ data[x].status = md[x].status /\ data[x].record = md[x].record
                             /\ data[x].cycleRoot = md[x].cycleRoot /\ data[x].error = md[x].error
    <3>1. md[call.m] \in Records
      BY <1>2, <1>y
    <3> QED
      BY <3>1, <2>1, <1>2, <1>y DEF Records
  <2> QED
    BY <2>2, <2>3, <1>2, <1>u, ReturnKeeps
<1> QED
  BY <1>4, <1>5, <1>6

LEMMA EvaluateRequestKeeps ==
  ASSUME ModulesInv, Loadable, EvaluateRequest
  PROVE  ModulesInv'
<1>t. Types /\ RootsFound /\ LinkedFound /\ In("innerModuleEvaluation")
  BY Zenon DEF ModulesInv, EvaluateRequest
<1>s. InEvaluation /\ Len(frames) > 1
  BY <1>t, StageOf DEF ModulesInv
<1>w. PICK out : out = Complete
  OBVIOUS
<1>1. Walking("moduleEvaluation", "innerModuleEvaluation", "Evaluating", out)
  BY <1>s, <1>w DEF InEvaluation
<1>2. /\ Top = frames[1] /\ Top.m \in Module /\ Top.i \in Nat /\ Top.fn = "innerModuleEvaluation"
      /\ call.m \in Module /\ md[Top.m].status = "Evaluating" /\ Len(frames) \in Nat
  BY <1>1, <1>s, <1>t, InnerCall, TopIsFirst DEF Types, In
<1>m. PICK m : m = Top.m
  OBVIOUS
<1>r. PICK r : r = requests[m][Top.i]
  OBVIOUS
<1>3. /\ Top.i <= Len(requests[m]) /\ r \in Module /\ m \in Module /\ r \in ToSet(requests[m])
      /\ Top.i \in 1 .. Len(requests[m])
  <2>1. Top.i <= Len(requests[Top.m])
    BY Zenon DEF EvaluateRequest
  <2> QED
    BY <2>1, <1>1, <1>2, <1>s, <1>t, <1>m, <1>r, RequestAt
<1>4. fault[r] # "notFound"
  BY <1>3 DEF Loadable
<1>u. requests' = requests /\ kind' = kind /\ jobs' = jobs /\ UNCHANGED <<scenario, found>>
  BY Zenon DEF EvaluateRequest, env, scenario, history
<1>y. md \in [Module -> Records]
  BY <1>t DEF Types
<1>i. frames[Len(frames)].i = 1
  BY <1>s, <1>2 DEF InEvaluation
<1>z. md[r].status \in {"Linked", "Evaluating", "Evaluated"}
  <2>1. m \in LinkedOrMore
    BY <1>2, <1>3, <1>m DEF LinkedOrMore, HasStatus
  <2>2. r \in LinkedOrMore
    BY <2>1, <1>3, <1>r, <1>t DEF LinkedFound
  <2> QED
    BY <2>2 DEF LinkedOrMore, HasStatus
<1>5. CASE NeedsEvaluation(r)
  <2>1. md[r].status = "Linked"
    BY <1>5, <1>z DEF NeedsEvaluation
  <2>2. Enter("innerModuleEvaluation", r, "Evaluating") /\ UNCHANGED <<call, imports>>
    BY <1>4, <1>5, <1>m, <1>r DEF EvaluateRequest
  <2>3. /\ Len(frames) > 1 /\ frames[1].i <= Len(requests[frames[1].m])
        /\ requests[frames[1].m][frames[1].i] = r /\ UNCHANGED <<scenario, found, jobs, call, imports>>
    BY <1>2, <1>3, <1>m, <1>r, <1>s, <1>u, <2>2
  <2> QED
    BY <2>1, <2>2, <2>3, <1>3, <1>i, <1>s, EvaluationEnters
<1>q. PICK q : q = StandsFor(r)
  OBVIOUS
<1>6. CASE ~ NeedsEvaluation(r) /\ md[r].status = "Evaluated" /\ (md[r].error \/ md[q].error)
  <2>1. FailWalk
    BY <1>4, <1>6, <1>m, <1>r, <1>q, Zenon DEF EvaluateRequest
  <2> QED
    BY <2>1, <1>s, <1>u, FailWalkKeeps
<1>7. CASE ~ NeedsEvaluation(r) /\ ~ (md[r].status = "Evaluated" /\ (md[r].error \/ md[q].error))
  <2>1. md[r].status = "Evaluated" => r \in Complete /\ md[r].cycleRoot # None
    <3>1. md[r].status = "Evaluated" => r \in Complete /\ found[r] # None
      BY <1>7, <1>3, <1>t DEF RootsFound, Complete, HasStatus
    <3> QED
      BY <3>1, <1>3, <1>t, ModulesAssumption DEF RootsFound, RootsKnown
  <2>2. q \in Module /\ (md[r].status = "Evaluating" => q = r)
    <3>1. md[r].cycleRoot \in Module \union {None}
      BY <1>3, <1>y DEF Records
    <3> QED
      BY <3>1, <2>1, <1>7, <1>3, <1>q DEF StandsFor, NeedsEvaluation
  <2>3. PICK anc : anc = IF q = r /\ md[r].status = "Evaluating" /\ md[r].dfsAncestorIndex < md[m].dfsAncestorIndex
                         THEN md[r].dfsAncestorIndex ELSE md[m].dfsAncestorIndex
    OBVIOUS
  <2>4. anc = IF md[r].status = "Evaluating" /\ md[r].dfsAncestorIndex < md[m].dfsAncestorIndex
              THEN md[r].dfsAncestorIndex ELSE md[m].dfsAncestorIndex
    BY <2>2, <2>3
  <2>5. PICK more, parents :
           /\ more = IF md[q].asyncEvaluating THEN 1 ELSE 0
           /\ parents = IF md[q].asyncEvaluating THEN Append(md[q].asyncParentModules, m)
                                                 ELSE md[q].asyncParentModules
    OBVIOUS
  <2>6. /\ md' = [md EXCEPT ![m].dfsAncestorIndex = anc,
                            ![m].pendingAsyncDependencies = @ + IF md[q].asyncEvaluating THEN 1 ELSE 0,
                            ![q].asyncParentModules = IF md[q].asyncEvaluating THEN Append(@, m) ELSE @]
        /\ frames' = <<Frame(Top.fn, m, Top.i + 1)>> \o Tail(frames)
        /\ stack' = stack /\ index' = index /\ call' = call /\ imports' = imports
    BY <1>4, <1>7, <1>m, <1>r, <1>q, <2>3, Zenon DEF EvaluateRequest
  <2>7. PICK e : e = [md[m] EXCEPT !.dfsAncestorIndex = anc, !.pendingAsyncDependencies = @ + more]
    OBVIOUS
  <2>8. e \in Records /\ e.status = md[m].status /\ e.record = md[m].record /\ e.cycleRoot = md[m].cycleRoot
        /\ e.error = md[m].error /\ e.dfsIndex = md[m].dfsIndex /\ e.dfsAncestorIndex = anc
        /\ e.asyncParentModules = md[m].asyncParentModules
    <3>1. md[m] \in Records /\ anc \in Nat /\ more \in {0, 1}
      BY <1>3, <1>y, <2>4, <2>5 DEF Records
    <3>2. PICK b, n : b = md[m] /\ n = md[m].pendingAsyncDependencies + more
      OBVIOUS
    <3>3. b \in Records /\ anc \in Nat /\ n \in Int /\ e = [b EXCEPT !.dfsAncestorIndex = anc, !.pendingAsyncDependencies = n]
      BY <3>1, <3>2, <2>7 DEF Records
    <3>4. e \in Records /\ e.status = b.status /\ e.record = b.record /\ e.cycleRoot = b.cycleRoot
          /\ e.error = b.error /\ e.dfsIndex = b.dfsIndex /\ e.dfsAncestorIndex = anc
          /\ e.asyncParentModules = b.asyncParentModules
      BY ONLY <3>3 DEF Records
    <3> QED
      BY <3>2, <3>4
  <2>9. md[q] \in Records /\ parents \in Seq(Module)
    BY <1>3, <1>y, <2>2, <2>5 DEF Records
  <2>10. \A x \in Module : md'[x] = LET b == IF x = m THEN e ELSE md[x]
                                    IN  IF x = q THEN [b EXCEPT !.asyncParentModules = parents] ELSE b
    <3>1. PICK one : one = [md EXCEPT ![m].dfsAncestorIndex = anc,
                                      ![m].pendingAsyncDependencies = @ + IF md[q].asyncEvaluating THEN 1 ELSE 0]
      OBVIOUS
    <3>2. one \in [Module -> Records] /\ one[m] = e /\ \A x \in Module \ {m} : one[x] = md[x]
      BY <3>1, <2>5, <2>7, <2>8, <1>3, <1>y
    <3>3. md' = [one EXCEPT ![q].asyncParentModules = IF md[q].asyncEvaluating THEN Append(@, m) ELSE @]
      BY <3>1, <2>6
    <3>4. one[q].asyncParentModules = md[q].asyncParentModules
      BY <3>2, <2>2, <2>8
    <3>5. md' = [one EXCEPT ![q].asyncParentModules = parents]
      BY <3>3, <3>4, <2>5
    <3> QED
      BY <3>2, <3>5, <2>2, <1>3
  <2>11. ASSUME NEW x \in Module
         PROVE  /\ md'[x] \in Records
                /\ md'[x].status = md[x].status /\ md'[x].record = md[x].record
                /\ md'[x].cycleRoot = md[x].cycleRoot /\ md'[x].error = md[x].error
                /\ md'[x].dfsIndex = md[x].dfsIndex
                /\ md'[x].dfsAncestorIndex = IF x = m THEN anc ELSE md[x].dfsAncestorIndex
    <3>1. PICK b : b = IF x = m THEN e ELSE md[x]
      OBVIOUS
    <3>2. /\ b \in Records /\ b.status = md[x].status /\ b.record = md[x].record
          /\ b.cycleRoot = md[x].cycleRoot /\ b.error = md[x].error /\ b.dfsIndex = md[x].dfsIndex
          /\ b.dfsAncestorIndex = IF x = m THEN anc ELSE md[x].dfsAncestorIndex
      BY <3>1, <2>8, <1>y
    <3>3. md'[x] = IF x = q THEN [b EXCEPT !.asyncParentModules = parents] ELSE b
      BY <3>1, <2>10
    <3>4. /\ md'[x] \in Records
          /\ md'[x].status = b.status /\ md'[x].record = b.record
          /\ md'[x].cycleRoot = b.cycleRoot /\ md'[x].error = b.error
          /\ md'[x].dfsIndex = b.dfsIndex /\ md'[x].dfsAncestorIndex = b.dfsAncestorIndex
      BY ONLY <3>2, <3>3, <2>9 DEF Records
    <3> QED
      BY <3>2, <3>4
  <2>12. md' \in [Module -> Records]
    <3>1. DOMAIN md' = Module /\ md' = [x \in Module |-> md'[x]]
      BY <2>6, <1>y
    <3> QED
      BY <3>1, <2>11
  <2>13. SameFindings
    BY <2>11, <1>u DEF SameFindings, SameRoots
  <2>14. RootsFound' /\ LinkedFound' /\ LinkedOrMore' = LinkedOrMore /\ Complete' = Complete
    BY <2>13, <1>t, FindingsKept
  <2>15. r \in out \/ md[r].status = "Evaluating"
    BY <1>7, <1>w, <2>1 DEF NeedsEvaluation
  <2>16. /\ frames' = <<Frame("innerModuleEvaluation", m, frames[1].i + 1)>> \o Tail(frames)
         /\ m = frames[1].m /\ frames[1].i <= Len(requests[m]) /\ r = requests[m][frames[1].i]
    BY <2>6, <1>2, <1>3, <1>m, <1>r
  <2>17. SameData(Module \ {m})
    BY <2>11, <2>12 DEF SameData
  <2>18. \A x \in Module : md'[x].status = md[x].status
    BY <2>11
  <2>19. stack' = stack /\ index' = index /\ call' = call /\ requests' = requests /\ Len(frames) > 1 /\ Types
    BY <2>6, <1>u, <1>s, <1>t
  <2>20. /\ md'[m].dfsIndex = md[m].dfsIndex
         /\ md'[m].dfsAncestorIndex = IF md[r].status = "Evaluating" /\ md[r].dfsAncestorIndex < md[m].dfsAncestorIndex
                                      THEN md[r].dfsAncestorIndex ELSE md[m].dfsAncestorIndex
    BY <2>4, <2>11, <1>3, SMTT(30)
  <2>21. Passes("innerModuleEvaluation", "Evaluating", out, m, r)
    BY ONLY <2>15, <2>16, <2>17, <2>18, <2>19, <2>20 DEF Passes
  <2>22. "innerModuleEvaluation" \in InnerNames /\ "Evaluating" \in WalkStatuses
    BY DEF InnerNames, WalkStatuses
  <2>23. /\ Walking("moduleEvaluation", "innerModuleEvaluation", "Evaluating", out)' /\ Len(frames') = Len(frames)
         /\ frames' \in Seq(FrameSet) /\ stack' \in Seq(Module) /\ index' \in Nat
         /\ frames'[Len(frames')] = frames[Len(frames)]
    BY ONLY <1>1, <2>19, <2>21, <2>22, PassWalks
  <2>24. Walking("moduleEvaluation", "innerModuleEvaluation", "Evaluating", Complete)'
    BY <2>14, <2>23, <1>w
  <2>25. InEvaluation'
    BY <2>14, <2>19, <2>23, <2>24, <1>i, <1>s DEF InEvaluation
  <2>26. Types'
    BY <1>t, <1>u, <2>6, <2>12, <2>23 DEF Types
  <2> QED
    BY <2>14, <2>25, <2>26 DEF ModulesInv, Stages
<1> QED
  BY <1>5, <1>6, <1>7

\* What the end of a call may do to the data before the cycle is popped.
Executed(data) ==
    /\ data \in [Module -> Records]
    /\ \A x \in Module :
          /\ data[x].status = md[x].status /\ data[x].record = md[x].record
          /\ data[x].cycleRoot = md[x].cycleRoot /\ (md[x].error => data[x].error)
          /\ data[x].dfsIndex = md[x].dfsIndex /\ data[x].dfsAncestorIndex = md[x].dfsAncestorIndex

\* The end of a call of innerModuleEvaluation.
LEMMA PopCycleKeeps ==
  ASSUME ModulesInv, AtEvaluateEnd, NEW data, Executed(data), PopCycle(Top.m, data),
         requests' = requests, kind' = kind, jobs' = jobs
  PROVE  ModulesInv'
<1>t. Types /\ RootsFound /\ LinkedFound /\ In("innerModuleEvaluation")
  BY DEF ModulesInv, AtEvaluateEnd
<1>s. InEvaluation /\ Len(frames) > 1
  BY <1>t, StageOf DEF ModulesInv
<1>w. PICK out : out = Complete
  OBVIOUS
<1>1. Walking("moduleEvaluation", "innerModuleEvaluation", "Evaluating", out)
  BY <1>s, <1>w DEF InEvaluation
<1>2. /\ Top = frames[1] /\ Top.m \in Module /\ Top.i \in Nat
      /\ call.m \in Module /\ md[Top.m].status = "Evaluating" /\ Len(requests[Top.m]) \in Nat
  BY <1>1, <1>s, <1>t, InnerCall
<1>m. PICK m : m = Top.m
  OBVIOUS
<1>3. m \in Module /\ m = frames[1].m /\ md[m].status = "Evaluating" /\ Len(requests[m]) < frames[1].i
  <2>1. Top.i > Len(requests[Top.m])
    BY DEF AtEvaluateEnd
  <2> QED
    BY <2>1, <1>2, <1>m
<1>y. md \in [Module -> Records] /\ requests \in [Module -> Seq(Module)]
  BY <1>t DEF Types
<1>i. frames[Len(frames)].i = 1
  BY <1>s DEF InEvaluation
<1>k. \A x \in Module : x \in ToSet(stack) => md[x].status = "Evaluating"
  BY <1>1 DEF Walking, HasStatus
<1>4. /\ IF IsCycleRoot(m)
         THEN /\ md' = [x \in Module |-> IF x \in ToSet(Popped(m))
                          THEN [data[x] EXCEPT !.status = "Evaluated", !.cycleRoot = m] ELSE data[x]]
              /\ found' = [x \in Module |-> IF x \in ToSet(Popped(m)) THEN m ELSE found[x]]
              /\ stack' = AfterPop(m)
         ELSE md' = data /\ stack' = stack /\ found' = found
      /\ frames' = Tail(frames) /\ index' = index /\ call' = call /\ imports' = imports
  BY <1>m DEF PopCycle
<1>5. /\ md' \in [Module -> Records]
      /\ \A x \in Module : /\ (md[x].error => md'[x].error) /\ md'[x].dfsIndex = md[x].dfsIndex
                           /\ md'[x].dfsAncestorIndex = md[x].dfsAncestorIndex /\ md'[x].record = md[x].record
      /\ IsCycleRoot(m) => \A x \in Module :
           /\ md'[x].status = IF x \in ToSet(Popped(m)) THEN "Evaluated" ELSE md[x].status
           /\ md'[x].cycleRoot = IF x \in ToSet(Popped(m)) THEN m ELSE md[x].cycleRoot
      /\ ~ IsCycleRoot(m) => \A x \in Module : md'[x].status = md[x].status /\ md'[x].cycleRoot = md[x].cycleRoot
  <2>1. CASE IsCycleRoot(m)
    <3>1. md' = [x \in Module |-> IF x \in ToSet(Popped(m))
                   THEN [data[x] EXCEPT !.status = "Evaluated", !.cycleRoot = m] ELSE data[x]]
      BY <2>1, <1>4
    <3>2. \A x \in Module : data[x] \in Records /\ md'[x] = IF x \in ToSet(Popped(m))
                   THEN [data[x] EXCEPT !.status = "Evaluated", !.cycleRoot = m] ELSE data[x]
      BY <3>1 DEF Executed
    <3>3. ASSUME NEW x \in Module
          PROVE  /\ md'[x] \in Records /\ md'[x].record = data[x].record
                 /\ md'[x].error = data[x].error /\ md'[x].dfsIndex = data[x].dfsIndex
                 /\ md'[x].dfsAncestorIndex = data[x].dfsAncestorIndex
                 /\ md'[x].status = IF x \in ToSet(Popped(m)) THEN "Evaluated" ELSE data[x].status
                 /\ md'[x].cycleRoot = IF x \in ToSet(Popped(m)) THEN m ELSE data[x].cycleRoot
      <4>1. PICK e : e = data[x]
        OBVIOUS
      <4>2. e \in Records
        BY <4>1, <3>2
      <4>3. CASE x \in ToSet(Popped(m))
        <5>1. md'[x] = [e EXCEPT !.status = "Evaluated", !.cycleRoot = m]
          BY <4>1, <4>3, <3>2
        <5> QED
          BY <5>1, <4>1, <4>2, <4>3, <1>3 DEF Records, Statuses
      <4>4. CASE x \notin ToSet(Popped(m))
        BY <4>4, <3>2
      <4> QED
        BY <4>3, <4>4
    <3>4. md' \in [Module -> Records]
      BY <3>1, <3>3
    <3> QED
      BY <3>3, <3>4, <2>1 DEF Executed
  <2>2. CASE ~ IsCycleRoot(m)
    <3>1. md' = data
      BY <2>2, <1>4
    <3> QED
      BY <3>1, <2>2 DEF Executed
  <2> QED
    BY <2>1, <2>2
<1>6. IsCycleRoot(m) => ToSet(Popped(m)) \subseteq Module /\ ToSet(Popped(m)) \subseteq ToSet(stack)
  <2>1. ToSet(stack) \subseteq Module
    BY <1>1 DEF Walking, HasStatus
  <2>2. IsCycleRoot(m) => ToSet(Popped(m)) \subseteq ToSet(stack)
    BY <1>1, <1>3, <1>s, <1>t, PoppedIsCycle DEF IsCycleRoot
  <2> QED
    BY <2>1, <2>2
<1>o. PICK out1 : out1 = IF IsCycleRoot(m) THEN out \union ToSet(Popped(m)) ELSE out
  OBVIOUS
<1>7. Returns(out, m, out1)
  <2>0. SameData(Module)
    BY <1>5 DEF SameData
  <2>1. CASE IsCycleRoot(m)
    <3>1. md[m].dfsAncestorIndex = md[m].dfsIndex /\ stack' = AfterPop(m) /\ out1 = out \union ToSet(Popped(m))
      BY <2>1, <1>4, <1>o DEF IsCycleRoot
    <3>2. /\ \A x \in ToSet(Popped(m)) : md'[x].status \notin WalkStatuses
          /\ \A x \in Module \ ToSet(Popped(m)) : md'[x].status = md[x].status
      BY <2>1, <1>5, <1>6 DEF WalkStatuses
    <3> QED
      BY <2>0, <3>1, <3>2, <1>3, <1>s, <1>4 DEF Returns
  <2>2. CASE ~ IsCycleRoot(m)
    <3>1. md[m].dfsAncestorIndex # md[m].dfsIndex /\ stack' = stack /\ out1 = out
      BY <2>2, <1>4, <1>o DEF IsCycleRoot
    <3>2. \A x \in Module : md'[x].status = md[x].status
      BY <2>2, <1>5
    <3> QED
      BY <2>0, <3>1, <3>2, <1>3, <1>s, <1>4 DEF Returns
  <2> QED
    BY <2>1, <2>2
<1>8. /\ Walking("moduleEvaluation", "innerModuleEvaluation", "Evaluating", out1)'
      /\ frames' \in Seq(FrameSet) /\ stack' \in Seq(Module) /\ index' \in Nat
      /\ frames'[Len(frames')] = frames[Len(frames)]
  <2>1. "innerModuleEvaluation" \in InnerNames /\ "Evaluating" \in WalkStatuses
    BY DEF InnerNames, WalkStatuses
  <2> QED
    BY ONLY <2>1, <1>7, <1>1, <1>t, ReturnWalks
<1>9. LinkedFound' /\ LinkedOrMore' = LinkedOrMore
  <2>1. \A x \in Module : x \in LinkedOrMore' <=> x \in LinkedOrMore
    BY <1>5, <1>6, <1>k DEF LinkedOrMore, HasStatus
  <2>2. LinkedOrMore' \subseteq Module /\ LinkedOrMore \subseteq Module
    BY DEF LinkedOrMore, HasStatus
  <2>3. LinkedOrMore' = LinkedOrMore
    BY ONLY <2>1, <2>2
  <2>4. \A x \in LinkedOrMore : md'[x].record = md[x].record
    BY <2>2, <1>5
  <2> QED
    BY <2>2, <2>3, <2>4, <1>t DEF LinkedFound
<1>10. RootsFound' /\ Complete' = out1
  <2>1. CASE IsCycleRoot(m)
    <3>p. PICK P : P = ToSet(Popped(m))
      OBVIOUS
    <3>1. /\ P \subseteq Module /\ \A x \in P : md[x].status = "Evaluating"
          /\ \A x \in P : \A k \in 1 .. Len(requests[x]) : requests[x][k] \in out \union P
          /\ \A x \in P : SameCycle(x, m)
      <4>1. /\ \A x \in P : \A k \in 1 .. Len(requests[x]) : requests[x][k] \in out \union P
            /\ \A x \in P : Reaches(m, x) /\ Reaches(x, m)
        BY <2>1, <3>p, <1>1, <1>3, <1>s, <1>t, PoppedIsCycle DEF IsCycleRoot
      <4>2. P \subseteq Module /\ \A x \in P : md[x].status = "Evaluating"
        BY <2>1, <3>p, <1>6, <1>k
      <4> QED
        BY <4>1, <4>2 DEF SameCycle
    <3>2. /\ out1 = out \union P /\ out \subseteq Module /\ m # None
          /\ \A x \in out : md[x].status = "Evaluated" /\ found[x] # None
      BY <2>1, <3>p, <1>o, <1>w, <1>3, ModulesAssumption DEF Complete, HasStatus
    <3>3. \A x \in Module : /\ md'[x].status = IF x \in P THEN "Evaluated" ELSE md[x].status
                            /\ md'[x].cycleRoot = IF x \in P THEN m ELSE md[x].cycleRoot
                            /\ found'[x] = IF x \in P THEN m ELSE found[x]
      BY <2>1, <3>p, <1>4, <1>5
    <3>4. \A x \in Module : x \in Complete' <=> x \in Complete \/ x \in P
      BY <3>2, <3>3 DEF Complete, HasStatus
    <3>5. Complete' = out1
      <4>1. Complete' \subseteq Module
        BY DEF Complete, HasStatus
      <4> QED
        BY ONLY <4>1, <3>1, <3>2, <3>4, <1>w
    <3>6. \A x \in Module : found'[x] # None =>
            md'[x].status = "Evaluated" \/ (kind'[x] = "json" /\ found'[x] = x)
      BY <3>3, <1>t DEF RootsFound
    <3>7. \A x \in Module : md'[x].status = "Evaluated" /\ ~ md'[x].error => found'[x] # None
      BY <3>2, <3>3, <1>5, <1>t DEF RootsFound
    <3>8. \A x \in out : \A k \in 1 .. Len(requests[x]) : requests[x][k] \in out
      BY <1>t, <1>w DEF RootsFound
    <3>9. \A x \in out1 : \A k \in 1 .. Len(requests[x]) : requests[x][k] \in out1
      BY <3>1, <3>2, <3>8
    <3>10. \A x \in out1 : SameCycle(x, found'[x])
      <4> SUFFICES ASSUME NEW x \in out1 PROVE SameCycle(x, found'[x])
        OBVIOUS
      <4>1. CASE x \in P
        BY <4>1, <3>1, <3>3
      <4>2. CASE x \in out /\ x \notin P
        <5>1. found'[x] = found[x]
          BY <4>2, <3>2, <3>3
        <5> QED
          BY <5>1, <4>2, <1>t, <1>w DEF RootsFound
      <4> QED
        BY <4>1, <4>2, <3>2
    <3>11. ASSUME NEW x \in out, NEW r \in Module, SameCycle(x, r) PROVE r \in out
      <4>1. PICK g : g = requests
        OBVIOUS
      <4>2. Closed(g, out)
        <5>1. \A z \in out : g[z] \in Seq(Module)
          BY <4>1, <1>y, <3>2
        <5> QED
          BY <5>1, <4>1, <3>8 DEF Closed, ToSet
      <4>3. out \in SUBSET Module /\ ReachesIn(g, x, r) /\ x \in out
        BY <4>1, <3>2, <3>11 DEF SameCycle, Reaches
      <4> QED
        BY ONLY <4>2, <4>3, ReachesWithin
    <3>12. \A x, r \in out1 : SameCycle(x, r) => found'[x] = found'[r]
      <4> SUFFICES ASSUME NEW x \in out1, NEW r \in out1, SameCycle(x, r)
                   PROVE  found'[x] = found'[r]
        OBVIOUS
      <4>0. x \in Module /\ r \in Module /\ SameCycle(r, x)
        BY <3>1, <3>2 DEF SameCycle
      <4>1. CASE x \in out
        <5>1. r \in out
          BY <4>0, <4>1, <3>11
        <5>2. x \notin P /\ r \notin P
          BY <5>1, <4>1, <3>1, <3>2
        <5>3. found[x] = found[r]
          BY <5>1, <4>1, <1>t, <1>w DEF RootsFound
        <5> QED
          BY <5>2, <5>3, <4>0, <3>3
      <4>2. CASE x \notin out
        <5>1. r \notin out
          BY <4>0, <4>2, <3>11
        <5> QED
          BY <5>1, <4>0, <4>2, <3>2, <3>3
      <4> QED
        BY <4>1, <4>2
    <3>13. \A x, r : SameCycle(x, r)' <=> SameCycle(x, r)
      BY DEF SameCycle, Reaches
    <3>14. RootsKnown'
      <4>1. found' \in [Module -> Module \union {None}]
        <5>1. found' = [x \in Module |-> IF x \in ToSet(Popped(m)) THEN m ELSE found[x]]
          BY <2>1, <1>4
        <5>2. found \in [Module -> Module \union {None}]
          BY <1>t DEF RootsFound, RootsKnown
        <5> QED
          BY ONLY <5>1, <5>2, <1>3
      <4> QED
        BY <4>1, <3>3, <1>t DEF RootsFound, RootsKnown
    <3> QED
      BY <3>5, <3>6, <3>7, <3>9, <3>10, <3>12, <3>13, <3>14 DEF RootsFound
  <2>2. CASE ~ IsCycleRoot(m)
    <3>1. SameRoots
      BY <2>2, <1>4, <1>5 DEF SameRoots
    <3> QED
      BY <3>1, <2>2, <1>o, <1>w, <1>t, RootsStay
  <2> QED
    BY <2>1, <2>2
<1>11. Walking("moduleEvaluation", "innerModuleEvaluation", "Evaluating", Complete)'
  BY <1>8, <1>10
<1>12. InEvaluation'
  BY <1>4, <1>8, <1>9, <1>11, <1>i, <1>s DEF InEvaluation
<1>13. Types'
  BY <1>t, <1>4, <1>5, <1>8 DEF Types
<1> QED
  BY <1>9, <1>10, <1>12, <1>13 DEF ModulesInv, Stages

LEMMA EvaluateEndKeeps ==
  ASSUME ModulesInv, EvaluateSynthetic \/ EvaluateDeferred \/ EvaluateAsync \/ EvaluateSync
  PROVE  ModulesInv'
<1>t. Types
  BY DEF ModulesInv
<1>y. md \in [Module -> Records]
  BY <1>t DEF Types
<1>u. AtEvaluateEnd /\ requests' = requests /\ kind' = kind /\ jobs' = jobs
  BY DEF EvaluateSynthetic, EvaluateDeferred, EvaluateAsync, EvaluateSync, env, scenario, history
<1>m. PICK m : m = Top.m
  OBVIOUS
<1>1. m \in Module
  BY <1>t, <1>u, <1>m, TopIsFirst DEF AtEvaluateEnd, In, Types
<1>2. md[m] \in Records
  BY <1>1, <1>y
<1>3. \A b \in BOOLEAN : Executed([md EXCEPT ![m].error = @ \/ b])
  <2> SUFFICES ASSUME NEW b \in BOOLEAN PROVE Executed([md EXCEPT ![m].error = @ \/ b])
    OBVIOUS
  <2>1. PICK c, e, data : c = (md[m].error \/ b) /\ e = md[m] /\ data = [md EXCEPT ![m].error = @ \/ b]
    OBVIOUS
  <2>2. c \in BOOLEAN /\ (md[m].error => c)
    BY <2>1, Zenon
  <2>3. data = [md EXCEPT ![m] = [e EXCEPT !.error = c]]
    BY <2>1
  <2>4. e \in Records
    BY <2>1, <1>2
  <2>5. PICK f : f = [e EXCEPT !.error = c]
    OBVIOUS
  <2>6. /\ f \in Records /\ f.status = e.status /\ f.record = e.record /\ f.cycleRoot = e.cycleRoot
        /\ f.error = c /\ f.dfsIndex = e.dfsIndex /\ f.dfsAncestorIndex = e.dfsAncestorIndex
    BY ONLY <2>2, <2>4, <2>5 DEF Records
  <2>7. data \in [Module -> Records] /\ data[m] = f /\ \A x \in Module \ {m} : data[x] = md[x]
    BY <2>3, <2>5, <2>6, <1>1, <1>y
  <2>8. Executed(data)
    BY <2>1, <2>2, <2>6, <2>7, <1>1 DEF Executed
  <2> QED
    BY <2>1, <2>8
<1>4. Executed([md EXCEPT ![m].asyncEvaluating = TRUE])
  <2>1. PICK f, e, data : e = md[m] /\ f = [e EXCEPT !.asyncEvaluating = TRUE]
                          /\ data = [md EXCEPT ![m].asyncEvaluating = TRUE]
    OBVIOUS
  <2>2. TRUE \in BOOLEAN
    BY Zenon
  <2>3. e \in Records /\ f = [e EXCEPT !.asyncEvaluating = TRUE]
    BY <2>1, <1>2
  <2>4. /\ f \in Records /\ f.status = e.status /\ f.record = e.record /\ f.cycleRoot = e.cycleRoot
        /\ f.error = e.error /\ f.dfsIndex = e.dfsIndex /\ f.dfsAncestorIndex = e.dfsAncestorIndex
    BY ONLY <2>2, <2>3 DEF Records
  <2>5. data \in [Module -> Records] /\ data[m] = f /\ \A x \in Module \ {m} : data[x] = md[x]
    BY <2>1, <2>4, <1>1, <1>y
  <2>6. Executed(data)
    BY <2>1, <2>4, <2>5, <1>1 DEF Executed
  <2> QED
    BY <2>1, <2>6
<1>5. Executed(md)
  BY <1>y DEF Executed
<1>6. ASSUME NEW data, Executed(data), PopCycle(m, data) PROVE ModulesInv'
  BY <1>6, <1>m, <1>u, PopCycleKeeps
<1>7. CASE EvaluateSynthetic
  <2>1. PICK fails \in {FALSE, BodiesThrow} : PopCycle(m, [md EXCEPT ![m].error = @ \/ fails])
    BY <1>7, <1>m DEF EvaluateSynthetic
  <2>2. fails \in BOOLEAN
    BY ModulesAssumption, Zenon
  <2> QED
    BY <2>1, <2>2, <1>3, <1>6
<1>8. CASE EvaluateDeferred
  <2>1. PopCycle(m, [md EXCEPT ![m].asyncEvaluating = TRUE])
    BY <1>8, <1>m DEF EvaluateDeferred
  <2> QED
    BY <2>1, <1>4, <1>6
<1>9. CASE EvaluateAsync
  <2>1. PopCycle(m, [md EXCEPT ![m].asyncEvaluating = TRUE])
    BY <1>9, <1>m DEF EvaluateAsync
  <2> QED
    BY <2>1, <1>4, <1>6
<1>10. CASE EvaluateSync
  <2>1. PopCycle(m, md) \/ (FailWalk /\ found' = found)
    BY <1>10, <1>m DEF EvaluateSync
  <2>2. InEvaluation
    BY <1>t, <1>u, StageOf DEF ModulesInv, AtEvaluateEnd
  <2> QED
    BY <2>1, <2>2, <1>5, <1>6, <1>u, FailWalkKeeps
<1> QED
  BY <1>7, <1>8, <1>9, <1>10

-----------------------------------------------------------------------------
(* Steps while no walk is in progress                                       *)

AsyncFrames == {f \in FrameSet : f.fn \in {"asyncModuleFulfilled", "asyncModuleRejected"}}

LEMMA IdleIsNoWalk ==
  ASSUME ModulesInv, Idle
  PROVE  /\ Types /\ NoWalk /\ frames = << >> /\ stack = << >>
         /\ \A x \in Module : md[x].status \notin WalkStatuses
<1>1. Types /\ frames = << >>
  BY DEF ModulesInv, Idle
<1>2. NoWalk
  BY <1>1 DEF ModulesInv, Stages, InLinking, InEvaluation, Walking
<1>3. HasStatus({"Linking", "Evaluating"}) = {} /\ stack = << >>
  BY <1>2 DEF NoWalk
<1> QED
  BY <1>1, <1>2, <1>3 DEF HasStatus, WalkStatuses

LEMMA AsyncCalls ==
  ASSUME ModulesInv, NEW f \in {"asyncModuleFulfilled", "asyncModuleRejected"}, In(f)
  PROVE  /\ Types /\ NoWalk /\ frames \in Seq(AsyncFrames) /\ frames # << >>
         /\ Tail(frames) \in Seq(AsyncFrames) /\ Top.m \in Module /\ Top.i \in Nat /\ Top.fn = f
<1>1. Types /\ NoWalk
  BY StageOf DEF ModulesInv
<1>2. frames \in Seq(FrameSet) /\ frames # << >> /\ Top.fn = f
  BY <1>1 DEF Types, In
<1>3. frames \in Seq(AsyncFrames)
  <2>1. \A j \in 1 .. Len(frames) : frames[j] \in AsyncFrames
    BY <1>1, <1>2 DEF NoWalk, AsyncFrames
  <2> QED
    BY <2>1, <1>2
<1>4. Tail(frames) \in Seq(AsyncFrames)
  BY ONLY <1>2, <1>3, SMTT(30)
<1> QED
  BY <1>1, <1>2, <1>3, <1>4, TopIsFirst

\* A step between walks changes nothing that the findings are about.
LEMMA AwayKeeps ==
  ASSUME ModulesInv, NoWalk, md' \in [Module -> Records],
         \A x \in Module : /\ md'[x].status = md[x].status /\ md'[x].record = md[x].record
                           /\ md'[x].cycleRoot = md[x].cycleRoot /\ (md[x].error => md'[x].error),
         frames' \in Seq(AsyncFrames), stack' = << >>, index' \in Nat,
         jobs' \in Seq(JobSet), imports' \in Seq(ImportSet), call' \in CallSet,
         requests' = requests, kind' = kind, found' = found
  PROVE  ModulesInv'
<1>t. Types /\ RootsFound /\ LinkedFound
  BY DEF ModulesInv
<1>1. SameFindings
  BY DEF SameFindings, SameRoots
<1>2. frames' \in Seq(FrameSet) /\ \A j \in 1 .. Len(frames') : frames'[j] \in AsyncFrames
  <2>1. AsyncFrames \subseteq FrameSet
    BY DEF AsyncFrames
  <2> QED
    BY <2>1
<1>3. Types'
  BY <1>t, <1>2 DEF Types
<1>4. NoWalk'
  <2>1. HasStatus({"Linking", "Evaluating"})' = {}
    BY DEF NoWalk, HasStatus
  <2>2. \A j \in 1 .. Len(frames') : frames'[j].fn \in {"asyncModuleFulfilled", "asyncModuleRejected"}
    BY <1>2 DEF AsyncFrames
  <2> QED
    BY <2>1, <2>2 DEF NoWalk
<1> QED
  BY <1>1, <1>3, <1>4, <1>t, FindingsKept DEF ModulesInv, Stages

LEMMA FirstJob ==
  ASSUME jobs \in Seq(JobSet), jobs # << >>
  PROVE  /\ Head(jobs).m \in Module /\ Head(jobs).p \in Nat /\ Tail(jobs) \in Seq(JobSet)
         /\ Head(jobs).fn \in {"importRejected", "importResolved", "asyncModuleFulfilled", "asyncModuleRejected"}
<1>1. Head(jobs) \in JobSet
  OBVIOUS
<1>2. Tail(jobs) \in Seq(JobSet)
  BY SMTT(30)
<1> QED
  BY <1>1, <1>2 DEF JobSet

LEMMA ImportKeeps ==
  ASSUME ModulesInv, NEW m \in Module, Import(m)
  PROVE  ModulesInv'
<1>1. /\ Types /\ NoWalk /\ frames = << >> /\ stack = << >>
  BY IdleIsNoWalk DEF Import
<1>2. requests' = requests /\ kind' = kind /\ found' = found /\ md' = md /\ frames' = frames /\ stack' = stack /\ index' = index
      /\ call' = call
  BY DEF Import, env, scenario, history
<1>3. md \in [Module -> Records] /\ index \in Nat /\ call \in CallSet /\ jobs \in Seq(JobSet)
      /\ imports \in Seq(ImportSet) /\ frames \in Seq(AsyncFrames)
  BY <1>1 DEF Types
<1>4. imports' \in Seq(ImportSet)
  <2>1. [m |-> m, state |-> "queued"] \in ImportSet
    BY DEF ImportSet
  <2> QED
    BY <2>1, <1>3 DEF Import
<1>5. jobs' \in Seq(JobSet)
  <2>1. PICK n, f : /\ n = Len(imports) + 1 /\ f \in {"importRejected", "importResolved"}
                    /\ jobs' = Append(jobs, [fn |-> f, m |-> m, p |-> n])
    BY DEF Import
  <2>2. [fn |-> f, m |-> m, p |-> n] \in JobSet
    BY <2>1, <1>3 DEF JobSet
  <2> QED
    BY <2>1, <2>2, <1>3
<1> QED
  BY <1>1, <1>2, <1>3, <1>4, <1>5, AwayKeeps

LEMMA ImportRejectedKeeps ==
  ASSUME ModulesInv, ImportRejected
  PROVE  ModulesInv'
<1>1. /\ Types /\ NoWalk /\ frames = << >> /\ stack = << >>
  BY IdleIsNoWalk DEF ImportRejected
<1>2. requests' = requests /\ kind' = kind /\ found' = found /\ md' = md /\ frames' = frames /\ stack' = stack /\ index' = index
      /\ call' = call /\ jobs' = Tail(jobs) /\ jobs # << >> /\ imports' = Settled({Head(jobs).p}, "rejected")
  BY DEF ImportRejected, env, scenario, history
<1>3. md \in [Module -> Records] /\ index \in Nat /\ call \in CallSet /\ jobs \in Seq(JobSet)
      /\ imports \in Seq(ImportSet) /\ frames \in Seq(AsyncFrames)
  BY <1>1 DEF Types
<1>4. imports' \in Seq(ImportSet)
  BY <1>2, <1>3, SettledType
<1>5. jobs' \in Seq(JobSet)
  BY <1>2, <1>3, FirstJob
<1> QED
  BY <1>1, <1>2, <1>3, <1>4, <1>5, AwayKeeps

\* moduleLinking is called.
LEMMA LinkingBegins ==
  ASSUME ModulesInv, Idle, call' \in CallSet, call'.m \in Module,
         call'.op # "instantiate" => md[call'.m].status # "Evaluated",
         frames' = <<Frame("moduleLinking", call'.m, 1)>>, index' = 0, stack' = << >>,
         md' = md, imports' = imports, jobs' \in Seq(JobSet), requests' = requests, kind' = kind,
         found' = found
  PROVE  ModulesInv'
<1>t. Types /\ RootsFound /\ LinkedFound
  BY DEF ModulesInv
<1>1. \A x \in Module : md[x].status \notin WalkStatuses
  BY IdleIsNoWalk
<1>2. SameFindings
  BY DEF SameFindings, SameRoots
<1>3. RootsFound' /\ LinkedFound' /\ LinkedOrMore' = LinkedOrMore
  BY <1>2, <1>t, FindingsKept
<1>w. PICK out : out = LinkedOrMore
  OBVIOUS
<1>4. out \subseteq Module /\ "Linking" \in WalkStatuses /\ 1 \in Nat
  BY <1>w DEF LinkedOrMore, HasStatus, WalkStatuses
<1>5. /\ Walking("moduleLinking", "innerModuleLinking", "Linking", out)'
      /\ frames' \in Seq(FrameSet)
  BY <1>t, <1>1, <1>4, WalkBegins
<1>6. Walking("moduleLinking", "innerModuleLinking", "Linking", LinkedOrMore)'
  BY <1>5, <1>3, <1>w
<1>7. ToSet(stack') = {}
  BY DEF ToSet
<1>8. InLinking'
  BY <1>6, <1>7 DEF InLinking
<1>9. Types'
  BY <1>t, <1>5 DEF Types
<1> QED
  BY <1>3, <1>8, <1>9 DEF ModulesInv, Stages

\* moduleEvaluation is called by the host.
LEMMA EvaluationBegins ==
  ASSUME ModulesInv, Idle, call' \in CallSet, call'.m \in Module,
         md[call'.m].status \in {"Linked", "Evaluated"},
         frames' = <<Frame("moduleEvaluation", call'.m, 0)>>, index' = 0, stack' = << >>,
         md' = md, imports' = imports, jobs' \in Seq(JobSet), requests' = requests, kind' = kind,
         found' = found
  PROVE  ModulesInv'
<1>t. Types /\ RootsFound /\ LinkedFound
  BY DEF ModulesInv
<1>1. \A x \in Module : md[x].status \notin WalkStatuses
  BY IdleIsNoWalk
<1>2. SameFindings
  BY DEF SameFindings, SameRoots
<1>3. RootsFound' /\ LinkedFound' /\ LinkedOrMore' = LinkedOrMore /\ Complete' = Complete
  BY <1>2, <1>t, FindingsKept
<1>w. PICK out : out = Complete
  OBVIOUS
<1>4. out \subseteq Module /\ "Evaluating" \in WalkStatuses /\ 0 \in Nat
  BY <1>w DEF Complete, HasStatus, WalkStatuses
<1>5. /\ Walking("moduleEvaluation", "innerModuleEvaluation", "Evaluating", out)'
      /\ frames' \in Seq(FrameSet) /\ Len(frames') = 1 /\ frames'[Len(frames')].i = 0
  BY <1>t, <1>1, <1>4, WalkBegins
<1>6. Walking("moduleEvaluation", "innerModuleEvaluation", "Evaluating", Complete)'
  BY <1>5, <1>3, <1>w
<1>7. call'.m \in LinkedOrMore'
  BY <1>3 DEF LinkedOrMore, HasStatus
<1>8. InEvaluation'
  BY <1>5, <1>6, <1>7 DEF InEvaluation
<1>9. Types'
  BY <1>t, <1>5 DEF Types
<1> QED
  BY <1>3, <1>8, <1>9 DEF ModulesInv, Stages

LEMMA ImportResolvedKeeps ==
  ASSUME ModulesInv, ImportResolved
  PROVE  ModulesInv'
<1>1. Idle /\ Types /\ NoWalk /\ frames = << >> /\ stack = << >>
  BY IdleIsNoWalk DEF ImportResolved
<1>2. requests' = requests /\ kind' = kind /\ found' = found /\ index' = 0 /\ stack' = << >> /\ jobs # << >> /\ jobs' = Tail(jobs)
  BY DEF ImportResolved, env, scenario, history
<1>3. md \in [Module -> Records] /\ call \in CallSet /\ jobs \in Seq(JobSet)
      /\ imports \in Seq(ImportSet) /\ frames \in Seq(AsyncFrames)
  BY <1>1 DEF Types
<1>4. PICK m, p : m = Head(jobs).m /\ p = Head(jobs).p
  OBVIOUS
<1>5. m \in Module /\ p \in Nat /\ jobs' \in Seq(JobSet)
  BY <1>2, <1>3, <1>4, FirstJob
<1>6. CASE isExecuted(m)
  <2>1. ImportReturns(m, p, md) /\ frames' = frames /\ call' = call
    BY <1>6, <1>4 DEF ImportResolved
  <2>2. Like(md) /\ imports' \in Seq(ImportSet)
    BY <2>1, <1>3, <1>5, ImportReturnsData
  <2>3. /\ md' \in [Module -> Records]
        /\ \A x \in Module : /\ md'[x].status = md[x].status /\ md'[x].record = md[x].record
                             /\ md'[x].cycleRoot = md[x].cycleRoot /\ (md[x].error => md'[x].error)
    BY <2>2 DEF Like
  <2> QED
    BY <2>1, <2>2, <2>3, <1>1, <1>2, <1>3, <1>5, AwayKeeps
<1>7. CASE ~ isExecuted(m)
  <2>1. /\ call' = [op |-> "import", m |-> m, p |-> p] /\ frames' = <<Frame("moduleLinking", m, 1)>>
        /\ md' = md /\ imports' = imports
    BY <1>7, <1>4 DEF ImportResolved
  <2>2. call' \in CallSet /\ call'.m = m
    BY <2>1, <1>5 DEF CallSet
  <2>3. md[m].status # "Evaluated"
    BY <1>7 DEF isExecuted
  <2> QED
    BY <2>1, <2>2, <2>3, <1>1, <1>2, <1>5, LinkingBegins
<1> QED
  BY <1>6, <1>7

LEMMA HostCallKeeps ==
  ASSUME ModulesInv, NEW op \in HostCalls, NEW m \in Module, HostCall(op, m)
  PROVE  ModulesInv'
<1>1. Idle /\ Types /\ HostMayCall(op, m)
  BY DEF HostCall, HostMayCall, ModulesInv
<1>2. requests' = requests /\ kind' = kind /\ found' = found /\ index' = 0 /\ stack' = << >> /\ jobs' = jobs /\ md' = md
      /\ imports' = imports /\ call' = [op |-> op, m |-> m, p |-> 0]
  BY DEF HostCall, env, scenario, history
<1>3. op \in {"execute", "instantiate", "evaluate"} /\ jobs \in Seq(JobSet)
  BY <1>1, ModulesAssumption DEF Types
<1>4. call' \in CallSet /\ call'.m = m /\ call'.op = op
  BY <1>2, <1>3 DEF CallSet
<1>5. CASE op = "evaluate"
  <2>1. frames' = <<Frame("moduleEvaluation", m, 0)>>
    BY <1>5 DEF HostCall
  <2>2. md[m].status \in {"Linked", "Evaluated"}
    BY <1>1, <1>5 DEF HostMayCall
  <2> QED
    BY <2>1, <2>2, <1>1, <1>2, <1>3, <1>4, EvaluationBegins
<1>6. CASE op # "evaluate"
  <2>1. frames' = <<Frame("moduleLinking", m, 1)>>
    BY <1>6 DEF HostCall
  <2>2. op # "instantiate" => md[m].status # "Evaluated"
    BY <1>1, <1>3, <1>6 DEF HostMayCall
  <2> QED
    BY <2>1, <2>2, <1>1, <1>2, <1>3, <1>4, LinkingBegins
<1> QED
  BY <1>5, <1>6

\* A host call that dies leaves everything as it is.
LEMMA HostCallDiesKeeps ==
  ASSUME ModulesInv, NEW op \in HostCalls, NEW m \in Module, HostCallDies(op, m)
  PROVE  ModulesInv'
<1>1. Types /\ NoWalk /\ frames = << >> /\ stack = << >>
  BY IdleIsNoWalk DEF HostCallDies, HostMayCall
<1>2. requests' = requests /\ kind' = kind /\ found' = found /\ md' = md /\ frames' = frames /\ stack' = stack
      /\ index' = index /\ call' = call /\ imports' = imports /\ jobs' = jobs
  BY DEF HostCallDies, env, history
<1>3. md \in [Module -> Records] /\ index \in Nat /\ call \in CallSet /\ jobs \in Seq(JobSet)
      /\ imports \in Seq(ImportSet) /\ frames \in Seq(AsyncFrames)
  BY <1>1 DEF Types
<1> QED
  BY <1>1, <1>2, <1>3, AwayKeeps

LEMMA BodyEndsKeeps ==
  ASSUME ModulesInv, NEW m \in Module, BodyEnds(m)
  PROVE  ModulesInv'
<1>1. Types /\ NoWalk /\ frames = << >> /\ stack = << >>
  BY IdleIsNoWalk DEF BodyEnds
<1>2. requests' = requests /\ kind' = kind /\ found' = found /\ md' = md /\ frames' = frames /\ stack' = stack /\ index' = index
      /\ call' = call /\ imports' = imports
  BY DEF BodyEnds, env, scenario, history
<1>3. md \in [Module -> Records] /\ index \in Nat /\ call \in CallSet /\ jobs \in Seq(JobSet)
      /\ imports \in Seq(ImportSet) /\ frames \in Seq(AsyncFrames)
  BY <1>1 DEF Types
<1>4. jobs' \in Seq(JobSet)
  <2>1. PICK f \in {"asyncModuleRejected", "asyncModuleFulfilled"} :
           jobs' = Append(jobs, [fn |-> f, m |-> m, p |-> 0])
    BY DEF BodyEnds
  <2>2. [fn |-> f, m |-> m, p |-> 0] \in JobSet
    BY DEF JobSet
  <2> QED
    BY <2>1, <2>2, <1>3
<1> QED
  BY <1>1, <1>2, <1>3, <1>4, AwayKeeps

LEMMA BodyJobKeeps ==
  ASSUME ModulesInv, BodyJob
  PROVE  ModulesInv'
<1>1. Types /\ NoWalk /\ frames = << >> /\ stack = << >>
  BY IdleIsNoWalk DEF BodyJob
<1>2. requests' = requests /\ kind' = kind /\ found' = found /\ md' = md /\ stack' = stack /\ index' = index
      /\ call' = call /\ imports' = imports /\ jobs # << >> /\ jobs' = Tail(jobs)
      /\ frames' = <<Frame(Head(jobs).fn, Head(jobs).m, 0)>>
      /\ Head(jobs).fn \in {"asyncModuleFulfilled", "asyncModuleRejected"}
  BY DEF BodyJob, env, scenario, history
<1>3. md \in [Module -> Records] /\ index \in Nat /\ call \in CallSet /\ jobs \in Seq(JobSet)
      /\ imports \in Seq(ImportSet)
  BY <1>1 DEF Types
<1>4. jobs' \in Seq(JobSet) /\ Head(jobs).m \in Module
  BY <1>2, <1>3, FirstJob
<1>5. frames' \in Seq(AsyncFrames)
  <2>1. Frame(Head(jobs).fn, Head(jobs).m, 0) \in AsyncFrames
    BY <1>2, <1>4 DEF Frame, AsyncFrames, FrameSet
  <2> QED
    BY <2>1, <1>2
<1> QED
  BY <1>1, <1>2, <1>3, <1>4, <1>5, AwayKeeps

\* The data of one module changes in a way no finding is about.
SlightlyChanged(data, m, e) ==
    /\ data = [md EXCEPT ![m] = e] /\ e \in Records
    /\ e.status = md[m].status /\ e.record = md[m].record /\ e.cycleRoot = md[m].cycleRoot
    /\ (md[m].error => e.error)

LEMMA SlightChange ==
  ASSUME md \in [Module -> Records], NEW m \in Module, NEW e, NEW data, SlightlyChanged(data, m, e)
  PROVE  /\ data \in [Module -> Records]
         /\ \A x \in Module : /\ data[x].status = md[x].status /\ data[x].record = md[x].record
                              /\ data[x].cycleRoot = md[x].cycleRoot /\ (md[x].error => data[x].error)
<1>1. data \in [Module -> Records] /\ data[m] = e /\ \A x \in Module \ {m} : data[x] = md[x]
  BY DEF SlightlyChanged
<1> QED
  BY <1>1 DEF SlightlyChanged

\* A step of asyncModuleFulfilled or of asyncModuleRejected.
LEMMA AsyncStepKeeps ==
  ASSUME ModulesInv, NEW f \in {"asyncModuleFulfilled", "asyncModuleRejected"}, In(f),
         md' \in [Module -> Records],
         \A x \in Module : /\ md'[x].status = md[x].status /\ md'[x].record = md[x].record
                           /\ md'[x].cycleRoot = md[x].cycleRoot /\ (md[x].error => md'[x].error),
         frames' \in Seq(AsyncFrames), imports' \in Seq(ImportSet),
         UNCHANGED <<scenario, found, stack, index, call, jobs>>
  PROVE  ModulesInv'
<1>1. Types /\ NoWalk
  BY AsyncCalls
<1>2. requests' = requests /\ kind' = kind /\ found' = found /\ stack' = stack /\ index' = index /\ call' = call /\ jobs' = jobs
  BY DEF env, scenario, history
<1>3. index \in Nat /\ call \in CallSet /\ jobs \in Seq(JobSet) /\ stack = << >>
  BY <1>1 DEF Types, NoWalk
<1> QED
  BY <1>1, <1>2, <1>3, AwayKeeps

LEMMA BeginKeeps ==
  ASSUME ModulesInv, FulfilledBegin \/ RejectedBegin
  PROVE  ModulesInv'
<1>f. PICK f \in {"asyncModuleFulfilled", "asyncModuleRejected"} : In(f)
  BY DEF FulfilledBegin, RejectedBegin
<1>1. /\ Types /\ Tail(frames) \in Seq(AsyncFrames) /\ Top.m \in Module /\ Top.fn = f
  BY <1>f, AsyncCalls
<1>m. PICK m : m = Top.m
  OBVIOUS
<1>2. md \in [Module -> Records] /\ imports \in Seq(ImportSet) /\ m \in Module
  BY <1>1, <1>m DEF Types
<1>3. UNCHANGED <<scenario, found, stack, index, call, jobs>> /\ imports' = imports
  BY DEF FulfilledBegin, RejectedBegin, env, scenario, history
<1>4. frames' \in Seq(AsyncFrames)
  <2>1. Frame(Top.fn, Top.m, 1) \in AsyncFrames
    BY <1>1 DEF Frame, AsyncFrames, FrameSet
  <2>2. frames' = <<Frame(Top.fn, Top.m, 1)>> \o Tail(frames) \/ frames' = Tail(frames)
    BY DEF FulfilledBegin, RejectedBegin
  <2> QED
    BY <2>1, <2>2, <1>1, SMTT(30)
<1>5. PICK e : e = md[m]
  OBVIOUS
<1>6. e \in Records
  BY <1>2, <1>5
<1>b. TRUE \in BOOLEAN /\ FALSE \in BOOLEAN
  BY Zenon
<1>7. SlightlyChanged(md, m, e)
  BY <1>2, <1>5, <1>6 DEF SlightlyChanged
<1>8. SlightlyChanged([md EXCEPT ![m].asyncEvaluating = FALSE], m, [e EXCEPT !.asyncEvaluating = FALSE])
  <2>1. PICK d : d = [e EXCEPT !.asyncEvaluating = FALSE]
    OBVIOUS
  <2>2. d \in Records /\ d.status = e.status /\ d.record = e.record /\ d.cycleRoot = e.cycleRoot /\ d.error = e.error
    BY ONLY <2>1, <1>6, <1>b DEF Records
  <2> QED
    BY <2>1, <2>2, <1>5 DEF SlightlyChanged
<1>9. SlightlyChanged([md EXCEPT ![m].error = TRUE, ![m].asyncEvaluating = FALSE], m,
                      [e EXCEPT !.error = TRUE, !.asyncEvaluating = FALSE])
  <2>1. PICK d : d = [e EXCEPT !.error = TRUE, !.asyncEvaluating = FALSE]
    OBVIOUS
  <2>2. d \in Records /\ d.status = e.status /\ d.record = e.record /\ d.cycleRoot = e.cycleRoot /\ d.error = TRUE
    BY ONLY <2>1, <1>6, <1>b DEF Records
  <2>3. [md EXCEPT ![m].error = TRUE, ![m].asyncEvaluating = FALSE] = [md EXCEPT ![m] = d]
    BY <2>1, <1>2, <1>5
  <2> QED
    BY <2>1, <2>2, <2>3, <1>5 DEF SlightlyChanged
<1>10. \/ md' = md \/ md' = [md EXCEPT ![m].asyncEvaluating = FALSE]
       \/ md' = [md EXCEPT ![m].error = TRUE, ![m].asyncEvaluating = FALSE]
  BY <1>m DEF FulfilledBegin, RejectedBegin
<1>11. PICK d, data : md' = data /\ SlightlyChanged(data, m, d)
  BY <1>7, <1>8, <1>9, <1>10
<1>12. /\ md' \in [Module -> Records]
       /\ \A x \in Module : /\ md'[x].status = md[x].status /\ md'[x].record = md[x].record
                            /\ md'[x].cycleRoot = md[x].cycleRoot /\ (md[x].error => md'[x].error)
  BY <1>2, <1>11, SlightChange
<1> QED
  BY <1>f, <1>2, <1>3, <1>4, <1>12, AsyncStepKeeps

LEMMA FulfilledParentKeeps ==
  ASSUME ModulesInv, FulfilledParent
  PROVE  ModulesInv'
<1>f. In("asyncModuleFulfilled") /\ Top.i \in 1 .. Len(md[Top.m].asyncParentModules)
  BY Zenon DEF FulfilledParent
<1>1. /\ Types /\ frames \in Seq(AsyncFrames) /\ Tail(frames) \in Seq(AsyncFrames) /\ Top.m \in Module
      /\ Top.i \in Nat /\ Top.fn = "asyncModuleFulfilled"
  BY <1>f, AsyncCalls
<1>q. PICK q : q = md[Top.m].asyncParentModules[Top.i]
  OBVIOUS
<1>2. md \in [Module -> Records] /\ imports \in Seq(ImportSet)
  BY <1>1 DEF Types
<1>3. q \in Module
  <2>1. md[Top.m].asyncParentModules \in Seq(Module)
    BY <1>1, <1>2 DEF Records
  <2> QED
    BY <2>1, <1>f, <1>q
<1>4. UNCHANGED <<scenario, found, stack, index, call, jobs>> /\ imports' = imports
  BY Zenon DEF FulfilledParent, env, scenario, history
<1>5. frames' \in Seq(AsyncFrames)
  <2>1. PICK rest : rest = <<Frame(Top.fn, Top.m, Top.i + 1)>> \o Tail(frames)
    OBVIOUS
  <2>2. Frame(Top.fn, Top.m, Top.i + 1) \in AsyncFrames
    BY <1>1 DEF Frame, AsyncFrames, FrameSet
  <2>3. rest \in Seq(AsyncFrames)
    BY <2>1, <2>2, <1>1
  <2>4. \/ frames' = frames \/ frames' = Tail(frames) \/ frames' = rest
        \/ \E f \in {"asyncModuleRejected", "asyncModuleFulfilled"} : frames' = <<Frame(f, q, 0)>> \o rest
    BY <2>1, <1>q, Zenon DEF FulfilledParent
  <2>5. \A f \in {"asyncModuleRejected", "asyncModuleFulfilled"} : <<Frame(f, q, 0)>> \o rest \in Seq(AsyncFrames)
    <3> SUFFICES ASSUME NEW f \in {"asyncModuleRejected", "asyncModuleFulfilled"}
                 PROVE  <<Frame(f, q, 0)>> \o rest \in Seq(AsyncFrames)
      OBVIOUS
    <3>1. Frame(f, q, 0) \in AsyncFrames
      BY <1>3 DEF Frame, AsyncFrames, FrameSet
    <3> QED
      BY <3>1, <2>3
  <2> QED
    BY <2>3, <2>4, <2>5, <1>1
<1>6. PICK e, n : e = md[q] /\ n = md[q].pendingAsyncDependencies - 1
  OBVIOUS
<1>7. e \in Records /\ n \in Int
  BY <1>2, <1>3, <1>6 DEF Records
<1>b. TRUE \in BOOLEAN
  BY Zenon
<1>d. PICK data : data = [md EXCEPT ![q].pendingAsyncDependencies = @ - 1]
  OBVIOUS
<1>8. md' = md \/ md' = data \/ md' = [data EXCEPT ![q].asyncEvaluating = TRUE]
  BY <1>d, <1>q, Zenon DEF FulfilledParent
<1>9. PICK d : d = [e EXCEPT !.pendingAsyncDependencies = n]
  OBVIOUS
<1>10. d \in Records /\ d.status = e.status /\ d.record = e.record /\ d.cycleRoot = e.cycleRoot /\ d.error = e.error
  BY ONLY <1>7, <1>9 DEF Records
<1>11. data = [md EXCEPT ![q] = d]
  BY <1>d, <1>6, <1>9
<1>12. SlightlyChanged(md, q, e)
  BY <1>2, <1>3, <1>6, <1>7 DEF SlightlyChanged
<1>13. SlightlyChanged(data, q, d)
  BY <1>6, <1>10, <1>11 DEF SlightlyChanged
<1>14. PICK c : c = [d EXCEPT !.asyncEvaluating = TRUE]
  OBVIOUS
<1>15. c \in Records /\ c.status = d.status /\ c.record = d.record /\ c.cycleRoot = d.cycleRoot /\ c.error = d.error
  BY ONLY <1>10, <1>14, <1>b DEF Records
<1>16. [data EXCEPT ![q].asyncEvaluating = TRUE] = [md EXCEPT ![q] = c]
  BY <1>2, <1>3, <1>10, <1>11, <1>14
<1>17. SlightlyChanged([data EXCEPT ![q].asyncEvaluating = TRUE], q, c)
  BY <1>6, <1>10, <1>15, <1>16 DEF SlightlyChanged
<1>18. PICK new, y : md' = new /\ SlightlyChanged(new, q, y)
  BY <1>8, <1>12, <1>13, <1>17
<1>19. /\ md' \in [Module -> Records]
       /\ \A x \in Module : /\ md'[x].status = md[x].status /\ md'[x].record = md[x].record
                            /\ md'[x].cycleRoot = md[x].cycleRoot /\ (md[x].error => md'[x].error)
  BY <1>2, <1>3, <1>18, SlightChange
<1> QED
  BY <1>f, <1>2, <1>4, <1>5, <1>19, AsyncStepKeeps

LEMMA RejectedParentKeeps ==
  ASSUME ModulesInv, RejectedParent
  PROVE  ModulesInv'
<1>f. In("asyncModuleRejected") /\ Top.i \in 1 .. Len(md[Top.m].asyncParentModules)
  BY DEF RejectedParent
<1>1. /\ Types /\ Tail(frames) \in Seq(AsyncFrames) /\ Top.m \in Module
      /\ Top.i \in Nat /\ Top.fn = "asyncModuleRejected"
  BY <1>f, AsyncCalls
<1>2. md \in [Module -> Records] /\ imports \in Seq(ImportSet)
  BY <1>1 DEF Types
<1>3. md[Top.m].asyncParentModules[Top.i] \in Module
  <2>1. md[Top.m].asyncParentModules \in Seq(Module)
    BY <1>1, <1>2 DEF Records
  <2> QED
    BY <2>1, <1>f
<1>4. UNCHANGED <<scenario, found, stack, index, call, jobs>> /\ imports' = imports /\ md' = md
  BY DEF RejectedParent, env, scenario, history
<1>5. frames' \in Seq(AsyncFrames)
  <2>1. PICK a, b : a = Frame(Top.fn, md[Top.m].asyncParentModules[Top.i], 0) /\ b = Frame(Top.fn, Top.m, Top.i + 1)
    OBVIOUS
  <2>2. a \in AsyncFrames /\ b \in AsyncFrames
    BY <2>1, <1>1, <1>3 DEF Frame, AsyncFrames, FrameSet
  <2>3. frames' = <<a, b>> \o Tail(frames)
    BY <2>1 DEF RejectedParent
  <2> QED
    BY <2>2, <2>3, <1>1
<1> QED
  BY <1>f, <1>2, <1>4, <1>5, AsyncStepKeeps

LEMMA EndKeeps ==
  ASSUME ModulesInv, FulfilledEnd \/ RejectedEnd
  PROVE  ModulesInv'
<1>f. PICK f \in {"asyncModuleFulfilled", "asyncModuleRejected"} : In(f)
  BY DEF FulfilledEnd, RejectedEnd
<1>1. /\ Types /\ Tail(frames) \in Seq(AsyncFrames) /\ Top.m \in Module
  BY <1>f, AsyncCalls
<1>m. PICK m : m = Top.m
  OBVIOUS
<1>2. md \in [Module -> Records] /\ imports \in Seq(ImportSet) /\ m \in Module
  BY <1>1, <1>m DEF Types
<1>3. UNCHANGED <<scenario, found, stack, index, call, jobs>>
  BY DEF FulfilledEnd, RejectedEnd, env, scenario, history
<1>4. frames' \in Seq(AsyncFrames)
  <2>1. frames' = << >> \/ frames' = Tail(frames)
    BY DEF FulfilledEnd, RejectedEnd
  <2>2. << >> \in Seq(AsyncFrames)
    OBVIOUS
  <2> QED
    BY ONLY <2>1, <2>2, <1>1
<1>5. imports' \in Seq(ImportSet)
  <2>1. \E st \in {"fulfilled", "rejected"} : imports' = Settled(ToSet(md[m].asyncPendingPromises), st)
    BY <1>m DEF FulfilledEnd, RejectedEnd
  <2> QED
    BY <2>1, <1>2, SettledType
<1>6. PICK e, c : e = md[m] /\ c = IF md[m].topLevelCapability = "pending" THEN "rejected" ELSE md[m].topLevelCapability
  OBVIOUS
<1>7. e \in Records /\ c \in {"none", "pending", "resolved", "rejected"}
  BY <1>2, <1>6 DEF Records
<1>8. \/ md' = [md EXCEPT ![m].asyncPendingPromises = << >>]
      \/ md' = [md EXCEPT ![m].asyncPendingPromises = << >>,
                          ![m].topLevelCapability = IF @ = "pending" THEN "rejected" ELSE @]
  BY <1>m DEF FulfilledEnd, RejectedEnd
<1>9. PICK d, z : z = << >> /\ d = [e EXCEPT !.asyncPendingPromises = z]
  OBVIOUS
<1>z. z \in Seq(Nat) /\ d = [e EXCEPT !.asyncPendingPromises = z]
  BY <1>9
<1>10. /\ d \in Records /\ d.status = e.status /\ d.record = e.record /\ d.cycleRoot = e.cycleRoot
       /\ d.error = e.error /\ d.topLevelCapability = e.topLevelCapability
  BY ONLY <1>7, <1>z DEF Records
<1>11. PICK b : b = [d EXCEPT !.topLevelCapability = c]
  OBVIOUS
<1>12. b \in Records /\ b.status = d.status /\ b.record = d.record /\ b.cycleRoot = d.cycleRoot /\ b.error = d.error
  BY ONLY <1>7, <1>10, <1>11 DEF Records
<1>13. md' = [md EXCEPT ![m] = d] \/ md' = [md EXCEPT ![m] = b]
  <2>1. [md EXCEPT ![m].asyncPendingPromises = << >>] = [md EXCEPT ![m] = d]
    BY <1>6, <1>9
  <2>2. [md EXCEPT ![m].asyncPendingPromises = << >>,
                   ![m].topLevelCapability = IF @ = "pending" THEN "rejected" ELSE @] = [md EXCEPT ![m] = b]
    BY <1>2, <1>6, <1>9, <1>10, <1>11
  <2> QED
    BY <2>1, <2>2, <1>8
<1>14. PICK new, y : md' = new /\ SlightlyChanged(new, m, y)
  BY <1>6, <1>10, <1>12, <1>13 DEF SlightlyChanged
<1>15. /\ md' \in [Module -> Records]
       /\ \A x \in Module : /\ md'[x].status = md[x].status /\ md'[x].record = md[x].record
                            /\ md'[x].cycleRoot = md[x].cycleRoot /\ (md[x].error => md'[x].error)
  BY <1>2, <1>14, SlightChange
<1> QED
  BY <1>f, <1>2, <1>3, <1>4, <1>5, <1>15, AsyncStepKeeps

-----------------------------------------------------------------------------
(* The results                                                              *)

LEMMA InitModules ==
  ASSUME Init
  PROVE  ModulesInv
<1>1. /\ requests \in [Module -> Seq(Module)] /\ kind \in [Module -> Kinds]
      /\ \A m \in Module : kind[m] = "json" => requests[m] = << >>
  <2>1. PICK s \in Scenarios : requests = s.requests /\ kind = s.kind
    BY DEF Init
  <2> QED
    BY <2>1, ModulesAssumption
<1>2. md = [m \in Module |-> ModuleData(kind[m], m)]
  BY DEF Init
<1>b. TRUE \in BOOLEAN /\ FALSE \in BOOLEAN
  BY Zenon
<1>3. ASSUME NEW m \in Module
      PROVE  /\ md[m] \in Records /\ md[m].status \in {"Linked", "Unlinked"}
             /\ md[m].status = "Linked" => kind[m] = "json" /\ md[m].record
             /\ md[m].cycleRoot # None => kind[m] = "json" /\ md[m].cycleRoot = m
  <2>1. md[m] = ModuleData(kind[m], m) /\ << >> \in Seq(Module) /\ << >> \in Seq(Nat)
    BY <1>2
  <2>2. CASE kind[m] = "json"
    <3>1. md[m] = [status |-> "Linked",
             error |-> FALSE, record |-> TRUE, dfsIndex |-> 0, dfsAncestorIndex |-> 0, cycleRoot |-> m,
             asyncEvaluating |-> FALSE, topLevelCapability |-> "none",
             asyncParentModules |-> << >>, pendingAsyncDependencies |-> 0, asyncPendingPromises |-> << >>]
      BY <2>1, <2>2 DEF ModuleData
    <3>2. md[m] \in Records
      BY ONLY <3>1, <2>1, <1>b, m \in Module DEF Records, Statuses
    <3> QED
      BY <3>1, <3>2, <2>2
  <2>3. CASE kind[m] # "json"
    <3>1. md[m] = [status |-> "Unlinked",
             error |-> FALSE, record |-> FALSE, dfsIndex |-> 0, dfsAncestorIndex |-> 0, cycleRoot |-> None,
             asyncEvaluating |-> FALSE, topLevelCapability |-> "none",
             asyncParentModules |-> << >>, pendingAsyncDependencies |-> 0, asyncPendingPromises |-> << >>]
      <4>1. (kind[m] = "json") = FALSE
        BY <2>3
      <4> QED
        BY <4>1, <2>1, <2>3 DEF ModuleData
    <3>2. md[m] \in Records
      BY ONLY <3>1, <2>1, <1>b, m \in Module DEF Records, Statuses
    <3> QED
      BY <3>1, <3>2
  <2> QED
    BY <2>2, <2>3
<1>4. md \in [Module -> Records]
  BY <1>2, <1>3
<1>5. Types
  <2>1. NoCall \in CallSet
    BY DEF NoCall, CallSet
  <2> QED
    BY <2>1, <1>1, <1>4 DEF Types, Init
<1>6. NoWalk
  <2>1. HasStatus({"Linking", "Evaluating"}) = {}
    BY <1>3 DEF HasStatus
  <2> QED
    BY <2>1 DEF NoWalk, Init
<1>7. RootsFound
  <2>1. Complete = {}
    BY <1>3 DEF Complete, HasStatus
  <2>2. \A m \in Module : md[m].status # "Evaluated"
    BY <1>3
  <2>3. \A m \in Module : found[m] = md[m].cycleRoot
    BY DEF Init
  <2>4. RootsKnown
    <3>1. \A m \in Module : found[m] \in Module \union {None}
      BY <2>3, <1>4 DEF Records
    <3>2. found \in [Module -> Module \union {None}]
      BY <3>1 DEF Init
    <3> QED
      BY <3>2, <2>3 DEF RootsKnown
  <2> QED
    BY <2>1, <2>2, <2>3, <2>4, <1>3 DEF RootsFound
<1>8. LinkedFound
  <2> SUFFICES ASSUME NEW m \in LinkedOrMore
               PROVE  md[m].record /\ \A k \in 1 .. Len(requests[m]) : requests[m][k] \in LinkedOrMore
    BY DEF LinkedFound
  <2>1. m \in Module /\ md[m].status = "Linked"
    BY <1>3 DEF LinkedOrMore, HasStatus
  <2>2. requests[m] = << >> /\ md[m].record
    BY <2>1, <1>1, <1>3
  <2> QED
    BY <2>2
<1> QED
  BY <1>5, <1>6, <1>7, <1>8 DEF ModulesInv, Stages

\* Nothing changes what the host serves.
LEMMA LoadableStays ==
  ASSUME Next
  PROVE  Loadable' <=> Loadable
<1>1. UNCHANGED scenario
  BY Zenon DEF Next, Job, Walk, env, scenario, Import, BodyEnds, HostCall, HostCallDies, ImportRejected, ImportResolved, BodyJob,
         LinkCall, LinkRequest, LinkEnd, EvaluateCall, EvaluateReturns, EvaluateRequest,
         EvaluateSynthetic, EvaluateDeferred, EvaluateAsync, EvaluateSync,
         FulfilledBegin, FulfilledParent, FulfilledEnd, RejectedBegin, RejectedParent, RejectedEnd
<1> QED
  BY <1>1 DEF scenario, Loadable

LEMMA NextKeeps ==
  ASSUME ModulesInv, Loadable, Next
  PROVE  ModulesInv'
<1>1. ASSUME NEW m \in Module, Import(m) \/ BodyEnds(m) PROVE ModulesInv'
  BY <1>1, ImportKeeps, BodyEndsKeeps
<1>2. ASSUME NEW op \in HostCalls, NEW m \in Module, HostCall(op, m) \/ HostCallDies(op, m) PROVE ModulesInv'
  BY <1>2, HostCallKeeps, HostCallDiesKeeps
<1>3. CASE Job
  BY <1>3, ImportRejectedKeeps, ImportResolvedKeeps, BodyJobKeeps DEF Job
<1>4. CASE Walk
  <2>1. CASE LinkCall \/ LinkRequest \/ LinkEnd
    BY <2>1, LinkCallKeeps, LinkRequestKeeps, LinkEndKeeps
  <2>2. CASE EvaluateCall \/ EvaluateReturns \/ EvaluateRequest
    BY <2>2, EvaluateCallKeeps, EvaluateReturnsKeeps, EvaluateRequestKeeps
  <2>3. CASE EvaluateSynthetic \/ EvaluateDeferred \/ EvaluateAsync \/ EvaluateSync
    BY <2>3, EvaluateEndKeeps
  <2>4. CASE FulfilledBegin \/ RejectedBegin \/ FulfilledEnd \/ RejectedEnd
    BY <2>4, BeginKeeps, EndKeeps
  <2>5. CASE FulfilledParent \/ RejectedParent
    BY <2>5, FulfilledParentKeeps, RejectedParentKeeps
  <2> QED
    BY <2>1, <2>2, <2>3, <2>4, <2>5, <1>4 DEF Walk
<1> QED
  BY <1>1, <1>2, <1>3, <1>4 DEF Next

LEMMA StutterKeeps ==
  ASSUME ModulesInv, UNCHANGED vars
  PROVE  ModulesInv'
<1>1. /\ requests' = requests /\ kind' = kind /\ found' = found /\ md' = md /\ frames' = frames /\ stack' = stack
      /\ index' = index /\ jobs' = jobs /\ imports' = imports /\ call' = call
  BY DEF vars
<1> QED
  BY <1>1 DEF ModulesInv, Types, Stages, NoWalk, InLinking, InEvaluation, Walking, RootsFound, RootsKnown, LinkedFound,
              LinkedOrMore, Complete, HasStatus, DfsIndex, DfsAncestorIndex, SameCycle, Reaches

\* While the host can load what is requested, the state of the modules agrees with the
\* walk in progress and with the import graph.  This is the inductive invariant
\* that the theorems below follow from.
THEOREM WalksFollowGraph == Spec => [](Loadable => ModulesInv)
<1>1. Init => (Loadable => ModulesInv)
  BY InitModules
<1>2. (Loadable => ModulesInv) /\ [Next]_vars => (Loadable => ModulesInv)'
  <2> SUFFICES ASSUME Loadable => ModulesInv, [Next]_vars, Loadable' PROVE ModulesInv'
    OBVIOUS
  <2>1. CASE Next
    <3>1. Loadable
      BY <2>1, LoadableStays
    <3> QED
      BY <3>1, <2>1, NextKeeps
  <2>2. CASE UNCHANGED vars
    <3>1. Loadable
      BY <2>2 DEF Loadable, vars
    <3> QED
      BY <3>1, <2>2, StutterKeeps
  <2> QED
    BY <2>1, <2>2
<1> QED
  BY <1>1, <1>2, PTL DEF Spec

LEMMA FoundIsLinkedClosure ==
  ASSUME ModulesInv
  PROVE  LinkedClosure
<1>1. requests \in [Module -> Seq(Module)] /\ LinkedFound
  BY DEF ModulesInv, Types
<1> SUFFICES ASSUME NEW m \in Module, md[m].status \in {"Linked", "Evaluating", "Evaluated"}
             PROVE  /\ md[m].record
                    /\ \A r \in ToSet(requests[m]) : md[r].status \in {"Linked", "Evaluating", "Evaluated"}
  BY DEF LinkedClosure
<1>2. md[m].record /\ \A k \in 1 .. Len(requests[m]) : requests[m][k] \in LinkedOrMore
  BY <1>1 DEF LinkedFound, LinkedOrMore, HasStatus
<1>3. \A r \in ToSet(requests[m]) : \E k \in 1 .. Len(requests[m]) : r = requests[m][k]
  BY <1>1 DEF ToSet
<1> QED
  BY <1>2, <1>3 DEF LinkedOrMore, HasStatus

LEMMA FoundIsCycleRoots ==
  ASSUME ModulesInv
  PROVE  CycleRoots
<1>1. requests \in [Module -> Seq(Module)] /\ RootsFound
  BY DEF ModulesInv, Types
<1>r. \A x \in Module : /\ md[x].cycleRoot = found[x] \/ md[x].cycleRoot = x
                        /\ x \notin Rerooted => md[x].cycleRoot = found[x]
  BY <1>1 DEF RootsFound, RootsKnown, Rerooted
<1> SUFFICES ASSUME NEW m \in Module, md[m].status = "Evaluated", md[m].cycleRoot # None
             PROVE  /\ SameCycle(m, md[m].cycleRoot)
                    /\ \A r \in Module : (SameCycle(m, r) /\ {m, r} \intersect Rerooted = {})
                                            => md[r].cycleRoot = md[m].cycleRoot
  BY DEF CycleRoots
<1>i. SameCycle(m, m)
  BY ReachesItself DEF SameCycle, Reaches
<1>c. CASE md[m].cycleRoot # found[m]
  <2>1. md[m].cycleRoot = m /\ m \in Rerooted
    BY <1>c, <1>r
  <2> QED
    BY <2>1, <1>i
<1> SUFFICES ASSUME md[m].cycleRoot = found[m]
             PROVE  /\ SameCycle(m, md[m].cycleRoot)
                    /\ \A r \in Module : (SameCycle(m, r) /\ {m, r} \intersect Rerooted = {})
                                            => md[r].cycleRoot = md[m].cycleRoot
  BY <1>c
<1>2. m \in Complete /\ Complete \subseteq Module
  BY DEF Complete, HasStatus
<1>3. ASSUME NEW r \in Module, SameCycle(m, r) PROVE r \in Complete
  <2>1. PICK g, S : g = requests /\ S = Complete
    OBVIOUS
  <2>2. Closed(g, S)
    <3>1. \A z \in S : g[z] \in Seq(Module) /\ \A k \in 1 .. Len(g[z]) : g[z][k] \in S
      BY <2>1, <1>1, <1>2 DEF RootsFound
    <3> QED
      BY <3>1 DEF Closed, ToSet
  <2>3. S \in SUBSET Module /\ m \in S /\ ReachesIn(g, m, r)
    BY <2>1, <1>2, <1>3 DEF SameCycle, Reaches
  <2>4. r \in S
    BY ONLY <2>2, <2>3, ReachesWithin
  <2> QED
    BY <2>1, <2>4
<1> QED
  BY <1>1, <1>2, <1>3, <1>r DEF RootsFound

\* A module that counts as linked has its environment record, and all that it requests
\* is linked, whatever the graph and however often a walk failed (innerModuleLinking).
THEOREM LinkingIsClosed == Spec => [](Loadable => LinkedClosure)
<1>1. (Loadable => ModulesInv) => (Loadable => LinkedClosure)
  BY FoundIsLinkedClosure
<1> QED
  BY <1>1, WalksFollowGraph, PTL

\* When no function is in progress, none of the modules is left Linking or Evaluating
\* (moduleLinking, moduleEvaluation).
THEOREM NoneHalfWay == Spec => [](Loadable => NothingHalfWay)
<1>1. (Loadable => ModulesInv) => (Loadable => NothingHalfWay)
  BY IdleIsNoWalk DEF NothingHalfWay, WalkStatuses
<1> QED
  BY <1>1, WalksFollowGraph, PTL

\* Tarjan's algorithm as innerModuleEvaluation runs it finds the cycles of any graph,
\* whatever the host calls: the root of an evaluated module is in the same cycle, and the
\* whole cycle shares it, but for the members that moduleEvaluate gave another root.
THEOREM CyclesFound == Spec => [](Loadable => CycleRoots)
<1>1. (Loadable => ModulesInv) => (Loadable => CycleRoots)
  BY FoundIsCycleRoots
<1> QED
  BY <1>1, WalksFollowGraph, PTL

=============================================================================
