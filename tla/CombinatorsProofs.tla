------------------------- MODULE CombinatorsProofs -------------------------
(***************************************************************************)
(* One call of a combinator implements Aggregate, for any number of         *)
(* elements, reports and values.                                            *)
(***************************************************************************)
EXTENDS Combinators, SequenceLemmas

-----------------------------------------------------------------------------
(* The inductive invariant                                                  *)

Hows == {"fulfilled", "rejected"}
Reports == [i : Nat, how : Hows, v : Values]
Entries == Values \cup {Undefined} \cup (Hows \X Values)

\* The calls of the element functions of element i.
Counted(i) == {r \in 1 .. Len(log) : log[r].i = i /\ ThroughElement(log[r].how)}

\* The control state of the call, its elements and the reports so far.
Shape ==
    /\ kind \in {"all", "allSettled", "any", "race"}
    /\ phase \in {"begin", "step", "resolve", "then", "closing", "returned"}
    /\ failed \in BOOLEAN /\ (failed => phase = "returned")
    /\ size \in Nat /\ size <= MaxElements /\ (phase = "resolve" => size < MaxElements)
    /\ log \in Seq(Reports) /\ \A r \in 1 .. Len(log) : log[r].i \in 1 .. size
    /\ result.state \in {"fulfilled", "rejected"} \/ result = [state |-> "pending", value |-> << >>]

\* race keeps no account; the others have an entry and a flag for every element.
Accounts ==
    /\ values \in Seq(Entries) /\ alreadyCalled \in Seq(BOOLEAN)
    /\ kind = "race" => values = << >> /\ alreadyCalled = << >> /\ remaining = 1
    /\ kind # "race" =>
         /\ Len(alreadyCalled) = size
         /\ size <= Len(values) /\ Len(values) <= size + 1
         /\ phase \in {"begin", "step", "then"} \/ Status = "ended" => Len(values) = size
         /\ phase = "resolve" => Len(values) = size + 1

\* The counter: one for the iteration, one for every element not heard of.
Counter ==
    kind # "race" =>
      remaining = Cardinality(Positions(alreadyCalled, {FALSE}))
                    + (IF Status = "ended" THEN 0 ELSE 1)

\* The flag and the entry of every element tell its first report.
Collected ==
    kind # "race" => \A i \in 1 .. size :
      /\ ~ alreadyCalled[i] => Counted(i) = {}
      /\ alreadyCalled[i] => \E r \in Counted(i) :
           /\ \A q \in Counted(i) : r <= q
           /\ values[i] = Stored(log[r].how, log[r].v)

\* While the promise is pending nothing has happened that decides it.
Undecided ==
    result.state = "pending" =>
      /\ ~ failed
      /\ \A r \in 1 .. Len(log) : ThroughElement(log[r].how)
      /\ kind # "race" => remaining # 0

Inv == Shape /\ Accounts /\ Counter /\ Collected /\ Undecided
-----------------------------------------------------------------------------
(* What the abstract specification decides                                  *)

\* The ways of reporting that go through the element functions.
Through == {how \in Hows : ThroughElement(how)}

\* The value of a promise that all elements decide.
AllEntries(n, l) ==
    [i \in 1 .. n |-> LET r == CombAbstract!First(i, Through, l) IN Stored(r.how, r.v)]

\* The sets of ways the abstract specification writes out.
LEMMA ThroughIs ==
  ASSUME Shape
  PROVE  /\ kind = "all" => Through = {"fulfilled"}
         /\ kind = "any" => Through = {"rejected"}
         /\ kind = "allSettled" => Through = {"fulfilled", "rejected"}
         /\ kind = "race" => Through = {}
  BY DEF Shape, Through, ThroughElement, Hows

\* The reports of a log.
LEMMA ReportsTyped ==
  /\ \A e \in Reports : e.how \in Hows /\ e.v \in Values /\ e.i \in Nat
  /\ \A l \in Seq(Reports) : DOMAIN l = 1 .. Len(l) /\ \A r \in DOMAIN l : l[r].how \in Hows
<1>1. \A e \in Reports : e.how \in Hows /\ e.v \in Values /\ e.i \in Nat
  BY DEF Reports
<1>2. ASSUME NEW l \in Seq(Reports)
      PROVE  DOMAIN l = 1 .. Len(l) /\ \A r \in DOMAIN l : l[r] \in Reports
  OBVIOUS
<1> QED
  BY <1>1, <1>2

\* A failed iteration rejects.
LEMMA DecisionFailed ==
  ASSUME NEW n, NEW l
  PROVE  CombAbstract!Decision("failed", n, l) = [state |-> "rejected", value |-> Thrown]
  BY DEF CombAbstract!Decision

\* Nothing is decided as long as all reports go through element functions and not
\* every element has called its own.
LEMMA DecisionPending ==
  ASSUME Shape, NEW s \in {"open", "ended"}, NEW n, NEW l \in Seq(Reports),
         \A r \in 1 .. Len(l) : ThroughElement(l[r].how),
         kind # "race" => s = "open" \/ ~ CombAbstract!Everyone(Through, n, l)
  PROVE  CombAbstract!Decision(s, n, l) = [state |-> "pending", value |-> << >>]
<1>1. DOMAIN l = 1 .. Len(l) /\ \A r \in DOMAIN l : l[r].how \in Hows
  BY ReportsTyped
<1>2. kind \in {"any", "race"} => ~ CombAbstract!Anyone("fulfilled", l)
  BY <1>1 DEF CombAbstract!Anyone, ThroughElement
<1>3. kind \in {"all", "race"} => ~ CombAbstract!Anyone("rejected", l)
  BY <1>1 DEF CombAbstract!Anyone, ThroughElement
<1>4. kind \in {"all", "allSettled", "any", "race"}
  BY DEF Shape
<1> QED
  BY <1>2, <1>3, <1>4, ThroughIs DEF CombAbstract!Decision, CombAbstract!Pending

\* When every element has called its function and the iteration has ended, all and
\* allSettled fulfil and any rejects, with the first report of each.
LEMMA DecisionComplete ==
  ASSUME Shape, kind # "race", NEW n \in Nat, NEW l \in Seq(Reports),
         \A r \in 1 .. Len(l) : ThroughElement(l[r].how),
         CombAbstract!Everyone(Through, n, l)
  PROVE  CombAbstract!Decision("ended", n, l) =
           [state |-> IF kind = "any" THEN "rejected" ELSE "fulfilled", value |-> AllEntries(n, l)]
<1>1. DOMAIN l = 1 .. Len(l) /\ \A r \in DOMAIN l : l[r].how \in Hows
  BY ReportsTyped
<1>2. CASE kind = "all"
  <2>1. Through = {"fulfilled"}
    BY <1>2, ThroughIs
  <2>2. AllEntries(n, l) = CombAbstract!ByElement({"fulfilled"}, n, l)
    BY <1>2, <2>1 DEF AllEntries, CombAbstract!ByElement, Stored
  <2> QED
    BY <1>2, <2>1, <2>2 DEF CombAbstract!Decision
<1>3. CASE kind = "allSettled"
  <2>1. Through = {"fulfilled", "rejected"}
    BY <1>3, ThroughIs
  <2>2. AllEntries(n, l) = CombAbstract!WithStatus(n, l)
    BY <1>3, <2>1 DEF AllEntries, CombAbstract!WithStatus, Stored
  <2> QED
    BY <1>3, <2>1, <2>2 DEF CombAbstract!Decision
<1>4. CASE kind = "any"
  <2>1. Through = {"rejected"}
    BY <1>4, ThroughIs
  <2>2. AllEntries(n, l) = CombAbstract!ByElement({"rejected"}, n, l)
    BY <1>4, <2>1 DEF AllEntries, CombAbstract!ByElement, Stored
  <2>3. ~ CombAbstract!Anyone("fulfilled", l)
    BY <1>1, <1>4 DEF CombAbstract!Anyone, ThroughElement
  <2> QED
    BY <1>4, <2>1, <2>2, <2>3 DEF CombAbstract!Decision
<1> QED
  BY <1>2, <1>3, <1>4 DEF Shape

\* A report that goes to the capability itself decides.
LEMMA DecisionDirect ==
  ASSUME Shape, NEW s \in {"open", "ended"}, NEW n, NEW l \in Seq(Reports), NEW e \in Reports,
         \A r \in 1 .. Len(l) : ThroughElement(l[r].how), ~ ThroughElement(e.how),
         kind # "race" => s = "open" \/ ~ CombAbstract!Everyone(Through, n, l)
  PROVE  CombAbstract!Decision(s, n, Append(l, e)) = [state |-> e.how, value |-> e.v]
<1> DEFINE m == Append(l, e)
<1>1. /\ Len(m) = Len(l) + 1 /\ DOMAIN m = 1 .. Len(m) /\ m[Len(m)] = e /\ Len(l) \in Nat
      /\ DOMAIN l = 1 .. Len(l) /\ \A r \in 1 .. Len(l) : m[r] = l[r]
      /\ Len(m) \in DOMAIN m
  OBVIOUS
<1>2. e.how \in Hows /\ \A r \in DOMAIN l : l[r].how \in Hows
  BY ReportsTyped
<1>3. kind \in {"all", "allSettled", "any", "race"}
  BY DEF Shape
<1> HIDE DEF m
<1>4. \A r \in DOMAIN m : r = Len(m) \/ r \in 1 .. Len(l)
  BY <1>1
<1>5. CombAbstract!Anyone(e.how, m)
  BY <1>1 DEF CombAbstract!Anyone
<1>6. kind # "race" /\ s = "ended" => ~ CombAbstract!Everyone(Through, n, m)
  <2> SUFFICES ASSUME kind # "race", s = "ended", CombAbstract!Everyone(Through, n, m)
               PROVE  CombAbstract!Everyone(Through, n, l)
    OBVIOUS
  <2>1. e.how \notin Through
    BY DEF Through
  <2> QED
    BY <1>1, <1>4, <2>1 DEF CombAbstract!Everyone
<1>7. CASE kind = "all"
  <2>1. e.how = "rejected" /\ Through = {"fulfilled"}
    BY <1>2, <1>7, ThroughIs DEF ThroughElement, Hows
  <2> QED
    BY <1>1, <1>5, <1>6, <1>7, <2>1 DEF CombAbstract!Decision, m
<1>8. CASE kind = "any"
  <2>1. e.how = "fulfilled"
    BY <1>2, <1>8 DEF ThroughElement, Hows
  <2> QED
    BY <1>1, <1>5, <1>8, <2>1 DEF CombAbstract!Decision, m
<1>9. CASE kind = "race"
  <2>1. l = << >> /\ Len(m) = 1
    BY <1>1, <1>9 DEF ThroughElement
  <2>2. CombAbstract!Anyone("fulfilled", m) <=> e.how = "fulfilled"
    BY <1>1, <2>1 DEF CombAbstract!Anyone
  <2>3. CombAbstract!Anyone("rejected", m) <=> e.how = "rejected"
    BY <1>1, <2>1 DEF CombAbstract!Anyone
  <2> QED
    BY <1>1, <1>2, <1>9, <2>2, <2>3 DEF CombAbstract!Decision, m, Hows
<1> QED
  BY <1>3, <1>7, <1>8, <1>9 DEF ThroughElement

\* The first report is the one with the least position.
LEMMA FirstReport ==
  ASSUME NEW l \in Seq(Reports), NEW i, NEW r \in 1 .. Len(l),
         l[r].i = i /\ ThroughElement(l[r].how),
         \A q \in 1 .. Len(l) : l[q].i = i /\ ThroughElement(l[q].how) => r <= q
  PROVE  CombAbstract!First(i, Through, l) = l[r]
<1> DEFINE mine == {q \in DOMAIN l : l[q].i = i /\ l[q].how \in Through}
           m == CHOOSE q \in mine : \A p \in mine : q <= p
<1>1. mine = {q \in 1 .. Len(l) : l[q].i = i /\ ThroughElement(l[q].how)}
  BY ReportsTyped DEF Through
<1>2. r \in mine /\ \A q \in mine : r <= q
  BY <1>1
<1>3. m \in mine /\ m <= r /\ r <= m
  BY <1>2
<1>4. m \in Nat /\ r \in Nat
  BY <1>1, <1>3
<1>5. m = r
  BY <1>3, <1>4
<1>6. CombAbstract!First(i, Through, l) = l[m]
  BY DEF CombAbstract!First
<1> HIDE DEF m
<1> QED
  BY <1>5, <1>6

-----------------------------------------------------------------------------
(* The counter and the entries                                              *)

Books == Shape /\ Accounts /\ Counter /\ Collected

\* The flags tell whether every element has called its function.
LEMMA CalledByAll ==
  Books /\ kind # "race" =>
    /\ Cardinality(Positions(alreadyCalled, {FALSE})) \in Nat
    /\ CombAbstract!Everyone(Through, size, log)
         <=> Cardinality(Positions(alreadyCalled, {FALSE})) = 0
<1> SUFFICES ASSUME Books, kind # "race"
             PROVE  /\ Cardinality(Positions(alreadyCalled, {FALSE})) \in Nat
                    /\ CombAbstract!Everyone(Through, size, log)
                         <=> Cardinality(Positions(alreadyCalled, {FALSE})) = 0
  OBVIOUS
<1>1. alreadyCalled \in Seq(BOOLEAN) /\ Len(alreadyCalled) = size /\ log \in Seq(Reports)
  BY DEF Books, Accounts, Shape
<1>2. IsFiniteSet(Positions(alreadyCalled, {FALSE}))
  BY <1>1, PositionsFinite
<1>3. Cardinality(Positions(alreadyCalled, {FALSE})) = 0 <=> Positions(alreadyCalled, {FALSE}) = {}
  BY <1>2, FS_EmptySet
<1>4. Positions(alreadyCalled, {FALSE}) = {} <=> \A i \in 1 .. size : alreadyCalled[i]
  <2>1. \A i \in 1 .. size : alreadyCalled[i] \in BOOLEAN
    BY <1>1
  <2>2. \A i \in 1 .. size : alreadyCalled[i] \in {FALSE} <=> ~ alreadyCalled[i]
    BY ONLY <2>1, Zenon
  <2>3. Positions(alreadyCalled, {FALSE}) = {i \in 1 .. size : alreadyCalled[i] \in {FALSE}}
    BY <1>1 DEF Positions
  <2> QED
    BY <2>2, <2>3, Zenon
<1>5. \A i \in 1 .. size : alreadyCalled[i] <=> Counted(i) # {}
  BY DEF Books, Collected
<1>6. \A i \in 1 .. size :
        Counted(i) # {} <=> \E r \in DOMAIN log : log[r].i = i /\ log[r].how \in Through
  <2>1. DOMAIN log = 1 .. Len(log) /\ \A r \in DOMAIN log : log[r].how \in Hows
    BY <1>1, ReportsTyped
  <2>2. \A r \in DOMAIN log : log[r].how \in Through <=> ThroughElement(log[r].how)
    BY <2>1 DEF Through
  <2> QED
    BY <2>1, <2>2 DEF Counted
<1>7. CombAbstract!Everyone(Through, size, log) <=> \A i \in 1 .. size : alreadyCalled[i]
  BY <1>5, <1>6 DEF CombAbstract!Everyone
<1>8. Cardinality(Positions(alreadyCalled, {FALSE})) \in Nat
  BY <1>2, FS_CardinalityType
<1> QED
  BY <1>3, <1>4, <1>7, <1>8

\* When they have, the vector is what the abstract specification collects.
LEMMA ValuesComplete ==
  Books /\ kind # "race" /\ Len(values) = size /\ CombAbstract!Everyone(Through, size, log)
    => values = AllEntries(size, log)
<1> SUFFICES ASSUME Books, kind # "race", Len(values) = size,
                    CombAbstract!Everyone(Through, size, log)
             PROVE  values = AllEntries(size, log)
  OBVIOUS
<1>1. log \in Seq(Reports) /\ size \in Nat /\ values \in Seq(Entries)
  BY DEF Books, Shape, Accounts
<1>2. ASSUME NEW i \in 1 .. size
      PROVE  values[i] = AllEntries(size, log)[i]
  <2>1. Counted(i) # {}
    BY <1>1, ReportsTyped DEF CombAbstract!Everyone, Counted, Through
  <2>2. PICK r \in Counted(i) : /\ \A q \in Counted(i) : r <= q
                                /\ values[i] = Stored(log[r].how, log[r].v)
    BY <2>1 DEF Books, Collected
  <2>3. CombAbstract!First(i, Through, log) = log[r]
    <3>1. /\ r \in 1 .. Len(log) /\ log[r].i = i /\ ThroughElement(log[r].how)
          /\ \A q \in 1 .. Len(log) : log[q].i = i /\ ThroughElement(log[q].how) => r <= q
      BY <2>2 DEF Counted
    <3> QED
      BY <1>1, <3>1, FirstReport
  <2> QED
    BY <2>2, <2>3 DEF AllEntries
<1>3. DOMAIN values = 1 .. size /\ DOMAIN AllEntries(size, log) = 1 .. size
  BY <1>1 DEF AllEntries
<1>4. AllEntries(size, log) = [i \in 1 .. size |-> AllEntries(size, log)[i]]
  BY DEF AllEntries
<1>5. values = [i \in 1 .. size |-> values[i]]
  BY <1>1, <1>3
<1> QED
  BY <1>2, <1>4, <1>5
-----------------------------------------------------------------------------
(* The steps                                                                *)

\* A step keeps the invariant and is one of the abstract specification.
Refined == Inv' /\ [CombAbstract!Next]_(CombAbstract!vars)

\* The initial states.
LEMMA InitRefined == CombInit => Inv /\ CombAbstract!Init
<1> SUFFICES ASSUME CombInit PROVE Inv /\ CombAbstract!Init
  OBVIOUS
<1>1. Shape
  <2>1. failed \in BOOLEAN
    BY Zenon DEF CombInit
  <2>2. log \in Seq(Reports)
    BY DEF CombInit
  <2> QED
    BY <2>1, <2>2, CombinatorsAssumption DEF CombInit, Shape
<1>2. Accounts
  BY DEF CombInit, Accounts, Status
<1>3. Counter
  <2>1. Positions(alreadyCalled, {FALSE}) = {}
    BY DEF CombInit, Positions
  <2> QED
    BY <2>1, FS_EmptySet DEF CombInit, Counter, Status
<1>4. Collected /\ Undecided
  BY DEF CombInit, Collected, Undecided
<1>5. CombAbstract!Init
  BY DEF CombInit, CombAbstract!Init, CombAbstract!Pending, Status
<1> QED
  BY <1>1, <1>2, <1>3, <1>4, <1>5 DEF Inv

\* Steps without a report collect nothing.
LEMMA CollectedKept ==
  ASSUME Collected, UNCHANGED <<kind, alreadyCalled, size, log>>,
         kind # "race" => \A i \in 1 .. size : values'[i] = values[i]
  PROVE  Collected'
<1>1. \A i : Counted(i)' = Counted(i)
  BY DEF Counted, ThroughElement
<1>2. \A how, v : Stored(how, v)' = Stored(how, v)
  BY DEF Stored
<1> QED
  BY <1>1, <1>2 DEF Collected

\* The iteration goes on: only the phase changes.
LEMMA PhaseStep ==
  ASSUME Inv, phase # "returned",
         phase' \in {"step", "then", "closing"},
         phase' \in {"step", "then"} => phase \in {"begin", "step", "then"},
         UNCHANGED <<kind, failed, values, remaining, alreadyCalled, result, size, log>>
  PROVE  Refined
<1>1. Status = "open" /\ Status' = "open"
  BY DEF Status
<1>2. Shape'
  BY DEF Inv, Shape
<1>3. Accounts'
  BY <1>1 DEF Inv, Accounts
<1>4. Counter'
  BY <1>1 DEF Inv, Counter
<1>5. Collected'
  BY CollectedKept DEF Inv
<1>6. Undecided'
  BY DEF Inv, Undecided, ThroughElement
<1>7. UNCHANGED CombAbstract!vars
  BY <1>1 DEF CombAbstract!vars
<1> QED
  BY <1>2, <1>3, <1>4, <1>5, <1>6, <1>7 DEF Refined, Inv

\* The result of a settled or pending promise.
LEMMA PendingIs ==
  ASSUME Shape
  PROVE  result.state = "pending" <=> result = CombAbstract!Pending
  BY DEF Shape, CombAbstract!Pending

\* Script code throws: the handler rejects.
LEMMA CatchStep ==
  ASSUME Inv, phase # "returned", Catch(Thrown),
         UNCHANGED <<kind, values, remaining, alreadyCalled, size, log>>
  PROVE  Refined
<1>1. Status = "open" /\ Status' = "failed" /\ phase' = "returned" /\ failed' = TRUE
  BY DEF Status, Catch
<1>2. result' = IF result.state = "pending" THEN [state |-> "rejected", value |-> Thrown] ELSE result
  BY DEF Catch, Settle
<1>3. Shape'
  BY <1>1, <1>2 DEF Inv, Shape
<1>4. Accounts'
  BY <1>1 DEF Inv, Accounts
<1>5. Counter'
  BY <1>1 DEF Inv, Counter
<1>6. Collected'
  BY CollectedKept DEF Inv
<1>7. result'.state # "pending"
  BY <1>2
<1>8. Undecided'
  BY <1>7 DEF Undecided
<1>9. CombAbstract!Finish("failed")
  <2>1. result' = IF result = CombAbstract!Pending
                  THEN CombAbstract!Decision("failed", size', log') ELSE result
    BY <1>2, PendingIs, DecisionFailed DEF Inv
  <2> QED
    BY <1>1, <2>1 DEF CombAbstract!Finish, CombAbstract!Decide
<1> QED
  BY <1>3, <1>4, <1>5, <1>6, <1>8, <1>9 DEF Refined, Inv, CombAbstract!Next

\* The iterator yields a value.
LEMMA StepValueRefined ==
  ASSUME Inv, StepValue
  PROVE  Refined
<1>1. Status = "open" /\ Status' = "open" /\ phase' = "resolve" /\ phase = "step"
  BY DEF Status, StepValue
<1>2. Shape'
  BY <1>1, CombinatorsAssumption DEF StepValue, Inv, Shape
<1>3. Undefined \in Entries
  BY DEF Entries
<1>4. Accounts'
  BY <1>1, <1>3 DEF StepValue, Inv, Accounts, Shape
<1>5. Counter'
  BY <1>1 DEF StepValue, Inv, Counter
<1>6. Collected'
  <2>1. kind # "race" => \A i \in 1 .. size : values'[i] = values[i]
    BY <1>1, <1>3 DEF StepValue, Inv, Accounts, Shape
  <2> QED
    BY <2>1, CollectedKept DEF StepValue, Inv
<1>7. Undecided'
  BY <1>1 DEF StepValue, Inv, Undecided, ThroughElement
<1>8. UNCHANGED CombAbstract!vars
  BY <1>1 DEF StepValue, CombAbstract!vars
<1> QED
  BY <1>2, <1>4, <1>5, <1>6, <1>7, <1>8 DEF Refined, Inv

\* As long as the promise is pending, not everyone has called or the iteration goes on.
LEMMA NotEveryone ==
  ASSUME Inv, result.state = "pending", Status = "ended", kind # "race"
  PROVE  ~ CombAbstract!Everyone(Through, size, log)
<1>1. remaining = Cardinality(Positions(alreadyCalled, {FALSE})) + 0 /\ remaining # 0
  BY DEF Inv, Counter, Undecided
<1>2. Books
  BY DEF Inv, Books
<1> QED
  BY <1>1, <1>2, CalledByAll

\* The iterator is exhausted.
LEMMA StepEndRefined ==
  ASSUME Inv, StepEnd
  PROVE  Refined
<1>1. /\ phase = "step" /\ phase' = "returned" /\ UNCHANGED <<kind, failed, values, alreadyCalled, size, log>>
      /\ remaining' = IF kind = "race" THEN remaining ELSE remaining - 1
      /\ kind # "race" /\ remaining - 1 = 0 =>
           result' = IF result.state = "pending"
                     THEN [state |-> IF kind = "any" THEN "rejected" ELSE "fulfilled", value |-> values]
                     ELSE result
      /\ kind = "race" \/ remaining - 1 # 0 => result' = result
  BY DEF StepEnd, Complete, Settle
<1>2. Shape /\ Accounts /\ Counter /\ Collected /\ Undecided /\ Books
  BY DEF Inv, Books
<1>3. Shape'
  BY <1>1, <1>2 DEF Shape
<1>4. Status = "open" /\ Status' = "ended"
  BY <1>1, <1>2 DEF Shape, Status
<1>5. Accounts'
  BY <1>1, <1>2 DEF Accounts
<1>6. Counter' /\ (kind # "race" => Cardinality(Positions(alreadyCalled, {FALSE})) \in Nat)
  BY <1>1, <1>2, <1>4, CalledByAll DEF Counter
<1>7. Collected'
  BY <1>1, <1>2, CollectedKept
<1>8. kind # "race" => (remaining' = 0 <=> CombAbstract!Everyone(Through, size, log))
  BY <1>1, <1>2, <1>4, <1>6, CalledByAll DEF Counter
<1>9. Undecided'
  <2> SUFFICES ASSUME result'.state = "pending"
               PROVE  (/\ ~ failed /\ \A r \in 1 .. Len(log) : ThroughElement(log[r].how)
                       /\ kind # "race" => remaining # 0)'
    BY DEF Undecided
  <2>1. result' = result /\ (kind # "race" => remaining' # 0)
    BY <1>1
  <2> QED
    BY <1>1, <1>2, <2>1 DEF Undecided, ThroughElement
<1>10. result' = IF result = CombAbstract!Pending
                 THEN CombAbstract!Decision("ended", size, log) ELSE result
  <2>1. CASE result.state # "pending"
    BY <1>1, <1>2, <2>1, PendingIs
  <2>2. CASE result.state = "pending"
    <3>1. /\ result = CombAbstract!Pending /\ log \in Seq(Reports) /\ size \in Nat
          /\ \A r \in 1 .. Len(log) : ThroughElement(log[r].how)
      BY <1>2, <2>2, PendingIs DEF Undecided, Shape
    <3>2. CASE kind # "race" /\ remaining' = 0
      <4>1. CombAbstract!Everyone(Through, size, log)
        BY <1>8, <3>2
      <4>2. values = AllEntries(size, log)
        BY <1>1, <1>2, <3>2, <4>1, ValuesComplete DEF Accounts
      <4>3. CombAbstract!Decision("ended", size, log) =
              [state |-> IF kind = "any" THEN "rejected" ELSE "fulfilled", value |-> AllEntries(size, log)]
        BY <1>2, <3>1, <3>2, <4>1, DecisionComplete
      <4> QED
        BY <1>1, <2>2, <3>1, <3>2, <4>2, <4>3
    <3>3. CASE kind = "race" \/ remaining' # 0
      <4>1. kind # "race" => ~ CombAbstract!Everyone(Through, size, log)
        BY <1>8, <3>3
      <4>2. CombAbstract!Decision("ended", size, log) = [state |-> "pending", value |-> << >>]
        BY <1>2, <3>1, <4>1, DecisionPending
      <4> QED
        BY <1>1, <3>1, <3>3, <4>2 DEF CombAbstract!Pending
    <3> QED
      BY <3>2, <3>3
  <2> QED
    BY <2>1, <2>2
<1>11. CombAbstract!Finish("ended")
  BY <1>1, <1>4, <1>10 DEF CombAbstract!Finish, CombAbstract!Decide
<1> QED
  BY <1>3, <1>5, <1>6, <1>7, <1>9, <1>11 DEF Refined, Inv, CombAbstract!Next

\* One more flag, which is down.
LEMMA FlagAppended ==
  ASSUME NEW S, NEW c \in Seq(S), NEW x \in S
  PROVE  /\ Append(c, x) \in Seq(S) /\ Len(Append(c, x)) = Len(c) + 1
         /\ \A i \in 1 .. Len(c) : Append(c, x)[i] = c[i]
         /\ Append(c, x)[Len(c) + 1] = x
  OBVIOUS

\* A promise is made for the value, or that throws.
LEMMA PromiseResolveRefined ==
  ASSUME Inv, PromiseResolve
  PROVE  Refined
<1>1. CASE phase' = "closing"
  BY <1>1, PhaseStep DEF PromiseResolve
<1>2. CASE phase' = "then"
  <2>1. /\ phase = "resolve" /\ size' = size + 1
        /\ remaining' = IF kind = "race" THEN remaining ELSE remaining + 1
        /\ alreadyCalled' = IF kind = "race" THEN alreadyCalled ELSE Append(alreadyCalled, FALSE)
        /\ UNCHANGED <<kind, failed, values, result, log>>
    BY <1>2 DEF PromiseResolve
  <2>2. Shape /\ Accounts /\ Counter /\ Collected /\ Undecided
    BY DEF Inv
  <2>3. Status = "open" /\ Status' = "open"
    BY <1>2, <2>1 DEF Status
  <2>4. Shape'
    <3>1. \A r \in 1 .. Len(log) : log[r].i \in 1 .. size + 1
      BY <2>2 DEF Shape
    <3> QED
      BY <1>2, <2>1, <2>2, <3>1, CombinatorsAssumption DEF Shape
  <2>0. FALSE \in {FALSE} /\ FALSE \in BOOLEAN
    BY Zenon
  <2>5. alreadyCalled \in Seq(BOOLEAN) /\ alreadyCalled' \in Seq(BOOLEAN)
    <3>1. alreadyCalled \in Seq(BOOLEAN)
      BY <2>2 DEF Accounts
    <3>2. Append(alreadyCalled, FALSE) \in Seq(BOOLEAN)
      BY <2>0, <3>1, FlagAppended
    <3> QED
      BY <2>1, <3>1, <3>2
  <2>6. kind # "race" => /\ Len(alreadyCalled) = size /\ Len(alreadyCalled') = size + 1
                         /\ \A i \in 1 .. size : alreadyCalled'[i] = alreadyCalled[i]
                         /\ ~ alreadyCalled'[size + 1]
    <3> HAVE kind # "race"
    <3>1. Len(alreadyCalled) = size /\ alreadyCalled' = Append(alreadyCalled, FALSE)
      BY <2>1, <2>2 DEF Accounts
    <3>2. /\ Len(Append(alreadyCalled, FALSE)) = Len(alreadyCalled) + 1
          /\ \A i \in 1 .. Len(alreadyCalled) : Append(alreadyCalled, FALSE)[i] = alreadyCalled[i]
          /\ Append(alreadyCalled, FALSE)[Len(alreadyCalled) + 1] = FALSE
      BY <2>0, <2>5, FlagAppended
    <3> QED
      BY <3>1, <3>2, Zenon
  <2>7. Accounts'
    <3>1. kind # "race" => Len(alreadyCalled') = size + 1
      BY <2>6, Zenon
    <3>2. kind # "race" => Len(values) = size + 1 /\ size \in Nat
      BY <2>1, <2>2 DEF Accounts, Shape
    <3>3. kind = "race" => values' = << >> /\ alreadyCalled' = << >> /\ remaining' = 1
      BY <2>1, <2>2 DEF Accounts
    <3>4. values' \in Seq(Entries)
      BY <2>1, <2>2 DEF Accounts
    <3>5. kind' # "race" =>
            /\ Len(alreadyCalled') = size'
            /\ size' <= Len(values') /\ Len(values') <= size' + 1
            /\ Len(values') = size' /\ phase' # "resolve"
      BY <1>2, <2>1, <3>1, <3>2
    <3> QED
      BY <2>1, <2>5, <3>3, <3>4, <3>5 DEF Accounts
  <2>8. kind # "race" =>
          /\ Cardinality(Positions(alreadyCalled', {FALSE})) =
               Cardinality(Positions(alreadyCalled, {FALSE})) + 1
          /\ Cardinality(Positions(alreadyCalled, {FALSE})) \in Nat
    <3>2. PICK c \in Seq(BOOLEAN) : c = alreadyCalled
      BY <2>5
    <3>3. Cardinality(Positions(Append(c, FALSE), {FALSE})) = Cardinality(Positions(c, {FALSE})) + 1
      BY <2>0, CountAppend
    <3>4. Cardinality(Positions(c, {FALSE})) \in Nat
      BY PositionsFinite
    <3> QED
      BY <2>1, <3>2, <3>3, <3>4
  <2>9. Counter'
    BY <2>1, <2>2, <2>3, <2>8 DEF Counter
  <2>10. Collected'
    <3>1. \A i : Counted(i)' = Counted(i)
      BY <2>1 DEF Counted, ThroughElement
    <3>2. \A how, v : Stored(how, v)' = Stored(how, v)
      BY <2>1 DEF Stored
    <3>3. Counted(size + 1) = {} /\ size \in Nat
      BY <2>2 DEF Counted, Shape
    <3>4. \A i \in 1 .. size + 1 : i \in 1 .. size \/ i = size + 1
      BY <3>3
    <3> SUFFICES ASSUME kind' # "race", NEW i \in 1 .. size + 1
                 PROVE  (/\ ~ alreadyCalled[i] => Counted(i) = {}
                         /\ alreadyCalled[i] => \E r \in Counted(i) :
                              /\ \A q \in Counted(i) : r <= q
                              /\ values[i] = Stored(log[r].how, log[r].v))'
      BY <2>1 DEF Collected
    <3>5. CASE i \in 1 .. size
      BY <2>1, <2>2, <2>6, <3>1, <3>2, <3>5 DEF Collected
    <3>6. CASE i = size + 1
      BY <2>1, <2>6, <3>1, <3>3, <3>6
    <3> QED
      BY <3>4, <3>5, <3>6
  <2>11. Undecided'
    <3>1. kind # "race" => remaining' # 0
      BY <2>1, <2>2, <2>3, <2>8 DEF Counter
    <3> QED
      BY <2>1, <2>2, <3>1 DEF Undecided, ThroughElement
  <2>12. CombAbstract!AddElement
    BY <2>1, <2>3 DEF CombAbstract!AddElement
  <2> QED
    BY <2>4, <2>7, <2>9, <2>10, <2>11, <2>12 DEF Refined, Inv, CombAbstract!Next
<1> QED
  BY <1>1, <1>2 DEF PromiseResolve

-----------------------------------------------------------------------------
(* Reports                                                                  *)

\* What a report adds to the log and to the calls of the element functions.
LEMMA ReportLogged ==
  ASSUME Inv, NEW e \in Reports, e.i \in 1 .. size, log' = Append(log, e), kind' = kind, size' = size
  PROVE  /\ log' \in Seq(Reports) /\ Len(log) \in Nat /\ Len(log') = Len(log) + 1
         /\ \A r \in 1 .. Len(log) : log'[r] = log[r]
         /\ log'[Len(log) + 1] = e
         /\ \A r \in 1 .. Len(log') : log'[r].i \in 1 .. size
         /\ \A j : j # e.i \/ ~ ThroughElement(e.how) => Counted(j)' = Counted(j)
         /\ ThroughElement(e.how) => Counted(e.i)' = Counted(e.i) \cup {Len(log) + 1}
<1>1. log \in Seq(Reports) /\ \A r \in 1 .. Len(log) : log[r].i \in 1 .. size
  BY DEF Inv, Shape
<1>2. /\ log' \in Seq(Reports) /\ Len(log) \in Nat /\ Len(log') = Len(log) + 1
      /\ \A r \in 1 .. Len(log) : log'[r] = log[r]
      /\ log'[Len(log) + 1] = e
  BY <1>1
<1>3. \A r \in 1 .. Len(log') : r \in 1 .. Len(log) \/ r = Len(log) + 1
  BY <1>2
<1>4. \A r \in 1 .. Len(log') : log'[r].i \in 1 .. size
  BY <1>1, <1>2, <1>3
<1>5. \A how : ThroughElement(how)' <=> ThroughElement(how)
  BY DEF ThroughElement
<1>6. \A j : Counted(j)' = {r \in 1 .. Len(log') : log'[r].i = j /\ ThroughElement(log'[r].how)}
  BY <1>5 DEF Counted
<1>7. \A j : j # e.i \/ ~ ThroughElement(e.how) => Counted(j)' = Counted(j)
  <2> SUFFICES ASSUME NEW j, j # e.i \/ ~ ThroughElement(e.how) PROVE Counted(j)' = Counted(j)
    OBVIOUS
  <2>1. Counted(j)' = {r \in 1 .. Len(log') : log'[r].i = j /\ ThroughElement(log'[r].how)}
    BY <1>6
  <2>2. ASSUME NEW r PROVE r \in Counted(j)' <=> r \in Counted(j)
    <3>1. CASE r = Len(log) + 1
      BY <1>2, <2>1, <3>1 DEF Counted
    <3>2. CASE r \in 1 .. Len(log)
      BY <1>2, <2>1, <3>2 DEF Counted
    <3> QED
      BY <1>3, <2>1, <3>1, <3>2 DEF Counted
  <2> QED
    BY <2>2
<1>8. ThroughElement(e.how) => Counted(e.i)' = Counted(e.i) \cup {Len(log) + 1}
  <2> SUFFICES ASSUME ThroughElement(e.how)
               PROVE  Counted(e.i)' = Counted(e.i) \cup {Len(log) + 1}
    OBVIOUS
  <2>1. Counted(e.i)' = {r \in 1 .. Len(log') : log'[r].i = e.i /\ ThroughElement(log'[r].how)}
    BY <1>6
  <2>2. ASSUME NEW r PROVE r \in Counted(e.i)' <=> r \in Counted(e.i) \cup {Len(log) + 1}
    <3>1. CASE r = Len(log) + 1
      BY <1>2, <2>1, <3>1
    <3>2. CASE r \in 1 .. Len(log)
      BY <1>2, <2>1, <3>2 DEF Counted
    <3> QED
      BY <1>3, <2>1, <3>1, <3>2 DEF Counted
  <2> QED
    BY <2>2
<1> QED
  BY <1>1, <1>2, <1>4, <1>7, <1>8

\* The parts of the state a report leaves alone.
ReportFrame(e) ==
    /\ e \in Reports /\ e.i \in 1 .. size /\ log' = Append(log, e)
    /\ UNCHANGED <<kind, phase, done, failed, size>>

\* A report that the abstract specification makes, too.
LEMMA ReportMatches ==
  ASSUME NEW e, ReportFrame(e),
         result' = IF result = CombAbstract!Pending
                   THEN CombAbstract!Decision(Status, size, log') ELSE result
  PROVE  CombAbstract!Next
<1>1. Status' = Status /\ size' = size
  BY DEF ReportFrame, Status
<1>2. e.how \in {"fulfilled", "rejected"} /\ e.v \in Values /\ e = [i |-> e.i, how |-> e.how, v |-> e.v]
  BY DEF ReportFrame, Reports, Hows
<1>3. CombAbstract!Report(e.i, e.how, e.v)
  BY <1>1, <1>2 DEF ReportFrame, CombAbstract!Report, CombAbstract!Decide
<1>4. e.i \in 1 .. size
  BY DEF ReportFrame
<1> QED
  BY <1>2, <1>3, <1>4 DEF CombAbstract!Next

\* A report keeps the shape of the state.
LEMMA ReportShape ==
  ASSUME Inv, NEW e, ReportFrame(e),
         result'.state \in {"fulfilled", "rejected"} \/ result' = result
  PROVE  Shape'
<1>1. log' \in Seq(Reports) /\ \A r \in 1 .. Len(log') : log'[r].i \in 1 .. size
  BY ReportLogged DEF ReportFrame
<1> QED
  BY <1>1 DEF Inv, Shape, ReportFrame

\* The outcome goes straight to the capability.
LEMMA DirectRefined ==
  ASSUME Inv, NEW e, ReportFrame(e), ~ ThroughElement(e.how), Settle(e.how, e.v),
         UNCHANGED <<alreadyCalled, values, remaining>>
  PROVE  Refined
<1>1. /\ e \in Reports /\ e.i \in 1 .. size /\ log' = Append(log, e)
      /\ UNCHANGED <<kind, phase, failed, size>> /\ Status' = Status
      /\ e.how \in {"fulfilled", "rejected"}
  BY ReportsTyped DEF ReportFrame, Status, Hows
<1>2. result' = IF result.state = "pending" THEN [state |-> e.how, value |-> e.v] ELSE result
  BY DEF Settle
<1>3. Shape /\ Accounts /\ Counter /\ Collected /\ Undecided
  BY DEF Inv
<1>4. result'.state \in {"fulfilled", "rejected"}
  BY <1>1, <1>2, <1>3 DEF Shape
<1>5. Shape'
  BY <1>4, ReportShape
<1>6. Accounts' /\ Counter'
  BY <1>1, <1>3 DEF Accounts, Counter
<1>7. Collected'
  <2>1. \A j : Counted(j)' = Counted(j)
    BY <1>1, ReportLogged
  <2>2. \A how, v : Stored(how, v)' = Stored(how, v)
    BY <1>1 DEF Stored
  <2>3. \A j : \A r \in Counted(j) : log'[r] = log[r]
    BY <1>1, ReportLogged DEF Counted
  <2> QED
    BY <1>1, <1>3, <2>1, <2>2, <2>3, ZenonT(30) DEF Collected
<1>8. Undecided'
  BY <1>4 DEF Undecided
<1>9. result' = IF result = CombAbstract!Pending
                THEN CombAbstract!Decision(Status, size, log') ELSE result
  <2>1. CASE result.state # "pending"
    BY <1>2, <1>3, <2>1, PendingIs
  <2>2. CASE result.state = "pending"
    <3>1. /\ result = CombAbstract!Pending /\ log \in Seq(Reports)
          /\ \A r \in 1 .. Len(log) : ThroughElement(log[r].how)
      BY <1>3, <2>2, PendingIs DEF Undecided, Shape
    <3>2. Status \in {"open", "ended"}
      BY <1>3, <2>2 DEF Undecided, Status
    <3>3. kind # "race" => Status = "open" \/ ~ CombAbstract!Everyone(Through, size, log)
      BY <2>2, <3>2, NotEveryone
    <3>4. CombAbstract!Decision(Status, size, Append(log, e)) = [state |-> e.how, value |-> e.v]
      BY <1>1, <1>3, <3>1, <3>2, <3>3, DecisionDirect
    <3> QED
      BY <1>1, <1>2, <2>2, <3>1, <3>4
  <2> QED
    BY <2>1, <2>2
<1>10. CombAbstract!Next
  BY <1>9, ReportMatches
<1> QED
  BY <1>5, <1>6, <1>7, <1>8, <1>10 DEF Refined, Inv

\* The books after a call of an element function tell whether everyone has called.
LEMMA BooksAfter ==
  ASSUME Shape', Accounts', Counter', Collected', kind' = kind, kind # "race"
  PROVE  /\ CombAbstract!Everyone(Through, size', log')
              <=> Cardinality(Positions(alreadyCalled', {FALSE})) = 0
         /\ Len(values') = size' /\ CombAbstract!Everyone(Through, size', log')
              => values' = AllEntries(size', log')
<1>1. Through' = Through
  BY DEF Through, ThroughElement
<1>2. AllEntries(size, log)' = AllEntries(size', log')
  BY <1>1 DEF AllEntries, Stored, CombAbstract!First
<1>3. (Books /\ kind # "race" =>
         /\ Cardinality(Positions(alreadyCalled, {FALSE})) \in Nat
         /\ CombAbstract!Everyone(Through, size, log)
              <=> Cardinality(Positions(alreadyCalled, {FALSE})) = 0)'
  BY CalledByAll, PTL
<1>4. (Books /\ kind # "race" /\ Len(values) = size /\ CombAbstract!Everyone(Through, size, log)
         => values = AllEntries(size, log))'
  BY ValuesComplete, PTL
<1>5. CombAbstract!Everyone(Through, size, log)' <=> CombAbstract!Everyone(Through, size', log')
  BY <1>1 DEF CombAbstract!Everyone
<1>6. Books'
  BY DEF Books
<1> QED
  BY <1>2, <1>3, <1>4, <1>5, <1>6

\* What the abstract specification decides at a call of an element function.
LEMMA ThroughDecided ==
  ASSUME Inv, NEW e, ReportFrame(e), ThroughElement(e.how), kind # "race",
         Shape', Accounts', Counter', Collected', result.state = "pending"
  PROVE  /\ \A r \in 1 .. Len(log') : ThroughElement(log'[r].how)
         /\ remaining' = 0 => CombAbstract!Decision(Status, size, log') =
              [state |-> IF kind = "any" THEN "rejected" ELSE "fulfilled", value |-> values']
         /\ remaining' # 0 =>
              CombAbstract!Decision(Status, size, log') = [state |-> "pending", value |-> << >>]
<1>1. /\ e \in Reports /\ e.i \in 1 .. size /\ log' = Append(log, e)
      /\ UNCHANGED <<kind, phase, failed, size>> /\ Status' = Status
  BY DEF ReportFrame, Status
<1>2. Shape /\ Undecided
  BY DEF Inv
<1>3. /\ log' \in Seq(Reports) /\ Len(log) \in Nat /\ Len(log') = Len(log) + 1
      /\ \A r \in 1 .. Len(log) : log'[r] = log[r]
      /\ log'[Len(log) + 1] = e
  BY <1>1, ReportLogged
<1>4. \A r \in 1 .. Len(log') : ThroughElement(log'[r].how)
  <2>1. \A r \in 1 .. Len(log') : r \in 1 .. Len(log) \/ r = Len(log) + 1
    BY <1>3
  <2>2. \A r \in 1 .. Len(log) : ThroughElement(log[r].how)
    BY <1>2 DEF Undecided
  <2> QED
    BY <1>3, <2>1, <2>2
<1>5. Status \in {"open", "ended"} /\ size \in Nat
  BY <1>2 DEF Undecided, Status, Shape
<1>6. Cardinality(Positions(alreadyCalled', {FALSE})) \in Nat
  <2>1. PICK c \in Seq(BOOLEAN) : c = alreadyCalled'
    BY DEF Accounts
  <2> QED
    BY <2>1, PositionsFinite
<1>7. remaining' = Cardinality(Positions(alreadyCalled', {FALSE}))
                     + (IF Status = "ended" THEN 0 ELSE 1)
  BY <1>1 DEF Counter
<1>8. CASE remaining' = 0
  <2>1. Status = "ended" /\ Cardinality(Positions(alreadyCalled', {FALSE})) = 0
    BY <1>6, <1>7, <1>8
  <2>2. Len(values') = size'
    BY <1>1, <2>1 DEF Accounts
  <2>3. CombAbstract!Everyone(Through, size, log') /\ values' = AllEntries(size, log')
    BY <1>1, <2>1, <2>2, BooksAfter
  <2>4. CombAbstract!Decision("ended", size, log') =
          [state |-> IF kind = "any" THEN "rejected" ELSE "fulfilled", value |-> AllEntries(size, log')]
    BY <1>2, <1>3, <1>4, <1>5, <2>3, DecisionComplete
  <2> QED
    BY <1>4, <1>8, <2>1, <2>3, <2>4
<1>9. CASE remaining' # 0
  <2>1. Status = "open" \/ ~ CombAbstract!Everyone(Through, size, log')
    BY <1>1, <1>5, <1>7, <1>9, BooksAfter
  <2>2. CombAbstract!Decision(Status, size, log') = [state |-> "pending", value |-> << >>]
    BY <1>2, <1>3, <1>4, <1>5, <2>1, DecisionPending
  <2> QED
    BY <1>4, <1>9, <2>2
<1> QED
  BY <1>8, <1>9

\* Raising a flag that is down takes one position from those that are down.
LEMMA FlagRaised ==
  ASSUME NEW S, NEW T, NEW c \in Seq(T), NEW i \in 1 .. Len(c), NEW x \in T, x \notin S, c[i] \in S
  PROVE  /\ [c EXCEPT ![i] = x] \in Seq(T) /\ Len([c EXCEPT ![i] = x]) = Len(c)
         /\ \A j \in 1 .. Len(c) : [c EXCEPT ![i] = x][j] = IF j = i THEN x ELSE c[j]
         /\ Cardinality(Positions([c EXCEPT ![i] = x], S)) = Cardinality(Positions(c, S)) - 1
<1> DEFINE d == [c EXCEPT ![i] = x]
<1>1. /\ d \in Seq(T) /\ Len(d) = Len(c)
      /\ \A j \in 1 .. Len(c) : d[j] = IF j = i THEN x ELSE c[j]
  OBVIOUS
<1> HIDE DEF d
<1>2. Positions(d, S) = Positions(c, S) \ {i} /\ i \in Positions(c, S)
  BY <1>1 DEF Positions
<1>3. Cardinality(Positions(d, S)) = Cardinality(Positions(c, S)) - 1
  <2>1. IsFiniteSet(Positions(c, S))
    BY PositionsFinite
  <2>2. Cardinality(Positions(c, S) \ {i}) = Cardinality(Positions(c, S)) - 1
    BY <1>2, <2>1, FS_RemoveElement
  <2> QED
    BY <1>2, <2>2
<1> QED
  BY <1>1, <1>3 DEF d

\* The first call of an element function keeps the books.
LEMMA FirstCallBooks ==
  ASSUME Inv, NEW e, ReportFrame(e), ThroughElement(e.how), kind # "race", ~ alreadyCalled[e.i],
         alreadyCalled' = [alreadyCalled EXCEPT ![e.i] = TRUE],
         values' = [values EXCEPT ![e.i] = Stored(e.how, e.v)],
         remaining' = remaining - 1
  PROVE  Accounts' /\ Counter' /\ Collected'
<1>1. /\ e \in Reports /\ e.i \in 1 .. size /\ log' = Append(log, e)
      /\ UNCHANGED <<kind, phase, failed, size>> /\ Status' = Status
      /\ e.how \in Hows /\ e.v \in Values
  BY ReportsTyped DEF ReportFrame, Status
<1>2. Shape /\ Accounts /\ Counter /\ Collected
  BY DEF Inv
<1>3. /\ alreadyCalled \in Seq(BOOLEAN) /\ Len(alreadyCalled) = size /\ values \in Seq(Entries)
      /\ size \in Nat /\ e.i \in 1 .. Len(values)
  BY <1>1, <1>2 DEF Accounts, Shape
<1>4. TRUE \in BOOLEAN /\ TRUE \notin {FALSE}
  BY Zenon
<1>5. alreadyCalled[e.i] \in {FALSE}
  <2>1. alreadyCalled[e.i] \in BOOLEAN
    BY <1>1, <1>3
  <2> QED
    BY <2>1, Zenon
<1>6. /\ alreadyCalled' \in Seq(BOOLEAN) /\ Len(alreadyCalled') = size
      /\ \A j \in 1 .. size : alreadyCalled'[j] = IF j = e.i THEN TRUE ELSE alreadyCalled[j]
      /\ Cardinality(Positions(alreadyCalled', {FALSE})) =
           Cardinality(Positions(alreadyCalled, {FALSE})) - 1
      /\ Cardinality(Positions(alreadyCalled, {FALSE})) \in Nat
  <2>1. PICK c \in Seq(BOOLEAN) : c = alreadyCalled
    BY <1>3
  <2>2. e.i \in 1 .. Len(c) /\ c[e.i] \in {FALSE}
    BY <1>1, <1>3, <1>5, <2>1
  <2>3. Cardinality(Positions(c, {FALSE})) \in Nat
    BY PositionsFinite
  <2>4. /\ [c EXCEPT ![e.i] = TRUE] \in Seq(BOOLEAN) /\ Len([c EXCEPT ![e.i] = TRUE]) = Len(c)
        /\ \A j \in 1 .. Len(c) : [c EXCEPT ![e.i] = TRUE][j] = IF j = e.i THEN TRUE ELSE c[j]
        /\ Cardinality(Positions([c EXCEPT ![e.i] = TRUE], {FALSE})) =
             Cardinality(Positions(c, {FALSE})) - 1
    <3>1. PICK F : F = {FALSE}
      OBVIOUS
    <3>2. PICK t \in BOOLEAN : t = TRUE
      BY <1>4
    <3>3. t \notin F /\ c[e.i] \in F
      BY <1>4, <2>2, <3>1, <3>2, Zenon
    <3>4. /\ [c EXCEPT ![e.i] = t] \in Seq(BOOLEAN) /\ Len([c EXCEPT ![e.i] = t]) = Len(c)
          /\ \A j \in 1 .. Len(c) : [c EXCEPT ![e.i] = t][j] = IF j = e.i THEN t ELSE c[j]
          /\ Cardinality(Positions([c EXCEPT ![e.i] = t], F)) = Cardinality(Positions(c, F)) - 1
      BY <2>2, <3>3, FlagRaised
    <3> QED
      BY <3>1, <3>2, <3>4, SMT
  <2> QED
    BY <1>3, <2>1, <2>3, <2>4, Zenon
<1>7. Stored(e.how, e.v) \in Entries
  BY <1>1 DEF Stored, Entries
<1>8. /\ values' \in Seq(Entries) /\ Len(values') = Len(values)
      /\ \A j \in 1 .. size : values'[j] = IF j = e.i THEN Stored(e.how, e.v) ELSE values[j]
  <2>1. size <= Len(values) /\ Len(values) \in Nat
    BY <1>2, <1>3 DEF Accounts
  <2> QED
    BY <1>3, <1>7, <2>1
<1>9. Accounts'
  BY <1>1, <1>2, <1>6, <1>8 DEF Accounts
<1>10. Counter'
  <2>1. remaining = Cardinality(Positions(alreadyCalled, {FALSE}))
                      + (IF Status = "ended" THEN 0 ELSE 1)
    BY <1>2 DEF Counter
  <2>2. remaining' = Cardinality(Positions(alreadyCalled', {FALSE}))
                       + (IF Status' = "ended" THEN 0 ELSE 1)
    BY <1>1, <1>6, <2>1
  <2> QED
    BY <2>2 DEF Counter
<1>11. Collected'
  <2>1. \A how, v : Stored(how, v)' = Stored(how, v)
    BY <1>1 DEF Stored
  <2>2. /\ Len(log) \in Nat /\ \A r \in 1 .. Len(log) : log'[r] = log[r]
        /\ log'[Len(log) + 1] = e
        /\ \A j : j # e.i => Counted(j)' = Counted(j)
        /\ Counted(e.i)' = Counted(e.i) \cup {Len(log) + 1}
    BY <1>1, ReportLogged
  <2> SUFFICES ASSUME NEW i \in 1 .. size
               PROVE  (/\ ~ alreadyCalled[i] => Counted(i) = {}
                       /\ alreadyCalled[i] => \E r \in Counted(i) :
                            /\ \A q \in Counted(i) : r <= q
                            /\ values[i] = Stored(log[r].how, log[r].v))'
    BY <1>1 DEF Collected
  <2>3. CASE i = e.i
    <3>1. Counted(i) = {}
      BY <1>2, <2>3 DEF Collected
    <3>2. Counted(i)' = {Len(log) + 1}
      BY <2>2, <2>3, <3>1
    <3>3. alreadyCalled'[i]
      BY <1>6, <2>3, Zenon
    <3>4. values'[i] = Stored(e.how, e.v)
      BY <1>8, <2>3
    <3> QED
      BY <2>1, <2>2, <3>2, <3>3, <3>4
  <2>4. CASE i # e.i
    <3>1. Counted(i)' = Counted(i) /\ \A r \in Counted(i) : log'[r] = log[r]
      BY <2>2, <2>4 DEF Counted
    <3>2. alreadyCalled'[i] = alreadyCalled[i]
      BY <1>6, <2>4, Zenon
    <3>3. values'[i] = values[i]
      BY <1>8, <2>4
    <3> QED
      BY <1>2, <2>1, <3>1, <3>2, <3>3 DEF Collected
  <2> QED
    BY <2>3, <2>4
<1> QED
  BY <1>9, <1>10, <1>11

\* A further call leaves the books as they are.
LEMMA FurtherCallBooks ==
  ASSUME Inv, NEW e, ReportFrame(e), ThroughElement(e.how), kind # "race", alreadyCalled[e.i],
         UNCHANGED <<alreadyCalled, values, remaining>>
  PROVE  Accounts' /\ Counter' /\ Collected'
<1>1. /\ e \in Reports /\ e.i \in 1 .. size /\ log' = Append(log, e)
      /\ UNCHANGED <<kind, phase, failed, size>> /\ Status' = Status
  BY DEF ReportFrame, Status
<1>2. Shape /\ Accounts /\ Counter /\ Collected
  BY DEF Inv
<1>3. Accounts' /\ Counter'
  BY <1>1, <1>2 DEF Accounts, Counter
<1>4. \A how, v : Stored(how, v)' = Stored(how, v)
  BY <1>1 DEF Stored
<1>5. /\ Len(log) \in Nat /\ \A r \in 1 .. Len(log) : log'[r] = log[r]
      /\ \A j : j # e.i => Counted(j)' = Counted(j)
      /\ Counted(e.i)' = Counted(e.i) \cup {Len(log) + 1}
  BY <1>1, ReportLogged
<1>6. ASSUME NEW i \in 1 .. size
      PROVE  (/\ ~ alreadyCalled[i] => Counted(i) = {}
              /\ alreadyCalled[i] => \E r \in Counted(i) :
                   /\ \A q \in Counted(i) : r <= q
                   /\ values[i] = Stored(log[r].how, log[r].v))'
  <2>1. CASE i = e.i
    <3>1. PICK r \in Counted(i) : /\ \A q \in Counted(i) : r <= q
                                  /\ values[i] = Stored(log[r].how, log[r].v)
      BY <1>2, <2>1 DEF Collected
    <3>2. r \in 1 .. Len(log)
      BY <3>1 DEF Counted
    <3>3. r \in Counted(i)' /\ \A q \in Counted(i)' : r <= q
      <4>1. Counted(i)' = Counted(i) \cup {Len(log) + 1}
        BY <1>5, <2>1
      <4>2. r <= Len(log) + 1
        BY <1>5, <3>2
      <4> QED
        BY <3>1, <4>1, <4>2
    <3>4. values'[i] = Stored(log'[r].how, log'[r].v)
      BY <1>5, <3>1, <3>2
    <3>5. alreadyCalled'[i]
      BY <2>1
    <3> QED
      BY <1>4, <3>3, <3>4, <3>5
  <2>2. CASE i # e.i
    <3>1. Counted(i)' = Counted(i) /\ \A r \in Counted(i) : log'[r] = log[r]
      BY <1>5, <2>2 DEF Counted
    <3> QED
      BY <1>2, <1>4, <3>1 DEF Collected
  <2> QED
    BY <2>1, <2>2
<1>7. Collected'
  BY <1>1, <1>6 DEF Collected
<1> QED
  BY <1>3, <1>7

\* A call of an element function.
LEMMA ElementRefined ==
  ASSUME Inv, NEW e, ReportFrame(e), ThroughElement(e.how), ElementFunction(e.i, e.how, e.v)
  PROVE  Refined
<1>1. UNCHANGED <<kind, phase, failed, size>> /\ Status' = Status
  BY DEF ReportFrame, Status
<1>2. kind # "race" /\ Shape /\ Undecided
  BY DEF Inv, ThroughElement
<1>3. \/ alreadyCalled[e.i] /\ UNCHANGED <<alreadyCalled, values, remaining, result>>
      \/ /\ ~ alreadyCalled[e.i]
         /\ alreadyCalled' = [alreadyCalled EXCEPT ![e.i] = TRUE]
         /\ values' = [values EXCEPT ![e.i] = Stored(e.how, e.v)]
         /\ remaining' = remaining - 1
         /\ remaining' # 0 => result' = result
         /\ remaining' = 0 =>
              result' = IF result.state = "pending"
                        THEN [state |-> IF kind = "any" THEN "rejected" ELSE "fulfilled", value |-> values']
                        ELSE result
  BY DEF ElementFunction, Complete, Settle
<1>4. Accounts' /\ Counter' /\ Collected'
  BY <1>2, <1>3, FirstCallBooks, FurtherCallBooks
<1>5. result'.state \in {"fulfilled", "rejected"} \/ result' = result
  BY <1>3
<1>6. Shape'
  BY <1>5, ReportShape
<1>7. result.state = "pending" =>
        result' = IF remaining' = 0
                  THEN [state |-> IF kind = "any" THEN "rejected" ELSE "fulfilled", value |-> values']
                  ELSE result
  BY <1>2, <1>3 DEF Undecided
<1>8. result.state # "pending" => result' = result
  BY <1>3
<1>9. result.state = "pending" =>
        /\ \A r \in 1 .. Len(log') : ThroughElement(log'[r].how)
        /\ remaining' = 0 => CombAbstract!Decision(Status, size, log') =
             [state |-> IF kind = "any" THEN "rejected" ELSE "fulfilled", value |-> values']
        /\ remaining' # 0 =>
             CombAbstract!Decision(Status, size, log') = [state |-> "pending", value |-> << >>]
  BY <1>2, <1>4, <1>6, ThroughDecided
<1>10. Undecided'
  <2> SUFFICES ASSUME result'.state = "pending"
               PROVE  (/\ ~ failed /\ \A r \in 1 .. Len(log) : ThroughElement(log[r].how)
                       /\ kind # "race" => remaining # 0)'
    BY DEF Undecided
  <2>1. result.state = "pending" /\ remaining' # 0
    BY <1>7, <1>8
  <2>2. \A how : ThroughElement(how)' <=> ThroughElement(how)
    BY <1>1 DEF ThroughElement
  <2> QED
    BY <1>1, <1>2, <1>9, <2>1, <2>2 DEF Undecided
<1>11. result' = IF result = CombAbstract!Pending
                 THEN CombAbstract!Decision(Status, size, log') ELSE result
  BY <1>2, <1>7, <1>8, <1>9, PendingIs DEF CombAbstract!Pending
<1>12. CombAbstract!Next
  BY <1>11, ReportMatches
<1> QED
  BY <1>4, <1>6, <1>10, <1>12 DEF Refined, Inv

-----------------------------------------------------------------------------
(* The theorems                                                             *)

\* Every step keeps the invariant and is one of the abstract specification.
LEMMA NextRefined == Inv /\ [CombNext]_combVars => Refined
<1> SUFFICES ASSUME Inv, [CombNext]_combVars PROVE Refined
  OBVIOUS
<1> DEFINE Goal == Refined
<1> HIDE DEF Goal
<1>1. ASSUME Begin PROVE Goal
  <2>1. phase = "begin" /\ phase # "returned"
    BY <1>1 DEF Begin
  <2>2. CASE phase' = "step" /\ UNCHANGED <<failed, result>>
    BY <1>1, <2>1, <2>2, PhaseStep DEF Begin, Goal
  <2>3. CASE Catch(Thrown)
    BY <1>1, <2>1, <2>3, CatchStep DEF Begin, Goal
  <2> QED
    BY <1>1, <2>2, <2>3 DEF Begin
<1>2. ASSUME StepValue PROVE Goal
  BY <1>2, StepValueRefined DEF Goal
<1>3. ASSUME StepThrows PROVE Goal
  BY <1>3, CatchStep DEF StepThrows, Goal
<1>4. ASSUME StepEnd PROVE Goal
  BY <1>4, StepEndRefined DEF Goal
<1>5. ASSUME PromiseResolve PROVE Goal
  BY <1>5, PromiseResolveRefined DEF Goal
<1>6. ASSUME ThenReturns PROVE Goal
  BY <1>6, PhaseStep DEF ThenReturns, Goal
<1>7. ASSUME IteratorClose PROVE Goal
  BY <1>7, CatchStep DEF IteratorClose, Goal
<1>8. ASSUME NEW i \in 1 .. size, NEW how \in {"fulfilled", "rejected"}, NEW v \in Values,
             Report(i, how, v)
      PROVE  Goal
  <2> DEFINE e == [i |-> i, how |-> how, v |-> v]
  <2>1. e \in Reports /\ e.i = i /\ e.how = how /\ e.v = v
    <3>1. i \in Nat
      BY DEF Inv, Shape
    <3> QED
      BY <3>1 DEF Reports, Hows
  <2>2. ReportFrame(e)
    BY <1>8, <2>1 DEF Report, ReportFrame
  <2> HIDE DEF e
  <2>3. CASE ThroughElement(how)
    BY <1>8, <2>1, <2>2, <2>3, ElementRefined DEF Report, Goal
  <2>4. CASE ~ ThroughElement(how)
    BY <1>8, <2>1, <2>2, <2>4, DirectRefined DEF Report, Goal
  <2> QED
    BY <2>3, <2>4
<1>9. ASSUME UNCHANGED combVars PROVE Goal
  <2>1. /\ UNCHANGED <<kind, phase, failed, values, remaining, alreadyCalled, result, size, log>>
    BY <1>9 DEF combVars
  <2>2. Inv'
    BY <2>1, SMTT(30) DEF Inv, Shape, Accounts, Counter, Collected, Undecided, Counted, Stored,
                ThroughElement, Status
  <2>3. UNCHANGED CombAbstract!vars
    BY <2>1 DEF CombAbstract!vars, Status
  <2> QED
    BY <2>2, <2>3 DEF Goal, Refined
<1>10. Goal
  BY <1>1, <1>2, <1>3, <1>4, <1>5, <1>6, <1>7, <1>8, <1>9 DEF CombNext
<1> QED
  BY <1>10 DEF Goal

\* The invariant of one call: the counter, the flags and the vector tell which
\* elements have called their function and with what, at every moment of the
\* iteration and after it.
THEOREM CombInvariance == CombSpec => []Inv
<1>1. CombInit => Inv
  BY InitRefined
<1>2. Inv /\ [CombNext]_combVars => Inv'
  BY NextRefined DEF Refined
<1> QED
  BY <1>1, <1>2, PTL DEF CombSpec

\* One call of a combinator implements the abstract specification, however many
\* elements there are and however often and whenever they report: the counter
\* reaches zero at the report or at the end of the iteration that decides the
\* call, and the vector then holds the first report of every element.
THEOREM CombinatorsImplementAggregate == CombSpec => ImplementsAggregate
<1>1. CombInit => Inv /\ CombAbstract!Init
  BY InitRefined
<1>2. Inv /\ [CombNext]_combVars => Inv' /\ [CombAbstract!Next]_(CombAbstract!vars)
  BY NextRefined DEF Refined
<1> QED
  BY <1>1, <1>2, PTL DEF CombSpec, ImplementsAggregate, CombAbstract!Spec

\* The counter never passes one more than the number of elements, nor zero.
THEOREM CombTypeCorrect == CombSpec => []CombTypeOK
<1>1. Inv => CombTypeOK
  <2> SUFFICES ASSUME Inv PROVE CombTypeOK
    OBVIOUS
  <2>1. Shape /\ Accounts /\ Counter
    BY DEF Inv
  <2>2. result.state \in {"pending", "fulfilled", "rejected"}
    BY <2>1 DEF Shape
  <2>3. alreadyCalled \in Seq(BOOLEAN) /\ Len(alreadyCalled) <= Len(values)
    <3>1. CASE kind = "race"
      BY <2>1, <3>1 DEF Accounts
    <3>2. CASE kind # "race"
      BY <2>1, <3>2 DEF Accounts
    <3> QED
      BY <3>1, <3>2
  <2>4. remaining \in 0 .. (MaxElements + 1)
    <3>1. CASE kind = "race"
      BY <2>1, <3>1, CombinatorsAssumption DEF Accounts
    <3>2. CASE kind # "race"
      <4> DEFINE P == Positions(alreadyCalled, {FALSE})
      <4>1. size \in Nat /\ size <= MaxElements /\ Len(alreadyCalled) = size
        BY <2>1, <3>2 DEF Shape, Accounts
      <4>2. P \subseteq 1 .. size
        BY <4>1 DEF Positions
      <4>3. IsFiniteSet(1 .. size) /\ Cardinality(1 .. size) = size
        BY <4>1, FS_Interval
      <4>4. IsFiniteSet(P) /\ Cardinality(P) <= size
        BY <4>2, <4>3, FS_Subset
      <4>5. Cardinality(P) \in Nat
        BY <4>4, FS_CardinalityType
      <4>6. remaining = Cardinality(P) + (IF Status = "ended" THEN 0 ELSE 1)
        BY <2>1, <3>2 DEF Counter
      <4> HIDE DEF P
      <4> QED
        BY <4>1, <4>4, <4>5, <4>6, CombinatorsAssumption
    <3> QED
      BY <3>1, <3>2
  <2> QED
    BY <2>2, <2>3, <2>4 DEF CombTypeOK
<1> QED
  BY <1>1, CombInvariance, PTL
=============================================================================
